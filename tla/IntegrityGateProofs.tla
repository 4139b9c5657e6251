------------------------- MODULE IntegrityGateProofs -------------------------
(***************************************************************************)
(* Machine-checked proofs about IntegrityGate, for any set of openers, any *)
(* PIDs, whatever earlier runs have left and any number of faults.         *)
(*                                                                         *)
(* CrashIsSeen needs more than the session files: an opener that died must *)
(* still have its file (DirtyLeft) and its PID must be nobody's            *)
(* (DirtyDead), so that every scan to come counts it.  A scan deletes the  *)
(* files it counted a minute earlier: that is safe because none of them    *)
(* can have become an announced opener's in the meantime (StaleDead) and   *)
(* because what it deletes it had seen (DueCounted).                       *)
(***************************************************************************)
EXTENDS IntegrityGate, TLAPS

FilesOK ==
    /\ disk \in Disks /\ backup \in Disks
    /\ marker \in Markers
    /\ faults \in Nat

PidsOK == sessions \subseteq Pids /\ strangers \subseteq Pids /\ dirty \subseteq Pids

ProcOK == proc \in [Procs -> Opener]

\* TypeOK falls into the groups the steps disturb.
LEMMA TypeParts == TypeOK <=> FilesOK /\ PidsOK /\ ProcOK
BY DEF TypeOK, FilesOK, PidsOK, ProcOK

-----------------------------------------------------------------------------
(* The inductive invariant *)

\* Whether an opener's own session file was written.
HasAnnounced(p) == proc[p].told = TRUE

\* A killed opener's session file is still there ...
DirtyLeft == dirty \subseteq sessions

\* ... and its PID is nobody's.
DirtyDead == dirty \cap Alive = {}

\* An opener that runs has a PID of its own.
OwnPid ==
    \A p \in Procs : /\ proc[p].at = "off" <=> proc[p].pid = 0
                     /\ proc[p].pid \notin strangers
                     /\ \A q \in Procs : proc[q].pid = proc[p].pid => q = p \/ proc[p].pid = 0

\* One that has announced itself has a session file.
ToldLeft == \A p \in Procs : HasAnnounced(p) => proc[p].pid \in sessions

\* What a scan counted is its own file or a dead process's.
StaleDead == \A p \in Procs : \A s \in proc[p].stale : s = proc[p].pid \/ s \notin Alive

\* Of the killed openers a scan counted, it knew.
DueCounted == \A p \in Procs : proc[p].stale \cap dirty \subseteq proc[p].due

CrashInv == DirtyLeft /\ DirtyDead /\ OwnPid /\ ToldLeft /\ StaleDead /\ DueCounted

IInv == TypeOK /\ CrashInv

-----------------------------------------------------------------------------
(* What the steps leave alone *)

\* The step of an opener that keeps its PID and its session file, and that goes on
\* with the files it counted or forgets them.
Quiet(p) ==
    /\ \E r \in Opener :
         /\ proc' = [proc EXCEPT ![p] = r]
         /\ r.pid = proc[p].pid /\ r.told = proc[p].told /\ r.at # "off"
         /\ r.stale = {} \/ (r.stale = proc[p].stale /\ r.due = proc[p].due)
    /\ UNCHANGED <<sessions, strangers, dirty>>

\* Such a step disturbs neither the types nor the invariant.
LEMMA QuietKeeps ==
    ASSUME IInv, NEW p \in Procs, proc[p].at # "off", Quiet(p), FilesOK'
    PROVE  IInv'
<1> USE DEF Quiet
<1>1. PICK r \in Opener :
         /\ proc' = [proc EXCEPT ![p] = r]
         /\ r.pid = proc[p].pid /\ r.told = proc[p].told /\ r.at # "off"
         /\ r.stale = {} \/ (r.stale = proc[p].stale /\ r.due = proc[p].due)
  OBVIOUS
<1>2. ProcOK /\ PidsOK /\ sessions' = sessions /\ strangers' = strangers /\ dirty' = dirty
  BY TypeParts DEF IInv
<1>3. proc' \in [Procs -> Opener] /\ proc'[p] = r /\ \A q \in Procs \ {p} : proc'[q] = proc[q]
  BY <1>1, <1>2 DEF ProcOK
<1>4. \A q \in Procs : proc'[q].pid = proc[q].pid /\ proc'[q].told = proc[q].told
  BY <1>1, <1>3
<1>5. Alive' = Alive
  BY <1>2, <1>4 DEF Alive
<1>6. \A q \in Procs : \/ proc'[q].stale = {}
                       \/ proc'[q].stale = proc[q].stale /\ proc'[q].due = proc[q].due
  BY <1>1, <1>3
<1>7. \A q \in Procs : (proc'[q].at = "off") = (proc[q].at = "off")
  BY <1>1, <1>3
<1>8. TypeOK'
  BY <1>2, <1>3 DEF TypeOK, FilesOK, PidsOK
<1>9. DirtyLeft' /\ DirtyDead'
  BY <1>2, <1>5 DEF IInv, CrashInv, DirtyLeft, DirtyDead
<1>10. OwnPid'
  BY <1>2, <1>4, <1>7 DEF IInv, CrashInv, OwnPid
<1>11. ToldLeft'
  BY <1>2, <1>4 DEF IInv, CrashInv, ToldLeft, HasAnnounced
<1>12. StaleDead'
  BY <1>4, <1>5, <1>6 DEF IInv, CrashInv, StaleDead
<1>13. DueCounted'
  BY <1>2, <1>6 DEF IInv, CrashInv, DueCounted
<1> QED
  BY <1>8, <1>9, <1>10, <1>11, <1>12, <1>13 DEF IInv, CrashInv

\* So is going on, telling a verdict, and returning.
LEMMA GoIsQuiet ==
    ASSUME ProcOK, NEW p \in Procs, NEW to \in Points \ {"off"}, Go(p, to),
           UNCHANGED <<sessions, strangers, dirty>>
    PROVE  Quiet(p)
<1> DEFINE r == [proc[p] EXCEPT !.at = to]
<1>1. proc[p] \in Opener
  BY DEF ProcOK
<1>2. r \in Opener /\ r.pid = proc[p].pid /\ r.told = proc[p].told /\ r.at # "off"
        /\ r.stale = proc[p].stale /\ r.due = proc[p].due
  BY <1>1 DEF Opener
<1>3. proc' = [proc EXCEPT ![p] = r]
  BY DEF Go
<1> QED
  BY <1>2, <1>3 DEF Quiet

LEMMA TellIsQuiet ==
    ASSUME ProcOK, NEW p \in Procs, NEW to \in Points \ {"off"}, NEW verdict \in Verdicts,
           Tell(p, to, verdict), UNCHANGED <<sessions, strangers, dirty>>
    PROVE  Quiet(p)
<1> DEFINE r == [proc[p] EXCEPT !.at = to, !.verdict = verdict]
<1>1. proc[p] \in Opener
  BY DEF ProcOK
<1>2. r \in Opener /\ r.pid = proc[p].pid /\ r.told = proc[p].told /\ r.at # "off"
        /\ r.stale = proc[p].stale /\ r.due = proc[p].due
  BY <1>1 DEF Opener
<1>3. proc' = [proc EXCEPT ![p] = r]
  BY <1>1 DEF Tell, ProcOK, Opener
<1> QED
  BY <1>2, <1>3 DEF Quiet

LEMMA ReturnsIsQuiet ==
    ASSUME ProcOK, NEW p \in Procs, NEW to \in Points \ {"off"}, Returns(p, to),
           UNCHANGED <<sessions, strangers, dirty>>
    PROVE  Quiet(p)
<1> DEFINE r == [Off EXCEPT !.at = to, !.pid = proc[p].pid, !.told = proc[p].told]
<1>1. proc[p] \in Opener
  BY DEF ProcOK
<1>2. r \in Opener /\ r.pid = proc[p].pid /\ r.told = proc[p].told /\ r.at # "off" /\ r.stale = {}
  BY <1>1 DEF Opener, Off, Verdicts
<1>3. proc' = [proc EXCEPT ![p] = r]
  BY DEF Returns
<1> QED
  BY <1>2, <1>3 DEF Quiet

\* Most steps of an opener are of that kind.
QuietStep(p) ==
    \/ ScanTells(p) \/ ScanLocked(p)
    \/ Quarantine(p) \/ QuarantineFails(p) \/ Restore(p) \/ RestoreFails(p)
    \/ Settle(p) \/ SettleFails(p)
    \/ Opens(p) \/ OpenRefused(p) \/ OpenFails(p)
    \/ OpenRepaired(p) \/ RefuseIntact(p) \/ LastResort(p) \/ RecoveryFails(p)

LEMMA QuietSteps ==
    ASSUME IInv, NEW p \in Procs, QuietStep(p)
    PROVE  Quiet(p) /\ proc[p].at # "off" /\ FilesOK'
<1>1. ProcOK /\ FilesOK /\ PidsOK /\ proc[p] \in Opener
  BY TypeParts DEF IInv, ProcOK
<1>2. faults + 1 \in Nat
  BY <1>1 DEF FilesOK
<1>3. CASE ScanTells(p)
  BY <1>1, <1>3, TellIsQuiet DEF ScanTells, FilesOK, NoFault, Points, Verdicts
<1>4. CASE ScanLocked(p)
  BY <1>1, <1>4, TellIsQuiet DEF ScanLocked, FilesOK, NoFault, Points, Verdicts
<1>5. CASE Quarantine(p)
  BY <1>1, <1>5, GoIsQuiet DEF Quarantine, FileIs, FilesOK, NoFault, Points, Disks, Markers
<1>6. CASE QuarantineFails(p)
  BY <1>1, <1>2, <1>6, TellIsQuiet DEF QuarantineFails, FilesOK, NoFault, Fault, Points, Verdicts
<1>7. CASE Restore(p)
  BY <1>1, <1>7, TellIsQuiet DEF Restore, FileIs, FilesOK, NoFault, Points, Verdicts, Markers
<1>8. CASE RestoreFails(p)
  BY <1>1, <1>2, <1>8, TellIsQuiet DEF RestoreFails, FilesOK, Fault, Points, Verdicts
<1>9. CASE Settle(p)
  <2>1. marker' \in Markers
    BY <1>1, <1>9 DEF Settle, FilesOK, Markers
  <2> QED
    BY <1>1, <1>9, <2>1, GoIsQuiet DEF Settle, FilesOK, NoFault, Points
<1>10. CASE SettleFails(p)
  BY <1>1, <1>2, <1>10, GoIsQuiet DEF SettleFails, FilesOK, Fault, Points, Markers
<1>11. CASE Opens(p)
  BY <1>1, <1>11, ReturnsIsQuiet DEF Opens, Created, FileIs, FilesOK, NoFault, Points, Disks, Markers
<1>12. CASE OpenRefused(p)
  BY <1>1, <1>2, <1>12, ReturnsIsQuiet DEF OpenRefused, FilesOK, NoFault, Fault, Points
<1>13. CASE OpenFails(p)
  <2>1. FilesOK' /\ proc[p].at # "off" /\ UNCHANGED <<sessions, strangers, dirty>>
    BY <1>1, <1>2, <1>13 DEF OpenFails, FilesOK, NoFault, Fault
  <2>2. CASE proc[p].verdict = "skipped"
    <3> DEFINE r == [proc[p] EXCEPT !.at = "scan", !.late = TRUE]
    <3>1. r \in Opener /\ r.pid = proc[p].pid /\ r.told = proc[p].told /\ r.at # "off"
            /\ r.stale = proc[p].stale /\ r.due = proc[p].due
      BY <1>1 DEF Opener, Points
    <3>2. proc' = [proc EXCEPT ![p] = r]
      BY <1>1, <1>13, <2>2 DEF OpenFails, ProcOK, Opener
    <3> QED
      BY <2>1, <3>1, <3>2 DEF Quiet
  <2>3. CASE proc[p].verdict # "skipped"
    BY <1>1, <1>13, <2>1, <2>3, GoIsQuiet DEF OpenFails, Points
  <2> QED
    BY <2>2, <2>3
<1>14. CASE OpenRepaired(p)
  BY <1>1, <1>14, TellIsQuiet DEF OpenRepaired, FilesOK, NoFault, Points, Verdicts
<1>15. CASE RefuseIntact(p)
  BY <1>1, <1>15, ReturnsIsQuiet DEF RefuseIntact, FilesOK, NoFault, Points
<1>16. CASE LastResort(p)
  <2>1. FilesOK' /\ proc[p].at # "off" /\ UNCHANGED <<sessions, strangers, dirty>>
    BY <1>1, <1>16 DEF LastResort, FilesOK, NoFault, Disks, Markers
  <2>2. CASE disk # "none"
    BY <1>1, <1>16, <2>1, <2>2, TellIsQuiet DEF LastResort, Points, Verdicts
  <2>3. CASE disk = "none"
    BY <1>1, <1>16, <2>1, <2>3, ReturnsIsQuiet DEF LastResort, Points
  <2> QED
    BY <2>2, <2>3
<1>17. CASE RecoveryFails(p)
  BY <1>1, <1>2, <1>17, ReturnsIsQuiet DEF RecoveryFails, FilesOK, Fault, Points
<1> QED
  BY <1>3, <1>4, <1>5, <1>6, <1>7, <1>8, <1>9, <1>10, <1>11, <1>12, <1>13, <1>14, <1>15, <1>16, <1>17
     DEF QuietStep

-----------------------------------------------------------------------------
(* The steps that touch the session files, or who is alive *)

\* What the proofs below start from.
LEMMA Facts ==
    ASSUME IInv
    PROVE  /\ FilesOK /\ PidsOK /\ ProcOK
           /\ DirtyLeft /\ DirtyDead /\ OwnPid /\ ToldLeft /\ StaleDead /\ DueCounted
BY TypeParts DEF IInv, CrashInv

LEMMA PreflightKeeps ==
    ASSUME IInv, NEW p \in Procs, Preflight(p)
    PROVE  IInv'
<1>1. FilesOK /\ PidsOK /\ ProcOK /\ proc[p] \in Opener
  BY Facts DEF ProcOK
<1>2. PICK r \in Opener :
        /\ proc' = [proc EXCEPT ![p] = r]
        /\ r.at # "off" /\ r.pid = proc[p].pid /\ r.told = proc[p].told
        /\ r.stale = {} \/ (r.stale = Unclean(p) /\ r.due = dirty)
  <2> DEFINE stale == Unclean(p)
             r == [proc[p] EXCEPT !.at = IF disk # "none" /\ ~Trusted(stale) THEN "scan" ELSE "announce",
                                  !.verdict = IF disk = "none" THEN "nodb"
                                              ELSE IF Trusted(stale) THEN "skipped" ELSE "none",
                                  !.stale = IF disk # "none" THEN stale ELSE {},
                                  !.due = IF disk # "none" THEN dirty ELSE {}]
  <2>1. stale \in SUBSET Pids
    BY <1>1 DEF Unclean, PidsOK
  <2> HIDE DEF stale
  <2>2. r \in Opener /\ r.at # "off" /\ r.pid = proc[p].pid /\ r.told = proc[p].told
          /\ (r.stale = {} \/ (r.stale = stale /\ r.due = dirty))
    BY <1>1, <2>1 DEF Opener, Points, Verdicts, PidsOK
  <2>3. proc' = [proc EXCEPT ![p] = r]
    BY DEF Preflight, stale
  <2> QED
    BY <2>2, <2>3 DEF stale
<1>3. proc[p].at # "off" /\ sessions' = sessions /\ strangers' = strangers /\ dirty' = dirty
  BY DEF Preflight
<1>4. proc' \in [Procs -> Opener] /\ proc'[p] = r /\ \A q \in Procs \ {p} : proc'[q] = proc[q]
  BY <1>1, <1>2 DEF ProcOK
<1>5. \A q \in Procs : /\ proc'[q].pid = proc[q].pid /\ proc'[q].told = proc[q].told
                       /\ (proc'[q].at = "off") = (proc[q].at = "off")
  BY <1>2, <1>3, <1>4
<1>6. Alive' = Alive
  BY <1>3, <1>5 DEF Alive
<1>7. TypeOK'
  BY <1>1, <1>3, <1>4 DEF Preflight, NoFault, TypeOK, FilesOK, PidsOK, Markers
<1>8. DirtyLeft' /\ DirtyDead' /\ OwnPid' /\ ToldLeft'
  <2>1. DirtyLeft' /\ DirtyDead'
    BY <1>3, <1>6, Facts DEF DirtyLeft, DirtyDead
  <2>2. OwnPid'
    BY <1>3, <1>5, Facts DEF OwnPid
  <2>3. ToldLeft'
    BY <1>3, <1>5, Facts DEF ToldLeft, HasAnnounced
  <2> QED
    BY <2>1, <2>2, <2>3
<1>9. StaleDead'
  <2> SUFFICES ASSUME NEW q \in Procs, NEW s \in proc'[q].stale
               PROVE  s = proc'[q].pid \/ s \notin Alive
    BY <1>6 DEF StaleDead
  <2>1. CASE q = p
    BY <1>2, <1>4, <2>1 DEF Unclean
  <2>2. CASE q # p
    BY <1>4, <2>2, Facts DEF StaleDead
  <2> QED
    BY <2>1, <2>2
<1>10. DueCounted'
  BY <1>2, <1>3, <1>4, Facts DEF DueCounted
<1> QED
  BY <1>7, <1>8, <1>9, <1>10 DEF IInv, CrashInv

\* What a completed check deletes it had counted, and knew of.
LEMMA TidyKeeps ==
    ASSUME IInv, NEW p \in Procs, Tidy(p)
    PROVE  IInv'
<1>1. FilesOK /\ PidsOK /\ ProcOK /\ proc[p] \in Opener /\ proc[p].at = "tidy"
  BY Facts DEF ProcOK, Tidy
<1> DEFINE left == Tidied(p)
           told == proc[p].told /\ proc[p].pid \in left
           r == [proc[p] EXCEPT !.at = "announce", !.stale = {}, !.due = {}, !.told = told]
<1>2. sessions' = left /\ left \subseteq sessions /\ sessions \ proc[p].stale \subseteq left
  BY DEF Tidy, Tidied
<1>3. /\ strangers' = strangers /\ dirty' \subseteq dirty
      /\ left # sessions => dirty' = dirty \ proc[p].due
  BY DEF Tidy, Tidied
<1>4. told \in BOOLEAN
  OBVIOUS
<1>5. proc' = [proc EXCEPT ![p] = r]
  BY DEF Tidy
<1>6. told => HasAnnounced(p) /\ proc[p].pid \in left
  BY <1>1 DEF HasAnnounced, Opener
<1> HIDE DEF left, told
<1>7. r \in Opener /\ r.at = "announce" /\ r.pid = proc[p].pid /\ r.stale = {} /\ r.told = told
  BY <1>1, <1>4 DEF Opener, Points
<1> HIDE DEF r
<1>8. proc' \in [Procs -> Opener] /\ proc'[p] = r /\ \A q \in Procs \ {p} : proc'[q] = proc[q]
  BY <1>1, <1>5, <1>7 DEF ProcOK
<1>9. \A q \in Procs : /\ proc'[q].pid = proc[q].pid
                       /\ (proc'[q].at = "off") = (proc[q].at = "off")
  BY <1>1, <1>7, <1>8
<1>10. Alive' = Alive
  BY <1>3, <1>9 DEF Alive
<1>11. TypeOK'
  BY <1>1, <1>2, <1>3, <1>8 DEF Tidy, NoFault, TypeOK, FilesOK, PidsOK
<1>12. DirtyLeft'
  BY <1>2, <1>3, Facts DEF DirtyLeft, DueCounted
<1>13. DirtyDead' /\ OwnPid'
  BY <1>3, <1>9, <1>10, Facts DEF DirtyDead, OwnPid
<1>14. ToldLeft'
  <2> SUFFICES ASSUME NEW q \in Procs, proc'[q].told = TRUE
               PROVE  proc'[q].pid \in left
    BY <1>2 DEF ToldLeft, HasAnnounced
  <2>1. CASE q = p
    BY <1>6, <1>7, <1>8, <2>1
  <2>2. CASE q # p
    <3>1. proc'[q] = proc[q] /\ HasAnnounced(q)
      BY <1>8, <2>2 DEF HasAnnounced
    <3>2. proc[q].pid \in sessions /\ proc[q].pid # 0
      BY <3>1, <1>1, PidsAssumption, Facts DEF ToldLeft, PidsOK
    <3>3. proc[q].pid # proc[p].pid
      BY <3>2, <2>2, Facts DEF OwnPid
    <3>4. proc[q].pid \in Alive
      BY DEF Alive
    <3> QED
      BY <1>2, <3>1, <3>2, <3>3, <3>4, Facts DEF StaleDead
  <2> QED
    BY <2>1, <2>2
<1>15. StaleDead' /\ DueCounted'
  BY <1>3, <1>7, <1>8, <1>9, <1>10, Facts DEF StaleDead, DueCounted
<1> QED
  BY <1>11, <1>12, <1>13, <1>14, <1>15 DEF IInv, CrashInv

LEMMA AnnounceKeeps ==
    ASSUME IInv, NEW p \in Procs, Announce(p)
    PROVE  IInv'
<1>1. FilesOK /\ PidsOK /\ ProcOK /\ proc[p] \in Opener /\ proc[p].at = "announce"
  BY Facts DEF ProcOK, Announce
<1>2. PICK r \in Opener :
        /\ proc' = [proc EXCEPT ![p] = r]
        /\ r.at # "off" /\ r.pid = proc[p].pid
        /\ r.stale = proc[p].stale /\ r.due = proc[p].due
        /\ \/ sessions' = sessions \cup {proc[p].pid}
           \/ sessions' = sessions /\ r.told = proc[p].told
  <2>1. Evidence(proc[p].verdict) \in Verdicts
    BY DEF Evidence, Verdicts
  <2>2. Kept(p) \in Opener /\ Kept(p).at = "open" /\ Kept(p).pid = proc[p].pid
          /\ Kept(p).stale = proc[p].stale /\ Kept(p).due = proc[p].due /\ Kept(p).told = proc[p].told
    BY <1>1, <2>1 DEF Kept, Opener, Points
  <2> DEFINE t == [Kept(p) EXCEPT !.told = TRUE]
  <2>3. t \in Opener /\ t.at = "open" /\ t.pid = proc[p].pid
          /\ t.stale = proc[p].stale /\ t.due = proc[p].due
    BY <2>2 DEF Opener
  <2> QED
    BY <2>2, <2>3 DEF Announce
<1>3. strangers' = strangers /\ dirty' = dirty /\ sessions \subseteq sessions'
  BY <1>2 DEF Announce
<1>4. proc' \in [Procs -> Opener] /\ proc'[p] = r /\ \A q \in Procs \ {p} : proc'[q] = proc[q]
  BY <1>1, <1>2 DEF ProcOK
<1>5. \A q \in Procs : /\ proc'[q].pid = proc[q].pid
                       /\ proc'[q].stale = proc[q].stale /\ proc'[q].due = proc[q].due
                       /\ (proc'[q].at = "off") = (proc[q].at = "off")
  BY <1>1, <1>2, <1>4
<1>6. Alive' = Alive
  BY <1>3, <1>5 DEF Alive
<1>7. proc[p].pid \in Pids
  BY <1>1, Facts DEF OwnPid, Opener
<1>8. TypeOK'
  <2>1. faults' \in Nat
    BY <1>1 DEF Announce, NoFault, Fault, FilesOK
  <2>2. sessions' \subseteq Pids
    BY <1>1, <1>2, <1>7 DEF PidsOK
  <2> QED
    BY <1>1, <1>3, <1>4, <2>1, <2>2 DEF Announce, TypeOK, FilesOK, PidsOK
<1>9. DirtyLeft' /\ DirtyDead' /\ OwnPid'
  BY <1>3, <1>5, <1>6, Facts DEF DirtyLeft, DirtyDead, OwnPid
<1>10. ToldLeft'
  BY <1>2, <1>3, <1>4, Facts DEF ToldLeft, HasAnnounced
<1>11. StaleDead' /\ DueCounted'
  BY <1>3, <1>5, <1>6, Facts DEF StaleDead, DueCounted
<1> QED
  BY <1>8, <1>9, <1>10, <1>11 DEF IInv, CrashInv

\* A PID that is handed out is nobody's and in no scan's hands.
LEMMA LaunchKeeps ==
    ASSUME IInv, NEW p \in Procs, Launch(p)
    PROVE  IInv'
<1>1. FilesOK /\ PidsOK /\ ProcOK /\ proc[p] \in Opener /\ proc[p].at = "off"
  BY Facts DEF ProcOK, Launch
<1>2. PICK pid \in Pids : /\ Free(pid)
                          /\ proc' = [proc EXCEPT ![p] = [Off EXCEPT !.at = "up", !.pid = pid]]
                          /\ dirty' = dirty \ {pid}
  BY DEF Launch
<1> DEFINE r == [Off EXCEPT !.at = "up", !.pid = pid]
<1>3. r \in Opener /\ r.at = "up" /\ r.pid = pid /\ r.stale = {} /\ r.told = FALSE
  BY DEF Opener, Off, Points, Verdicts
<1>4. proc' = [proc EXCEPT ![p] = r]
  BY <1>2
<1> HIDE DEF r
<1>5. proc' \in [Procs -> Opener] /\ proc'[p] = r /\ \A q \in Procs \ {p} : proc'[q] = proc[q]
  BY <1>1, <1>3, <1>4 DEF ProcOK
<1>6. sessions' = sessions /\ strangers' = strangers
  BY DEF Launch
<1>7. pid # 0 /\ pid \notin strangers /\ \A q \in Procs : proc[q].pid # pid /\ pid \notin proc[q].stale
  BY <1>2, PidsAssumption DEF Free, Alive
<1>8. Alive' \subseteq Alive \cup {pid}
  BY <1>3, <1>5, <1>6 DEF Alive
<1>9. TypeOK'
  BY <1>1, <1>2, <1>5, <1>6 DEF Launch, NoFault, TypeOK, FilesOK, PidsOK
<1>10. DirtyLeft' /\ DirtyDead'
  BY <1>2, <1>6, <1>8, Facts DEF DirtyLeft, DirtyDead
<1>11. OwnPid'
  <2> SUFFICES ASSUME NEW q \in Procs
               PROVE  /\ proc'[q].at = "off" <=> proc'[q].pid = 0
                      /\ proc'[q].pid \notin strangers
                      /\ \A o \in Procs : proc'[o].pid = proc'[q].pid => o = q \/ proc'[q].pid = 0
    BY <1>6 DEF OwnPid
  <2>1. CASE q = p
    BY <1>3, <1>5, <1>7, <2>1
  <2>2. CASE q # p
    BY <1>3, <1>5, <1>7, <2>2, Facts DEF OwnPid
  <2> QED
    BY <2>1, <2>2
<1>12. ToldLeft'
  BY <1>3, <1>5, <1>6, Facts DEF ToldLeft, HasAnnounced
<1>13. StaleDead'
  <2> SUFFICES ASSUME NEW q \in Procs, NEW s \in proc'[q].stale
               PROVE  s = proc'[q].pid \/ s \notin Alive'
    BY DEF StaleDead
  <2>1. q # p /\ proc'[q] = proc[q] /\ s # pid
    BY <1>3, <1>5, <1>7
  <2> QED
    BY <1>8, <2>1, Facts DEF StaleDead
<1>14. DueCounted'
  BY <1>2, <1>3, <1>5, Facts DEF DueCounted
<1> QED
  BY <1>9, <1>10, <1>11, <1>12, <1>13, <1>14 DEF IInv, CrashInv

\* However an opener ends, its PID is nobody's, and the others keep their files.
LEMMA EndKeeps ==
    ASSUME IInv, NEW p \in Procs, proc[p].at # "off", FilesOK', PidsOK',
           proc' = [proc EXCEPT ![p] = Off],
           strangers' = strangers,
           sessions \ {proc[p].pid} \subseteq sessions',
           dirty' \subseteq dirty \cup {proc[p].pid},
           DirtyLeft'
    PROVE  IInv'
<1>1. FilesOK /\ PidsOK /\ ProcOK /\ proc[p] \in Opener
  BY Facts DEF ProcOK
<1>2. Off \in Opener /\ Off.at = "off" /\ Off.pid = 0 /\ Off.stale = {} /\ Off.told = FALSE
  BY DEF Off, Opener, Points, Verdicts
<1>3. proc' \in [Procs -> Opener] /\ proc'[p] = Off /\ \A q \in Procs \ {p} : proc'[q] = proc[q]
  BY <1>1, <1>2 DEF ProcOK
<1>4. proc[p].pid # 0 /\ proc[p].pid \in Alive /\ proc[p].pid \in Pids
  BY <1>1, Facts DEF OwnPid, Alive, Opener
<1>5. \A q \in Procs \ {p} : proc[q].pid # proc[p].pid
  BY <1>4, Facts DEF OwnPid
<1>6. Alive' \subseteq (Alive \cup {0}) \ {proc[p].pid}
  BY <1>2, <1>3, <1>4, <1>5, Facts DEF Alive, OwnPid
<1>7. TypeOK'
  BY <1>3, TypeParts DEF TypeOK, FilesOK, PidsOK
<1>8. DirtyDead'
  <2> SUFFICES ASSUME NEW s \in dirty', s \in Alive'
               PROVE  FALSE
    BY DEF DirtyDead
  <2>1. s # 0
    BY PidsAssumption DEF PidsOK
  <2>2. s \in Alive /\ s # proc[p].pid
    BY <1>6, <2>1
  <2>3. s \in dirty
    BY <2>2
  <2> QED
    BY <2>2, <2>3, Facts DEF DirtyDead
<1>9. OwnPid'
  <2> SUFFICES ASSUME NEW q \in Procs
               PROVE  /\ proc'[q].at = "off" <=> proc'[q].pid = 0
                      /\ proc'[q].pid \notin strangers
                      /\ \A o \in Procs : proc'[o].pid = proc'[q].pid => o = q \/ proc'[q].pid = 0
    BY DEF OwnPid
  <2>1. CASE q = p
    <3>1. 0 \notin strangers
      BY <1>1, PidsAssumption DEF PidsOK
    <3> QED
      BY <1>2, <1>3, <2>1, <3>1
  <2>2. CASE q # p
    BY <1>2, <1>3, <2>2, Facts DEF OwnPid
  <2> QED
    BY <2>1, <2>2
<1>10. ToldLeft'
  <2> SUFFICES ASSUME NEW q \in Procs, proc'[q].told = TRUE
               PROVE  proc'[q].pid \in sessions'
    BY DEF ToldLeft, HasAnnounced
  <2>1. q # p /\ proc'[q] = proc[q] /\ HasAnnounced(q)
    BY <1>2, <1>3 DEF HasAnnounced
  <2> QED
    BY <1>5, <2>1, Facts DEF ToldLeft
<1>11. StaleDead'
  <2> SUFFICES ASSUME NEW q \in Procs, NEW s \in proc'[q].stale
               PROVE  s = proc'[q].pid \/ s \notin Alive'
    BY DEF StaleDead
  <2>1. q # p /\ proc'[q] = proc[q] /\ s \in Pids
    BY <1>1, <1>2, <1>3 DEF ProcOK, Opener
  <2>2. s # 0
    BY <2>1, PidsAssumption
  <2> QED
    BY <1>6, <2>1, <2>2, Facts DEF StaleDead
<1>12. DueCounted'
  <2> SUFFICES ASSUME NEW q \in Procs, NEW s \in proc'[q].stale, s \in dirty'
               PROVE  s \in proc'[q].due
    BY DEF DueCounted
  <2>1. q # p /\ proc'[q] = proc[q]
    BY <1>2, <1>3
  <2>2. s # proc[p].pid
    BY <1>4, <1>5, <2>1, Facts DEF StaleDead
  <2> QED
    BY <2>1, <2>2, Facts DEF DueCounted
<1> QED
  BY <1>7, <1>8, <1>9, <1>10, <1>11, <1>12 DEF IInv, CrashInv

LEMMA ExitKeeps ==
    ASSUME IInv, NEW p \in Procs, Exit(p)
    PROVE  IInv'
<1>1. FilesOK /\ PidsOK /\ ProcOK
  BY Facts
<1>2. FilesOK'
  BY <1>1 DEF Exit, FilesOK, NoFault, Fault
<1>3. /\ sessions \ {proc[p].pid} \subseteq sessions' /\ sessions' \subseteq sessions
      /\ dirty' = dirty /\ strangers' = strangers
  BY DEF Exit
<1>4. PidsOK'
  BY <1>1, <1>3 DEF PidsOK
<1>5. DirtyLeft'
  <2>1. proc[p].pid \notin dirty
    BY Facts DEF DirtyDead, Alive
  <2>2. sessions' = sessions \/ sessions' = sessions \ {proc[p].pid}
    BY DEF Exit
  <2> QED
    BY <1>3, <2>1, <2>2, Facts DEF DirtyLeft
<1> QED
  BY <1>2, <1>3, <1>4, <1>5, EndKeeps DEF Exit

LEMMA KilledKeeps ==
    ASSUME IInv, NEW p \in Procs, Killed(p)
    PROVE  IInv'
<1>1. FilesOK /\ PidsOK /\ ProcOK
  BY Facts
<1>2. FilesOK'
  BY <1>1 DEF Killed, FilesOK, Fault, Disks
<1>3. /\ sessions' = sessions /\ strangers' = strangers
      /\ dirty' = dirty \/ (HasAnnounced(p) /\ dirty' = dirty \cup {proc[p].pid})
  <2>1. proc[p].told \in BOOLEAN
    BY <1>1 DEF ProcOK, Opener
  <2> QED
    BY <2>1 DEF Killed, HasAnnounced
<1>4. dirty' \subseteq sessions
  BY <1>3, Facts DEF DirtyLeft, ToldLeft
<1>5. PidsOK' /\ DirtyLeft'
  BY <1>1, <1>3, <1>4 DEF PidsOK, DirtyLeft
<1> QED
  BY <1>2, <1>3, <1>5, EndKeeps DEF Killed

LEMMA StrangerKeeps ==
    ASSUME IInv, Stranger
    PROVE  IInv'
<1>1. FilesOK /\ PidsOK /\ ProcOK
  BY Facts
<1>2. UNCHANGED <<disk, backup, marker, sessions, proc, faults>>
  BY DEF Stranger, NoFault
<1>3. \/ dirty' = dirty /\ strangers' \subseteq strangers
      \/ \E pid \in Pids : Free(pid) /\ strangers' = strangers \cup {pid} /\ dirty' = dirty \ {pid}
  BY PidsAssumption DEF Stranger
<1>4. TypeOK'
  BY <1>1, <1>2, <1>3 DEF TypeOK, FilesOK, PidsOK, ProcOK
<1>5. CASE dirty' = dirty /\ strangers' \subseteq strangers
  <2>1. Alive' \subseteq Alive
    BY <1>2, <1>5 DEF Alive
  <2>2. DirtyLeft' /\ DirtyDead' /\ ToldLeft'
    BY <1>2, <1>5, <2>1, Facts DEF DirtyLeft, DirtyDead, ToldLeft, HasAnnounced
  <2>3. OwnPid'
    BY <1>2, <1>5, Facts DEF OwnPid
  <2>4. StaleDead' /\ DueCounted'
    BY <1>2, <1>5, <2>1, Facts DEF StaleDead, DueCounted
  <2> QED
    BY <1>4, <2>2, <2>3, <2>4 DEF IInv, CrashInv
<1>6. CASE \E pid \in Pids : Free(pid) /\ strangers' = strangers \cup {pid} /\ dirty' = dirty \ {pid}
  <2>1. PICK pid \in Pids : Free(pid) /\ strangers' = strangers \cup {pid} /\ dirty' = dirty \ {pid}
    BY <1>6
  <2>2. \A q \in Procs : proc[q].pid # pid /\ pid \notin proc[q].stale
    BY <2>1 DEF Free, Alive
  <2>3. Alive' = Alive \cup {pid}
    BY <1>2, <2>1 DEF Alive
  <2>4. DirtyLeft' /\ DirtyDead'
    BY <1>2, <2>1, <2>3, Facts DEF DirtyLeft, DirtyDead
  <2>5. ToldLeft'
    BY <1>2, Facts DEF ToldLeft, HasAnnounced
  <2>6. OwnPid'
    BY <1>2, <2>1, <2>2, Facts DEF OwnPid
  <2>7. StaleDead'
    BY <1>2, <2>2, <2>3, Facts DEF StaleDead
  <2>8. DueCounted'
    BY <1>2, <2>1, Facts DEF DueCounted
  <2> QED
    BY <1>4, <2>4, <2>5, <2>6, <2>7, <2>8 DEF IInv, CrashInv
<1> QED
  BY <1>3, <1>5, <1>6

\* Time and the disk leave the session files and the openers alone.
LEMMA WorldKeeps ==
    ASSUME IInv, FilesOK', UNCHANGED <<sessions, proc, strangers, dirty>>
    PROVE  IInv'
<1>1. PidsOK /\ ProcOK /\ Alive' = Alive
  BY Facts DEF Alive
<1>2. TypeOK'
  BY <1>1 DEF TypeOK, FilesOK, PidsOK, ProcOK
<1>3. DirtyLeft' /\ DirtyDead' /\ ToldLeft'
  BY <1>1, Facts DEF DirtyLeft, DirtyDead, ToldLeft, HasAnnounced
<1>4. OwnPid'
  BY Facts DEF OwnPid
<1>5. StaleDead' /\ DueCounted'
  BY <1>1, Facts DEF StaleDead, DueCounted
<1> QED
  BY <1>2, <1>3, <1>4, <1>5 DEF IInv, CrashInv

-----------------------------------------------------------------------------
(* The invariant, and what follows from it *)

LEMMA InitHolds == Init => IInv
<1> SUFFICES ASSUME Init PROVE IInv
  OBVIOUS
<1>1. Off \in Opener /\ Off.at = "off" /\ Off.pid = 0 /\ Off.stale = {} /\ Off.told = FALSE
  BY DEF Off, Opener, Points, Verdicts
<1>2. /\ disk \in Disks /\ backup \in Disks /\ marker \in Markers
      /\ sessions \subseteq Pids /\ dirty = sessions /\ strangers = {}
      /\ proc = [p \in Procs |-> Off] /\ faults = 0
  BY LeftsAssumption DEF Init
<1>3. TypeOK
  BY <1>1, <1>2 DEF TypeOK
<1>4. \A p \in Procs : proc[p] = Off
  BY <1>2
<1>5. Alive \subseteq {0}
  BY <1>1, <1>2, <1>4 DEF Alive
<1>6. DirtyLeft /\ DirtyDead
  BY <1>2, <1>5, PidsAssumption DEF DirtyLeft, DirtyDead
<1>7. OwnPid
  BY <1>1, <1>2, <1>4 DEF OwnPid
<1>8. ToldLeft /\ StaleDead /\ DueCounted
  BY <1>1, <1>4 DEF ToldLeft, HasAnnounced, StaleDead, DueCounted
<1> QED
  BY <1>3, <1>6, <1>7, <1>8 DEF IInv, CrashInv

LEMMA NextKeeps == IInv /\ [Next]_vars => IInv'
<1> SUFFICES ASSUME IInv, [Next]_vars PROVE IInv'
  OBVIOUS
<1>1. FilesOK
  BY Facts
<1>2. ASSUME NEW p \in Procs, QuietStep(p) PROVE IInv'
  BY <1>2, QuietSteps, QuietKeeps
<1>3. ASSUME NEW p \in Procs, Step(p) PROVE IInv'
  BY <1>2, <1>3, PreflightKeeps, TidyKeeps, AnnounceKeeps DEF Step, QuietStep
<1>4. ASSUME NEW p \in Procs, Launch(p) \/ Exit(p) \/ Killed(p) PROVE IInv'
  BY <1>4, LaunchKeeps, ExitKeeps, KilledKeeps
<1>5. CASE Day
  BY <1>1, <1>5, WorldKeeps DEF Day, FilesOK, NoFault, Markers
<1>6. CASE Mishap
  BY <1>1, <1>6, WorldKeeps DEF Mishap, FileIs, FilesOK, Fault, Disks, Markers
<1>7. CASE UNCHANGED vars
  BY <1>1, <1>7, WorldKeeps DEF vars, FilesOK
<1> QED
  BY <1>3, <1>4, <1>5, <1>6, <1>7, StrangerKeeps DEF Next

\* The files and every opener keep their types.
THEOREM TypeCorrect == Spec => []TypeOK
<1>1. IInv => TypeOK
  BY DEF IInv
<1> QED
  BY <1>1, InitHolds, NextKeeps, PTL DEF Spec

\* Only the pre-flight itself tells an opener that its check was skipped.
LEMMA OnlyPreflightSkips ==
    ASSUME IInv, [Next]_vars, NEW p \in Procs, proc[p].at = "up",
           proc'[p].at = "announce", proc'[p].verdict = "skipped"
    PROVE  Preflight(p)
<1>1. ProcOK /\ proc[p] \in Opener
  BY Facts DEF ProcOK
<1>2. ASSUME NEW q \in Procs, Step(q) PROVE Preflight(p)
  <2>1. CASE q = p
    BY <1>2, <2>1 DEF Step, ScanTells, ScanLocked, Quarantine, QuarantineFails, Restore, RestoreFails,
         Settle, SettleFails, Tidy, Announce, Opens, OpenRefused, OpenFails, OpenRepaired, RefuseIntact,
         LastResort, RecoveryFails
  <2>2. CASE q # p
    <3>1. proc'[p] = proc[p]
      <4>1. CASE QuietStep(q)
        BY <1>1, <2>2, <4>1, QuietSteps DEF Quiet, ProcOK
      <4>2. CASE Preflight(q) \/ Tidy(q) \/ Announce(q)
        BY <1>1, <2>2, <4>2 DEF Preflight, Tidy, Announce, ProcOK
      <4> QED
        BY <1>2, <4>1, <4>2 DEF Step, QuietStep
    <3> QED
      BY <3>1
  <2> QED
    BY <2>1, <2>2
<1>3. ASSUME NEW q \in Procs, Launch(q) \/ Exit(q) \/ Killed(q) PROVE FALSE
  <2>1. CASE Launch(q)
    BY <1>1, <2>1 DEF Launch, ProcOK
  <2>2. CASE Exit(q) \/ Killed(q)
    <3>1. proc' = [proc EXCEPT ![q] = Off]
      BY <2>2 DEF Exit, Killed
    <3> QED
      BY <1>1, <3>1 DEF ProcOK, Off
  <2> QED
    BY <1>3, <2>1, <2>2
<1>4. CASE Stranger \/ Day \/ Mishap \/ UNCHANGED vars
  BY <1>4 DEF Stranger, Day, Mishap, vars
<1> QED
  BY <1>2, <1>3, <1>4 DEF Next

\* No check is skipped while an announced opener died and no check has been
\* completed since: its file is still there and its PID is nobody's, so that the
\* pre-flight counts it.
THEOREM SkippingIsSafe == Spec => CrashIsSeen
<1>1. IInv /\ [Next]_vars
        => \A p \in Procs : proc[p].at = "up" /\ proc'[p].at = "announce"
                               /\ proc'[p].verdict = "skipped" => dirty = {}
  <2> SUFFICES ASSUME IInv, [Next]_vars, NEW p \in Procs, proc[p].at = "up",
                      proc'[p].at = "announce", proc'[p].verdict = "skipped"
               PROVE  dirty = {}
    OBVIOUS
  <2>1. Preflight(p) /\ ProcOK
    BY OnlyPreflightSkips, Facts
  <2>2. Unclean(p) = {}
    <3>1. proc'[p].verdict = IF disk = "none" THEN "nodb"
                             ELSE IF Trusted(Unclean(p)) THEN "skipped" ELSE "none"
      BY <2>1 DEF Preflight, ProcOK
    <3> QED
      BY <3>1 DEF Trusted
  <2>3. \A s \in dirty : s \in sessions /\ s \notin Alive
    BY Facts DEF DirtyLeft, DirtyDead
  <2> QED
    BY <2>2, <2>3 DEF Unclean
<1> QED
  BY <1>1, InitHolds, NextKeeps, PTL DEF Spec, CrashIsSeen

-----------------------------------------------------------------------------
(* What the running openers and the killed ones leave to be counted *)

\* Every opener that announced itself and still runs has its session file, whichever
\* checks were completed meanwhile, and so has every killed one of which no check has
\* been completed: no start deletes the evidence another is about to give.
THEOREM SessionFilesStay == Spec => [](ToldLeft /\ DirtyLeft)
<1>1. IInv => ToldLeft /\ DirtyLeft
  BY Facts
<1> QED
  BY <1>1, InitHolds, NextKeeps, PTL DEF Spec

-----------------------------------------------------------------------------
(* What an opener knows at each point of get_database *)

\* What a check that was run may have come to.
Outcomes == {"healthy", "nodb", "restored", "quarantined", "locked", "failed"}

\* The verdict by the point: a skipped check has been made up for before anything is
\* judged, and only the late check is judged by its own outcome.
Informed(r) ==
    /\ r.at \in {"off", "up", "corrupt", "restore", "reopen", "using"} => r.verdict = "none"
    /\ r.at = "scan" => r.verdict = IF r.late THEN "skipped" ELSE "none"
    /\ r.at = "settle" => r.verdict \in Outcomes
    /\ r.at = "tidy" => r.verdict \in Outcomes
    /\ r.at = "announce" => r.verdict \in Outcomes \cup {"skipped"}
    /\ r.at = "open" => r.verdict \in {"intact", "skipped", "none"}
    /\ r.at = "judge" => r.verdict \in IF r.late THEN Outcomes ELSE {"intact", "none"}
    /\ r.at \in {"off", "up", "tidy", "announce", "open", "using"} => ~r.late

AllInformed == \A p \in Procs : Informed(proc[p])

\* The file is moved away as a last resort only by an opener that knows no better: its
\* pre-flight ran and did not find the file whole, or skipped, and the check it made up
\* for that with was locked out or failed ("recover_corrupt_db_if_needed first", state.rs).
LastResortKnowsNoBetter ==
    [][\A p \in Procs : proc[p].at = "judge" /\ proc'[p].at = "reopen" /\ disk' # disk
          => IF proc[p].late THEN proc[p].verdict \in {"locked", "failed"}
                             ELSE proc[p].verdict = "none"]_vars

\* How far a call of get_database is from its end.
ToGo(r) ==
    CASE r.at = "up" -> 14
      [] r.at = "scan" -> IF r.late THEN 6 ELSE 13
      [] r.at = "corrupt" -> IF r.late THEN 5 ELSE 12
      [] r.at = "restore" -> IF r.late THEN 4 ELSE 11
      [] r.at = "settle" -> IF r.late THEN 3 ELSE 10
      [] r.at = "tidy" -> 9
      [] r.at = "announce" -> 8
      [] r.at = "open" -> 7
      [] r.at = "judge" -> 2
      [] r.at = "reopen" -> 1
      [] OTHER -> 0

\* No call of get_database goes round: each of its steps returns or brings it nearer
\* its end, so that at most two scans and two opens are made, and one file is moved
\* by the corruption recovery, one as the last resort, at the most.
CallsAdvance ==
    [][\A p \in Procs : Step(p) => \/ proc'[p].at \in {"up", "using"}
                                   \/ ToGo(proc'[p]) < ToGo(proc[p])]_vars

\* A step of a call is one opener's own ...
LEMMA OthersStand ==
    ASSUME IInv, NEW p \in Procs, Step(p) \/ Launch(p) \/ Exit(p) \/ Killed(p)
    PROVE  \A q \in Procs \ {p} : proc'[q] = proc[q]
<1>1. ProcOK
  BY Facts
<1>2. CASE QuietStep(p)
  BY <1>1, <1>2, QuietSteps DEF Quiet, ProcOK
<1>3. CASE Preflight(p) \/ Tidy(p) \/ Announce(p)
  BY <1>1, <1>3 DEF Preflight, Tidy, Announce, ProcOK
<1>4. CASE Launch(p) \/ Exit(p) \/ Killed(p)
  BY <1>1, <1>4 DEF Launch, Exit, Killed, ProcOK
<1> QED
  BY <1>2, <1>3, <1>4 DEF Step, QuietStep

\* ... keeps the verdict and the point together, and returns or comes nearer the end.
LEMMA CallSteps ==
    ASSUME ProcOK, NEW p \in Procs, Informed(proc[p]), Step(p)
    PROVE  /\ Informed(proc'[p])
           /\ proc'[p].at \in {"up", "using"} \/ ToGo(proc'[p]) < ToGo(proc[p])
<1> DEFINE r == proc'[p]
<1>1. proc[p] \in Opener
  BY DEF ProcOK
<1>2. CASE Preflight(p)
  <2>1. /\ r.late = proc[p].late /\ proc[p].at = "up"
        /\ \/ r.at = "announce" /\ r.verdict \in {"nodb", "skipped"}
           \/ r.at = "scan" /\ r.verdict = "none"
    BY <1>1, <1>2 DEF Preflight, ProcOK, Opener
  <2> QED
    BY <2>1 DEF Informed, Outcomes, ToGo
<1>3. CASE ScanTells(p) \/ ScanLocked(p)
  <2>1. /\ r.late = proc[p].late /\ proc[p].at = "scan"
        /\ \/ r.at = "settle" /\ r.verdict \in Outcomes
           \/ r.at = "corrupt" /\ r.verdict = "none"
    BY <1>1, <1>3 DEF ScanTells, ScanLocked, Tell, ProcOK, Opener, Outcomes
  <2> QED
    BY <1>1, <2>1 DEF Informed, ToGo, Opener
<1>4. CASE Quarantine(p)
  <2>1. /\ r.late = proc[p].late /\ r.verdict = proc[p].verdict /\ proc[p].at = "corrupt"
        /\ r.at = "restore"
    BY <1>1, <1>4 DEF Quarantine, Go, ProcOK, Opener
  <2> QED
    BY <1>1, <2>1 DEF Informed, ToGo, Opener
<1>5. CASE QuarantineFails(p) \/ Restore(p) \/ RestoreFails(p)
  <2>1. /\ r.late = proc[p].late /\ proc[p].at \in {"corrupt", "restore"}
        /\ r.at = "settle" /\ r.verdict \in Outcomes
    BY <1>1, <1>5 DEF QuarantineFails, Restore, RestoreFails, Tell, ProcOK, Opener, Outcomes
  <2> QED
    BY <1>1, <2>1 DEF Informed, ToGo, Opener
<1>6. CASE Settle(p) \/ SettleFails(p)
  <2>1. /\ r.late = proc[p].late /\ r.verdict = proc[p].verdict /\ proc[p].at = "settle"
        /\ r.at = IF proc[p].late THEN "judge" ELSE "tidy"
    BY <1>1, <1>6 DEF Settle, SettleFails, Go, ProcOK, Opener
  <2> QED
    BY <1>1, <2>1 DEF Informed, ToGo, Opener
<1>7. CASE Tidy(p)
  <2>1. /\ r.late = proc[p].late /\ r.verdict = proc[p].verdict /\ proc[p].at = "tidy"
        /\ r.at = "announce"
    BY <1>1, <1>7 DEF Tidy, ProcOK, Opener
  <2> QED
    BY <1>1, <2>1 DEF Informed, ToGo, Opener
<1>8. CASE Announce(p)
  <2>1. /\ r.late = proc[p].late /\ r.verdict = Evidence(proc[p].verdict) /\ proc[p].at = "announce"
        /\ r.at = "open"
    <3>1. r = Kept(p) \/ r = [Kept(p) EXCEPT !.told = TRUE]
      BY <1>1, <1>8 DEF Announce, ProcOK
    <3>2. /\ Kept(p).late = proc[p].late /\ Kept(p).verdict = Evidence(proc[p].verdict)
          /\ Kept(p).at = "open"
      BY <1>1 DEF Kept, Opener
    <3>3. LET k == [Kept(p) EXCEPT !.told = TRUE]
          IN  /\ k.late = proc[p].late /\ k.verdict = Evidence(proc[p].verdict)
              /\ k.at = "open"
      BY <1>1 DEF Kept, Opener
    <3> QED
      BY <1>8, <3>1, <3>2, <3>3 DEF Announce
  <2>2. r.verdict \in {"intact", "skipped", "none"}
    BY <2>1 DEF Evidence
  <2> QED
    BY <1>1, <2>1, <2>2 DEF Informed, ToGo, Opener
<1>9. CASE Opens(p) \/ OpenRefused(p) \/ RefuseIntact(p) \/ RecoveryFails(p)
  <2>1. PICK to \in {"up", "using"} : Returns(p, to)
    BY <1>9 DEF Opens, OpenRefused, RefuseIntact, RecoveryFails
  <2>2. r.late = FALSE /\ r.verdict = "none" /\ r.at \in {"up", "using"}
    BY <1>1, <2>1 DEF Returns, Off, ProcOK
  <2> QED
    BY <2>2 DEF Informed
<1>10. CASE OpenFails(p)
  <2>1. /\ proc[p].at = "open" /\ r.verdict = proc[p].verdict
        /\ IF proc[p].verdict = "skipped" THEN r.at = "scan" /\ r.late = TRUE
                                          ELSE r.at = "judge" /\ r.late = proc[p].late
    BY <1>1, <1>10 DEF OpenFails, Go, ProcOK, Opener
  <2> QED
    BY <1>1, <2>1 DEF Informed, ToGo, Opener
<1>11. CASE OpenRepaired(p) \/ LastResort(p)
  <2>1. /\ proc[p].at = "judge" /\ r.verdict = "none"
        /\ r.at = "reopen" \/ (r.at = "up" /\ r.late = FALSE)
    <3>1. CASE Tell(p, "reopen", "none")
      BY <1>1, <1>11, <3>1 DEF OpenRepaired, LastResort, Tell, ProcOK, Opener
    <3>2. CASE Returns(p, "up")
      BY <1>1, <1>11, <3>2 DEF OpenRepaired, LastResort, Returns, Off, ProcOK
    <3> QED
      BY <1>11, <3>1, <3>2 DEF OpenRepaired, LastResort
  <2> QED
    BY <1>1, <2>1 DEF Informed, ToGo, Opener
<1> QED
  BY <1>2, <1>3, <1>4, <1>5, <1>6, <1>7, <1>8, <1>9, <1>10, <1>11 DEF Step

LEMMA InformedInit == Init => AllInformed
BY DEF Init, AllInformed, Informed, Off

LEMMA InformedNext == IInv /\ AllInformed /\ [Next]_vars => AllInformed'
<1> SUFFICES ASSUME IInv, AllInformed, [Next]_vars, NEW p \in Procs PROVE Informed(proc'[p])
  BY DEF AllInformed
<1>1. ProcOK /\ Informed(proc[p])
  BY Facts DEF AllInformed
<1>2. ASSUME NEW q \in Procs, Step(q) PROVE Informed(proc'[p])
  BY <1>1, <1>2, CallSteps, OthersStand
<1>3. ASSUME NEW q \in Procs, Launch(q) \/ Exit(q) \/ Killed(q) PROVE Informed(proc'[p])
  <2>1. CASE q = p
    <3>1. proc'[p].at \in {"off", "up"} /\ proc'[p].verdict = "none" /\ proc'[p].late = FALSE
      <4>1. CASE Launch(p)
        BY <1>1, <4>1 DEF Launch, Off, ProcOK
      <4>2. CASE Exit(p) \/ Killed(p)
        <5>1. proc'[p] = Off
          BY <1>1, <4>2 DEF Exit, Killed, ProcOK
        <5> QED
          BY <5>1 DEF Off
      <4> QED
        BY <1>3, <2>1, <4>1, <4>2
    <3> QED
      BY <3>1 DEF Informed
  <2>2. CASE q # p
    BY <1>1, <1>3, <2>2, OthersStand
  <2> QED
    BY <2>1, <2>2
<1>4. CASE Stranger \/ Day \/ Mishap \/ UNCHANGED vars
  BY <1>1, <1>4 DEF Stranger, Day, Mishap, vars
<1> QED
  BY <1>2, <1>3, <1>4 DEF Next

\* What a call knows fits the point it stands at, whatever the other openers do.
THEOREM CallsAreInformed == Spec => []AllInformed
<1>1. Init => IInv /\ AllInformed
  BY InitHolds, InformedInit
<1>2. (IInv /\ AllInformed) /\ [Next]_vars => (IInv /\ AllInformed)'
  BY NextKeeps, InformedNext
<1>3. IInv /\ AllInformed => AllInformed
  OBVIOUS
<1> QED
  BY <1>1, <1>2, <1>3, PTL DEF Spec

\* Only the last resort moves the file away between a failed open and the second one.
LEMMA OnlyLastResortMoves ==
    ASSUME IInv, [Next]_vars, NEW p \in Procs, proc[p].at = "judge", proc'[p].at = "reopen",
           disk' # disk
    PROVE  LastResort(p)
<1>1. ProcOK /\ proc[p] \in Opener /\ proc'[p] # proc[p]
  BY Facts DEF ProcOK
<1>2. ASSUME NEW q \in Procs, Step(q) PROVE LastResort(p)
  <2>1. q = p
    BY <1>1, <1>2, OthersStand
  <2> QED
    BY <1>1, <1>2, <2>1 DEF Step, Preflight, ScanTells, ScanLocked, Quarantine, QuarantineFails, Restore,
       RestoreFails, Settle, SettleFails, Tidy, Announce, Opens, OpenRefused, OpenFails, OpenRepaired,
       RefuseIntact, RecoveryFails, Returns, Off, ProcOK
<1>3. ASSUME NEW q \in Procs, Launch(q) \/ Exit(q) \/ Killed(q) PROVE FALSE
  BY <1>1, <1>3 DEF Launch, Exit, Killed, Off, ProcOK
<1>4. ~(Stranger \/ Day \/ Mishap \/ UNCHANGED vars)
  BY <1>1 DEF Stranger, Day, Mishap, vars
<1> QED
  BY <1>2, <1>3, <1>4 DEF Next

\* The last resort is taken by openers that know no better: a skipped check never
\* counts against the file, nor a check that found it whole or replaced it late.
THEOREM LastResortIsUninformed == Spec => LastResortKnowsNoBetter
<1> DEFINE Uninformed(p) == IF proc[p].late THEN proc[p].verdict \in {"locked", "failed"}
                                            ELSE proc[p].verdict = "none"
           Moves(p) == proc[p].at = "judge" /\ proc'[p].at = "reopen" /\ disk' # disk
<1>1. Init => IInv /\ AllInformed
  BY InitHolds, InformedInit
<1>2. (IInv /\ AllInformed) /\ [Next]_vars => (IInv /\ AllInformed)'
  BY NextKeeps, InformedNext
<1>3. (IInv /\ AllInformed) /\ [Next]_vars => \A p \in Procs : Moves(p) => Uninformed(p)
  <2> SUFFICES ASSUME IInv, AllInformed, [Next]_vars, NEW p \in Procs, Moves(p) PROVE Uninformed(p)
    OBVIOUS
  <2>1. LastResort(p) /\ Informed(proc[p]) /\ proc[p] \in Opener
    BY OnlyLastResortMoves, Facts DEF AllInformed, ProcOK
  <2> QED
    BY <2>1 DEF LastResort, Intact, Evidence, Informed, Outcomes, Opener
<1> QED
  BY <1>1, <1>2, <1>3, PTL DEF Spec, LastResortKnowsNoBetter

\* A start that is not interrupted comes to an end: whatever fails and whoever
\* interferes, no call scans or opens a third time.
THEOREM CallsComeToAnEnd == Spec => CallsAdvance
<1> DEFINE Advances(p) == \/ proc'[p].at \in {"up", "using"}
                          \/ ToGo(proc'[p]) < ToGo(proc[p])
<1>1. Init => IInv /\ AllInformed
  BY InitHolds, InformedInit
<1>2. (IInv /\ AllInformed) /\ [Next]_vars => (IInv /\ AllInformed)'
  BY NextKeeps, InformedNext
<1>3. (IInv /\ AllInformed) /\ [Next]_vars => \A p \in Procs : Step(p) => Advances(p)
  BY CallSteps, Facts DEF AllInformed
<1> QED
  BY <1>1, <1>2, <1>3, PTL DEF Spec, CallsAdvance
=============================================================================
