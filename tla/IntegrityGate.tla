--------------------------- MODULE IntegrityGate ---------------------------
(***************************************************************************)
(* How the database comes up: the start-up integrity gate                  *)
(* (db/integrity_gate.rs), the corruption recovery behind it               *)
(* (recover_corrupt_db_if_needed in db/migrations.rs) and the open with    *)
(* its last-resort fallback (get_database in state.rs).                    *)
(*                                                                         *)
(* The window and the headless engine are separate processes over the same *)
(* files and take no lock against each other here.  Each reads the session *)
(* files and the marker, may scan the whole database for a minute, and     *)
(* writes marker and session files afterwards; either may be killed at any *)
(* step, and the system may give a dead process's PID to a stranger or to  *)
(* another of ours.                                                        *)
(***************************************************************************)
EXTENDS Naturals, FiniteSets

CONSTANTS
    Procs,      \* openers of the database: the window, the engine
    Pids,
    Foreign,    \* the PIDs among them a process that is none of ours may be given
    Lefts,      \* the files earlier runs may have left
    MaxFaults   \* bound: kills and interrupted starts, corruption, failed file operations, errors

Markers == {"none", "unreadable", "fresh", "stale", "future", "other"}
Disks   == {"none", "sound", "corrupt"}

ASSUME LeftsAssumption ==
    Lefts \subseteq [disk : Disks, backup : Disks, marker : Markers, dead : SUBSET Pids]
ASSUME PidsAssumption == 0 \notin Pids /\ Foreign \subseteq Pids
ASSUME BoundAssumption == MaxFaults \in Nat

VARIABLES
    disk,       \* what stands at the path: nothing, or a file, by what quick_check would say of it
    backup,     \* the newest *.db.backup.vN beside it
    marker,     \* <db>.quick_check_ok: how old, or fresh but of a file created at another time
    sessions,   \* the PIDs with a <db>.session.<pid> file
    proc,       \* where each opener stands
    strangers,  \* PIDs of live processes that are none of ours
    dirty,      \* history: openers that announced themselves, were killed, and of which no
                \* scan has been completed since
    faults      \* counter for the bound

vars == <<disk, backup, marker, sessions, proc, strangers, dirty, faults>>

-----------------------------------------------------------------------------
(* The file, the marker, an opener *)

\* What a start has learnt of the file; "intact" is what get_database keeps of it.
Verdicts == {"none", "skipped", "healthy", "nodb", "restored", "quarantined", "locked", "failed",
             "intact"}
Points   == {"off", "up", "scan", "corrupt", "restore", "settle", "tidy", "announce", "open",
             "judge", "reopen", "using"}

\* stale: the session files it counted as unclean exits.  late: the scan after a
\* failed open.  told: its own session file was written.  due: history, the dirty
\* openers at the moment its scan was decided.
Off == [at |-> "off", pid |-> 0, stale |-> {}, verdict |-> "none", late |-> FALSE,
        told |-> FALSE, due |-> {}]

Opener == [at : Points, pid : Pids \cup {0}, stale : SUBSET Pids, verdict : Verdicts,
           late : BOOLEAN, told : BOOLEAN, due : SUBSET Pids]

Alive == strangers \cup {proc[p].pid : p \in Procs}
Go(p, to) == proc' = [proc EXCEPT ![p].at = to]

\* Mutant: the opener forgets which session is its own.
ReturnsBlank(p, to) == proc' = [proc EXCEPT ![p] = [Off EXCEPT !.at = to, !.told = proc[p].told]]

\* get_database returns, with a database or with an error; it may be called again.
Returns(p, to) == proc' = [proc EXCEPT ![p] = [Off EXCEPT !.at = to, !.pid = proc[p].pid, !.told = proc[p].told]]

\* Something else may now stand at the path.  The creation time tells, unless the
\* platform does not report one or hands the old one on.
FileIs(what) ==
    /\ disk' = what
    /\ marker' \in {marker, IF marker = "fresh" THEN "other" ELSE marker}

Fault == faults < MaxFaults /\ faults' = faults + 1
NoFault == UNCHANGED faults

Others(p) == {q \in Procs \ {p} : proc[q].at \in {"open", "reopen", "using"}}

-----------------------------------------------------------------------------
(* preflight: detect_unclean_exits, decide *)

\* detect_unclean_exits: whose file names a dead PID, or the one that is now ours.
Unclean(p) == {s \in sessions : s = proc[p].pid \/ s \notin Alive}

\* Mutant: the age of a future-dated marker saturates at zero.
TrustedAhead(stale) == stale = {} /\ marker \in {"fresh", "future"}

Trusted(stale) == stale = {} /\ marker = "fresh"

Preflight(p) ==
    /\ proc[p].at = "up"
    /\ LET stale == Unclean(p)
       IN  proc' = [proc EXCEPT ![p] =
                      [proc[p] EXCEPT !.at = IF disk # "none" /\ ~Trusted(stale) THEN "scan" ELSE "announce",
                                !.verdict = IF disk = "none" THEN "nodb"
                                            ELSE IF Trusted(stale) THEN "skipped" ELSE "none",
                                !.stale = IF disk # "none" THEN stale ELSE {},
                                !.due = IF disk # "none" THEN dirty ELSE {}]]
    /\ marker' = IF disk # "none" THEN marker ELSE "none"
    /\ NoFault /\ UNCHANGED <<disk, backup, sessions, strangers, dirty>>

-----------------------------------------------------------------------------
(* run_check and recover_corrupt_db_if_needed *)

Tell(p, to, verdict) == proc' = [proc EXCEPT ![p].at = to, ![p].verdict = verdict]

\* The scan ends.  A file that has gone meanwhile is no existing database.
ScanTells(p) ==
    /\ proc[p].at = "scan"
    /\ IF disk = "none" THEN Tell(p, "settle", "nodb")
       ELSE IF disk = "sound" THEN Tell(p, "settle", "healthy") ELSE Tell(p, "corrupt", "none")
    /\ NoFault /\ UNCHANGED <<disk, backup, marker, sessions, strangers, dirty>>

\* Lock contention is no verdict.
ScanLocked(p) ==
    /\ proc[p].at = "scan" /\ disk # "none" /\ Others(p) # {}
    /\ Tell(p, "settle", "locked")
    /\ NoFault /\ UNCHANGED <<disk, backup, marker, sessions, strangers, dirty>>

\* The corrupt file is renamed, whatever stands at the path by now ...
Quarantine(p) ==
    /\ proc[p].at = "corrupt" /\ disk # "none"
    /\ FileIs("none")
    /\ Go(p, "restore")
    /\ NoFault /\ UNCHANGED <<backup, sessions, strangers, dirty>>

QuarantineFails(p) ==
    /\ proc[p].at = "corrupt"
    /\ IF disk # "none" THEN Fault ELSE NoFault
    /\ Tell(p, "settle", "failed")
    /\ UNCHANGED <<disk, backup, marker, sessions, strangers, dirty>>

\* ... and the newest backup is copied over the path.
Restore(p) ==
    /\ proc[p].at = "restore"
    /\ IF backup # "none" THEN FileIs(backup) /\ Tell(p, "settle", "restored")
       ELSE UNCHANGED <<disk, marker>> /\ Tell(p, "settle", "quarantined")
    /\ NoFault /\ UNCHANGED <<backup, sessions, strangers, dirty>>

RestoreFails(p) ==
    /\ proc[p].at = "restore" /\ backup # "none"
    /\ Fault
    /\ Tell(p, "settle", "failed")
    /\ UNCHANGED <<disk, backup, marker, sessions, strangers, dirty>>

\* The marker is made to agree with the verdict; the late scan goes back to
\* the open that failed.
Settle(p) ==
    /\ proc[p].at = "settle"
    /\ marker' = CASE proc[p].verdict = "healthy" -> "fresh"
                   [] proc[p].verdict = "locked" -> marker
                   [] OTHER -> "none"
    /\ Go(p, IF proc[p].late THEN "judge" ELSE "tidy")
    /\ NoFault /\ UNCHANGED <<disk, backup, sessions, strangers, dirty>>

\* write_marker fails, or leaves half a marker.
SettleFails(p) ==
    /\ proc[p].at = "settle" /\ proc[p].verdict = "healthy"
    /\ Fault
    /\ marker' \in {marker, "unreadable"}
    /\ Go(p, IF proc[p].late THEN "judge" ELSE "tidy")
    /\ UNCHANGED <<disk, backup, sessions, strangers, dirty>>

Told(p) == proc[p].verdict \notin {"locked", "failed"}

\* Mutant: every session file goes, not only those that were counted.
TidiedAll(p) == IF Told(p) THEN {} ELSE sessions

\* A completed check consumes the evidence it acted on.
Tidied(p) == IF Told(p) THEN sessions \ proc[p].stale ELSE sessions

Tidy(p) ==
    /\ proc[p].at = "tidy"
    /\ sessions' = Tidied(p)
    /\ dirty' = IF Told(p) THEN dirty \ proc[p].due ELSE dirty
    /\ proc' = [proc EXCEPT ![p] = [proc[p] EXCEPT !.at = "announce", !.stale = {}, !.due = {},
                                         !.told = proc[p].told /\ proc[p].pid \in Tidied(p)]]
    /\ NoFault /\ UNCHANGED <<disk, backup, marker, strangers>>

-----------------------------------------------------------------------------
(* get_database after the pre-flight *)

\* db_verified_intact, and check_skipped: what is kept of the verdict.
Evidence(verdict) ==
    CASE verdict \in {"healthy", "nodb"} -> "intact"
      [] verdict = "skipped" -> "skipped"
      [] OTHER -> "none"

Kept(p) == [proc[p] EXCEPT !.at = "open", !.verdict = Evidence(proc[p].verdict)]

\* register_session.
Announce(p) ==
    /\ proc[p].at = "announce"
    /\ \/ /\ sessions' = sessions \cup {proc[p].pid}
          /\ proc' = [proc EXCEPT ![p] = [Kept(p) EXCEPT !.told = TRUE]]
          /\ NoFault
       \/ /\ proc' = [proc EXCEPT ![p] = Kept(p)]
          /\ Fault /\ UNCHANGED sessions
    /\ UNCHANGED <<disk, backup, marker, strangers, dirty>>

\* Database::new creates a missing file and backs the one it finds up before it
\* migrates it.  A corrupt one may open cleanly.
Created == IF disk # "none" THEN UNCHANGED <<disk, marker>> /\ backup' \in {backup, disk}
           ELSE FileIs("sound") /\ UNCHANGED backup

Opens(p) ==
    /\ proc[p].at \in {"open", "reopen"}
    /\ Created
    /\ Returns(p, "using")
    /\ NoFault /\ UNCHANGED <<sessions, strangers, dirty>>

\* Locked by another process; written by a newer build, or a migration was halted.
OpenRefused(p) ==
    /\ proc[p].at = "open"
    /\ IF Others(p) # {} THEN NoFault ELSE Fault
    /\ Returns(p, "up")
    /\ UNCHANGED <<disk, backup, marker, sessions, strangers, dirty>>

\* Any other error: a skipped check is made up for before anything is decided.
OpenFails(p) ==
    /\ proc[p].at = "open"
    /\ IF disk = "corrupt" THEN NoFault ELSE Fault
    /\ IF proc[p].verdict = "skipped"
       THEN proc' = [proc EXCEPT ![p].at = "scan", ![p].late = TRUE]
       ELSE Go(p, "judge")
    /\ UNCHANGED <<disk, backup, marker, sessions, strangers, dirty>>

\* The late scan replaced the file: open what is at the path, once.
OpenRepaired(p) ==
    /\ proc[p].at = "judge" /\ proc[p].late /\ proc[p].verdict \in {"restored", "quarantined"}
    /\ Tell(p, "reopen", "none")
    /\ NoFault /\ UNCHANGED <<disk, backup, marker, sessions, strangers, dirty>>

Intact(p) == Evidence(proc[p].verdict) = "intact" \/ proc[p].verdict = "intact"

RefuseIntact(p) ==
    /\ proc[p].at = "judge" /\ Intact(p)
    /\ Returns(p, "up")
    /\ NoFault /\ UNCHANGED <<disk, backup, marker, sessions, strangers, dirty>>

\* The last resort: the file becomes *.db.corrupt and a fresh one takes its place.
LastResort(p) ==
    /\ proc[p].at = "judge" /\ ~Intact(p)
    /\ ~(proc[p].late /\ proc[p].verdict \in {"restored", "quarantined"})
    /\ IF disk # "none"
       THEN /\ disk' = "none"
            /\ marker' = "none"
            /\ Tell(p, "reopen", "none")
       ELSE UNCHANGED <<disk, marker>> /\ Returns(p, "up")     \* nothing to rename
    /\ NoFault /\ UNCHANGED <<backup, sessions, strangers, dirty>>

\* A rename that fails, or the second open.
RecoveryFails(p) ==
    /\ \/ proc[p].at = "judge" /\ ~Intact(p)
       \/ proc[p].at = "reopen"
    /\ Fault
    /\ Returns(p, "up")
    /\ UNCHANGED <<disk, backup, marker, sessions, strangers, dirty>>

Step(p) ==
    \/ Preflight(p) \/ ScanTells(p) \/ ScanLocked(p)
    \/ Quarantine(p) \/ QuarantineFails(p) \/ Restore(p) \/ RestoreFails(p)
    \/ Settle(p) \/ SettleFails(p) \/ Tidy(p)
    \/ Announce(p) \/ Opens(p) \/ OpenRefused(p) \/ OpenFails(p)
    \/ OpenRepaired(p) \/ RefuseIntact(p) \/ LastResort(p) \/ RecoveryFails(p)

-----------------------------------------------------------------------------
(* Processes come and go *)

\* A PID is handed out again, though not while a scan is still about its last owner.
Free(pid) == pid \notin Alive /\ \A p \in Procs : pid \notin proc[p].stale

\* Whoever gets the PID of a killed opener hides it.
Launch(p) ==
    /\ proc[p].at = "off"
    /\ \E pid \in Pids :
         /\ Free(pid)
         /\ proc' = [proc EXCEPT ![p] = [Off EXCEPT !.at = "up", !.pid = pid]]
         /\ dirty' = dirty \ {pid}
    /\ NoFault /\ UNCHANGED <<disk, backup, marker, sessions, strangers>>

\* mark_clean_shutdown: release_session.  A console event may end a start half way.
Exit(p) ==
    /\ proc[p].at # "off"
    /\ sessions' = IF proc[p].told THEN sessions \ {proc[p].pid} ELSE sessions
    /\ proc' = [proc EXCEPT ![p] = Off]
    /\ IF proc[p].at \in {"up", "using"} THEN NoFault ELSE Fault
    /\ UNCHANGED <<disk, backup, marker, strangers, dirty>>

\* Killed: what it was writing may be torn.
Killed(p) ==
    /\ proc[p].at # "off"
    /\ Fault
    /\ proc' = [proc EXCEPT ![p] = Off]
    /\ dirty' = IF proc[p].told THEN dirty \cup {proc[p].pid} ELSE dirty
    /\ \/ UNCHANGED disk
       \/ /\ proc[p].at \in {"open", "reopen", "using"} /\ disk = "sound"
          /\ disk' = "corrupt"
    /\ UNCHANGED <<backup, marker, sessions, strangers>>

Stranger ==
    /\ \/ \E pid \in Foreign : /\ Free(pid)
                               /\ strangers' = strangers \cup {pid} /\ dirty' = dirty \ {pid}
       \/ \E pid \in strangers : strangers' = strangers \ {pid} /\ UNCHANGED dirty
    /\ NoFault /\ UNCHANGED <<disk, backup, marker, sessions, proc>>

-----------------------------------------------------------------------------
(* Time and the disk *)

\* MAX_CHECK_AGE_SECS pass.
Day ==
    /\ marker \in {"fresh", "other"}
    /\ marker' = "stale"
    /\ NoFault /\ UNCHANGED <<disk, backup, sessions, proc, strangers, dirty>>

\* The clock is set back, bits rot, the user puts another file in place.
Mishap ==
    /\ Fault
    /\ \/ /\ marker \in {"fresh", "stale", "other"} /\ marker' = "future"
          /\ UNCHANGED disk
       \/ /\ disk = "sound" /\ disk' = "corrupt"
          /\ UNCHANGED marker
       \/ FileIs("sound") \/ FileIs("corrupt")
    /\ UNCHANGED <<backup, sessions, proc, strangers, dirty>>

-----------------------------------------------------------------------------

\* What earlier runs have left.
Init ==
    /\ \E l \in Lefts : disk = l.disk /\ backup = l.backup /\ marker = l.marker /\ sessions = l.dead
    /\ dirty = sessions
    /\ strangers = {}
    /\ proc = [p \in Procs |-> Off]
    /\ faults = 0

Next ==
    \/ \E p \in Procs : Step(p) \/ Launch(p) \/ Exit(p) \/ Killed(p)
    \/ Stranger \/ Day \/ Mishap

Spec == Init /\ [][Next]_vars

-----------------------------------------------------------------------------
(* Fairness: the system starts the engine again and again, an opener works on  *)
(* and quits some day, days pass, and of ever more starts some open the        *)
(* database and some scans are not locked out.                                 *)

GoesOn(p) == Launch(p) \/ Step(p) \/ (proc[p].at = "using" /\ Exit(p))

FairSpec ==
    /\ Spec
    /\ \A p \in Procs : /\ WF_vars(GoesOn(p))
                        /\ SF_vars(Preflight(p)) /\ SF_vars(ScanTells(p))
    /\ WF_vars(Day)

-----------------------------------------------------------------------------
(* Properties *)

\* The files and every opener keep their types.
TypeOK ==
    /\ disk \in Disks /\ backup \in Disks
    /\ marker \in Markers
    /\ sessions \subseteq Pids /\ strangers \subseteq Pids /\ dirty \subseteq Pids
    /\ proc \in [Procs -> Opener]
    /\ faults \in Nat

\* "A skipped check": the last ok is recent and every opener since exited cleanly
\* (db/migrations.rs, CheckSkipped).  No start is told so while an announced
\* opener died and no check has been completed since, whichever of two starts
\* scanned, was locked out or was killed in between.
CrashIsSeen ==
    [][\A p \in Procs : proc[p].at = "up" /\ proc'[p].at = "announce"
                           /\ proc'[p].verdict = "skipped" => dirty = {}]_vars

\* Corruption that opens cleanly is found: a corrupt file does not stay in place for
\* ever, whatever skips checks, locks a scan out or sets the clock.
CorruptionIsFound == []<>(disk # "corrupt")

\* "Destruction requires evidence of corruption, not merely an error" (state.rs): a
\* file that quick_check would call ok is not moved away because an open failed.
DestructionNeedsEvidence ==
    [][\A p \in Procs : proc[p].at = "judge" /\ proc'[p].at = "reopen" /\ disk = "sound"
                           => disk' = "sound"]_vars
=============================================================================
