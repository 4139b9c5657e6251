------------------------------ MODULE FixTarget ------------------------------
(***************************************************************************)
(* The walk to an upgrade target (crates/fourda-depengine/src:             *)
(* fix_target.rs, range.rs, registry.rs).  From the installed version, at  *)
(* each version every advisory that affects it names its exit, and the     *)
(* walk steps to the highest, until nothing with a way out affects the     *)
(* version it has reached.                                                 *)
(*                                                                         *)
(* A version is its rank among the versions of one package, all of which   *)
(* compare (two spellings of one version are one rank); 0 is a text no     *)
(* scheme reads.  An advisory is what its stored ranges say: windows,      *)
(* enumerated lists, or nothing readable.  The order of advisories and     *)
(* windows does not matter to the result, so they are sets.                *)
(***************************************************************************)
EXTENDS Naturals

CONSTANTS
  Versions,      \* the versions of the package, as ranks from 1
  PreReleases,   \* the ones OrderedVersion::is_prerelease is true of
  Advisories,    \* the advisories on the package
  Contents,      \* what the ranges of an advisory may be
  Registries,    \* what the registry may say: [published, excluded]
  MaxHops        \* MAX_HOPS (16 in the code)

Unread == 0
Kinds  == {"ordinary", "malware", "notice"}

\* A window ends below a fix, at a last affected version, never, at an unknown
\* bound ("-NA": no usable window), or one of its two bounds is unreadable.
Ends   == {"fixed", "lastAffected", "open", "unknown", "garbled"}
Window == [low : Versions \cup {0}, end : Ends, bound : Versions \cup {0}]

\* known: there is range data and it parses.
Content  == [known : BOOLEAN, windows : SUBSET Window,
             lists : SUBSET (SUBSET Versions)]
Registry == [published : SUBSET Versions, excluded : SUBSET Versions]

ASSUME VersionAssumption ==
  /\ Versions \subseteq Nat \ {0}
  /\ PreReleases \subseteq Versions
  /\ MaxHops \in Nat

ASSUME DataAssumption ==
  /\ Contents \subseteq Content
  /\ Registries \subseteq Registry
  /\ \A c \in Contents : \A w \in c.windows :
       /\ w.end \in {"fixed", "lastAffected"} => w.bound \in Versions
       /\ w.end \in {"open", "unknown"} => w.bound = 0

VARIABLES
  installed,  \* the version to move away from, or Unread
  advisory,   \* the content of each advisory
  kind,       \* its AdvisoryKind, as the host classified it
  registry,   \* the RegistryReleases of the package
  current,    \* the version the walk has reached
  hops,       \* how many steps it took
  withheld,   \* the withdrawn releases it passed over
  outcome     \* how it ended

inputs == <<installed, advisory, kind, registry>>
vars   == <<inputs, current, hops, withheld, outcome>>

Outcome(end, target, clears, introduces, malware) ==
  [end |-> end, target |-> target, clears |-> clears,
   introduces |-> introduces, malware |-> malware]
Walking == Outcome("walking", Unread, FALSE, {}, {})

-----------------------------------------------------------------------------
(* Whether a version is affected: range.rs *)

\* in_window
Holds(w, v) ==
  /\ w.end \in {"fixed", "lastAffected", "open"}
  /\ w.low <= v
  /\ w.end = "fixed" => v < w.bound
  /\ w.end = "lastAffected" => v <= w.bound

Affects(c, v) ==
  \/ \E w \in c.windows : Holds(w, v)
  \/ \E l \in c.lists : v \in l

\* check_version_affected: (true, true), (true, false) or (false, true).
Verdict(c, v) ==
  CASE ~c.known -> "unconfirmed"
    [] c.known /\ Affects(c, v) -> "affected"
    [] c.known /\ ~Affects(c, v) ->
         IF \E w \in c.windows : w.end = "garbled" THEN "unconfirmed" ELSE "clear"

Checked == {a \in Advisories : kind[a] # "notice"}
Affecting(v)   == {a \in Checked : Verdict(advisory[a], v) = "affected"}
Unconfirmed(v) == {a \in Checked : Verdict(advisory[a], v) = "unconfirmed"}

-----------------------------------------------------------------------------
(* The releases the walk can name: Known *)

Named(c) ==
  IF c.known
  THEN ({w.low : w \in c.windows} \cup {w.bound : w \in c.windows}
         \cup UNION c.lists) \cap Versions
  ELSE {}

\* The advisory data names v, the registry lists a later release and not v.
Unlisted(v) ==
  /\ v \notin registry.published
  /\ \E p \in registry.published : v <= p

Allowed(v) == ~Unlisted(v) /\ v \notin registry.excluded

\* Known::new, from the advisories As.
ReleasesOf(As) ==
  {v \in registry.published \cup UNION {Named(advisory[a]) : a \in As} :
     v \notin PreReleases /\ ~Unlisted(v)}

Releases == ReleasesOf(Advisories)

\* The lowest, and the highest, of a set of versions, as a set.
Lowest(S)  == {r \in S : \A q \in S : r <= q}
Highest(S) == {r \in S : \A q \in S : q <= r}

\* Mutant: the lowest release above the bound, withdrawn or not.
NextAnyAbove(bound, keep) == Lowest({r \in Releases \cap keep : r > bound})

\* Mutant: the newest release above the bound.
NextNewest(bound, keep) ==
  Highest({r \in Releases \cap keep : r > bound /\ Allowed(r)})

\* Known::next_above: what it returns, and what it adds to withheld.
NextAbove(bound, keep) ==
  Lowest({r \in Releases \cap keep : r > bound /\ Allowed(r)})

\* Mutant: nothing is withheld when nothing is left to step to.
PassedBelowNext(bound, keep) ==
  {r \in Releases \cap keep :
     r > bound /\ ~Allowed(r) /\ \E n \in NextAbove(bound, keep) : r < n}

PassedAbove(bound, keep) ==
  {r \in Releases \cap keep :
     /\ r > bound /\ ~Allowed(r)
     /\ \A n \in NextAbove(bound, keep) : r < n}

-----------------------------------------------------------------------------
(* How the walk leaves one advisory: exit *)

WindowsAt(c, v) == {w \in c.windows : Holds(w, v)}
ListsAt(c, v)   == {l \in c.lists : v \in l}

\* Mutant: a last affected version is left at itself.
LeaveAtLast(w) ==
  CASE w.end = "fixed" /\ Allowed(w.bound)  -> {w.bound}
    [] w.end = "fixed" /\ ~Allowed(w.bound) -> NextAbove(w.bound, Versions)
    [] w.end = "lastAffected"               -> {w.bound}
    [] OTHER                                -> {}

\* fixed_step for a fix, next_above for a last affected version, or no way out.
LeaveWindow(w) ==
  CASE w.end = "fixed" /\ Allowed(w.bound)  -> {w.bound}
    [] w.end = "fixed" /\ ~Allowed(w.bound) -> NextAbove(w.bound, Versions)
    [] w.end = "lastAffected"               -> NextAbove(w.bound, Versions)
    [] OTHER                                -> {}

PassedWindow(w) ==
  CASE w.end = "fixed" /\ Allowed(w.bound)  -> {}
    [] w.end = "fixed" /\ ~Allowed(w.bound) ->
         {w.bound} \cup PassedAbove(w.bound, Versions)
    [] w.end = "lastAffected"               -> PassedAbove(w.bound, Versions)
    [] OTHER                                -> {}

LeaveList(l, v) == NextAbove(v, Versions \ l)

Exits(c, v) ==
  UNION ({LeaveWindow(w) : w \in WindowsAt(c, v)}
           \cup {LeaveList(l, v) : l \in ListsAt(c, v)})

Passed(c, v) ==
  UNION ({PassedWindow(w) : w \in WindowsAt(c, v)}
           \cup {PassedAbove(v, Versions \ l) : l \in ListsAt(c, v)})

\* Exit::Stuck: something that holds v has no way out.
Stuck(c, v) ==
  \/ \E w \in WindowsAt(c, v) : LeaveWindow(w) = {}
  \/ \E l \in ListsAt(c, v) : LeaveList(l, v) = {}

StuckAt(v) == {a \in Affecting(v) : Stuck(advisory[a], v)}

Moves(v) == UNION {Exits(advisory[a], v) : a \in Affecting(v) \ StuckAt(v)}

PassedAt(v) == UNION {Passed(advisory[a], v) : a \in Affecting(v)}

\* The advisories with no way out the landing would bring in.
Introduced(v) ==
  {a \in StuckAt(v) : kind[a] # "malware" /\ Verdict(advisory[a], installed) = "clear"}

MalwareAt(v) == {a \in StuckAt(v) : kind[a] = "malware"}

\* Mutant: only the releases past the landing.
MaliciousPast(v) ==
  {a \in Advisories :
     /\ kind[a] = "malware"
     /\ \E r \in Releases :
          r > v /\ Allowed(r) /\ Verdict(advisory[a], r) # "clear"}

\* malicious_landing
MaliciousFrom(v) ==
  {a \in Advisories :
     /\ kind[a] = "malware"
     /\ \E r \in Releases :
          r >= v /\ Allowed(r) /\ Verdict(advisory[a], r) # "clear"}

-----------------------------------------------------------------------------
(* The fix of one advisory on its own: fix_for_version, installable_fix *)

\* Mutant: the newest release the advisory does not affect.
NewestFix(a, fix) ==
  IF Allowed(fix) THEN {fix}
  ELSE Highest({r \in ReleasesOf({a}) :
                  r > fix /\ Allowed(r) /\ ~Affects(advisory[a], r)})

InstallableFix(a, fix) ==
  IF Allowed(fix) THEN {fix}
  ELSE Lowest({r \in ReleasesOf({a}) :
                 r > fix /\ Allowed(r) /\ ~Affects(advisory[a], r)})

\* The fix of a window that holds v: the first in the data, so any of them.
LineFixes(a, v) ==
  UNION {InstallableFix(a, w.bound) :
           w \in {x \in WindowsAt(advisory[a], v) :
                   x.end = "fixed" /\ advisory[a].known}}

-----------------------------------------------------------------------------
(* The walk *)

Init ==
  /\ installed \in Versions \cup {Unread}
  /\ advisory \in [Advisories -> Contents]
  /\ kind \in [Advisories -> Kinds]
  /\ registry \in Registries
  /\ current = installed
  /\ hops = 0
  /\ withheld = {}
  /\ outcome = Walking

\* Mutant: one hop too many.
EvaluableOnceMore ==
  /\ outcome = Walking
  /\ hops <= MaxHops
  /\ current # Unread
  /\ Unconfirmed(current) = {}

\* Every advisory can be evaluated at the version reached.
Evaluable ==
  /\ outcome = Walking
  /\ hops < MaxHops
  /\ current # Unread
  /\ Unconfirmed(current) = {}

\* Step to the highest exit.
Hop ==
  /\ Evaluable
  /\ current' \in Highest(Moves(current))
  /\ hops' = hops + 1
  /\ withheld' = withheld \cup PassedAt(current)
  /\ UNCHANGED <<inputs, outcome>>

\* Nothing with a way out affects the version reached: the walk ends.
Finish(result) ==
  /\ Evaluable
  /\ Moves(current) = {}
  /\ withheld' = withheld \cup PassedAt(current)
  /\ outcome' = result
  /\ UNCHANGED <<inputs, current, hops>>

\* ... where it began: there is nowhere to go.
Stay ==
  /\ current = installed
  /\ Finish(Outcome("nowhere", Unread, FALSE, {}, {}))

\* Mutant: whatever it lands in, the walk names its target.
LandRegardless ==
  /\ current # installed
  /\ Finish(Outcome("target", current, StuckAt(current) = {}, {}, {}))

\* Mutant: a target that brings nothing in is said to clear everything.
LandClaimsAll ==
  /\ current # installed
  /\ Introduced(current) = {} /\ MalwareAt(current) = {}
  /\ Finish(Outcome("target", current, TRUE, {}, {}))

\* ... at a target.
Land ==
  /\ current # installed
  /\ Introduced(current) = {} /\ MalwareAt(current) = {}
  /\ Finish(Outcome("target", current, StuckAt(current) = {}, {}, {}))

\* ... inside an advisory it would bring in, or a malicious release.
Block ==
  /\ current # installed
  /\ Introduced(current) # {} \/ MalwareAt(current) # {}
  /\ Finish(Outcome("blocked", Unread, FALSE, Introduced(current),
                    MaliciousFrom(current)))

\* An advisory on the path cannot be evaluated, or the hops have run out.
GiveUp ==
  /\ outcome = Walking
  /\ \/ hops = MaxHops
     \/ current = Unread
     \/ current # Unread /\ Unconfirmed(current) # {}
  /\ outcome' = Outcome("unreadable", Unread, FALSE, {}, {})
  /\ withheld' = {}
  /\ UNCHANGED <<inputs, current, hops>>

\* The walk has returned.
Done == outcome # Walking /\ UNCHANGED vars

Next == Hop \/ Stay \/ Land \/ Block \/ GiveUp \/ Done

Spec == Init /\ [][Next]_vars

-----------------------------------------------------------------------------
\* Every variable holds a value of the shape the code gives it.
TypeOK ==
  /\ installed \in Versions \cup {Unread}
  /\ advisory \in [Advisories -> Contents]
  /\ kind \in [Advisories -> Kinds]
  /\ registry \in Registries
  /\ current \in Versions \cup {Unread}
  /\ hops \in 0..MaxHops
  /\ withheld \subseteq Versions
  /\ outcome \in [end : {"walking", "nowhere", "target", "blocked", "unreadable"},
                  target : Versions \cup {Unread}, clears : BOOLEAN,
                  introduces : SUBSET Advisories, malware : SUBSET Advisories]

Target == outcome.target

\* "The lowest version reachable from installed that NO known advisory
\* affects": a target that is said to clear everything is affected by no
\* advisory, on the path or not, malicious or not.
CleanTarget ==
  outcome.end = "target" /\ outcome.clears =>
    \A a \in Checked : Verdict(advisory[a], Target) = "clear"

\* A target never brings an advisory in: whatever still affects it affected
\* the installed version too, and has no way out; and it is never malicious.
BringsNothingIn ==
  outcome.end = "target" =>
    \A a \in Checked : Verdict(advisory[a], Target) # "clear" =>
      /\ Verdict(advisory[a], installed) # "clear"
      /\ Stuck(advisory[a], Target)
      /\ kind[a] # "malware"

\* The walk does not overshoot: every installable release between the
\* installed version and the target is affected by some advisory.
NothingCleanIsSkipped ==
  outcome.end = "target" =>
    \A r \in Releases :
      installed <= r /\ r < Target /\ Allowed(r) => Affecting(r) # {}

\* A target is a release one can install: never one the registry withdrew, nor
\* one it does not list below a release it does list.
TargetIsInstallable == outcome.end = "target" => Allowed(Target)

\* "No fix" is said only when there is none: with no target and nothing
\* withheld, every known release above an affected installed version, withdrawn
\* or not, is still held by one of the advisories that affect it.
NoFixMeansNoFix ==
  outcome.end = "nowhere" /\ withheld = {} =>
    \A a \in Affecting(installed) : \A r \in Releases :
      r > installed => Affects(advisory[a], r)

\* The two answers agree: where the registry lists the clean target, no advisory
\* on the installed version names a line fix of its own above it.
LineFixAgrees ==
  outcome.end = "target" /\ outcome.clears
    /\ Target \in registry.published \ PreReleases =>
      \A a \in Affecting(installed) : \A f \in LineFixes(a, installed) : f <= Target

\* Every step goes strictly up and clears every advisory with a way out that
\* held the version it left.
EveryHopLeaves ==
  [][current' # current =>
       /\ current' > current
       /\ \A a \in Affecting(current) \ StuckAt(current) :
            \A w \in WindowsAt(advisory[a], current) : ~Holds(w, current')]_vars

\* A walk that is blocked says by what.
BlockIsExplained ==
  outcome.end = "blocked" /\ current \notin PreReleases =>
    outcome.introduces # {} \/ outcome.malware # {}

\* "No step lands on a pre-release", "pre-releases are left out of targets as
\* always".
TargetIsStable == outcome.end = "target" => Target \notin PreReleases
=============================================================================
