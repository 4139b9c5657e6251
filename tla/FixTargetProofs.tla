--------------------------- MODULE FixTargetProofs ---------------------------
(***************************************************************************)
(* Proofs about FixTarget, for any versions, advisories, contents,         *)
(* registry answers and bound on the hops.                                 *)
(***************************************************************************)
EXTENDS FixTarget, WellFoundedInduction, TLAPS

-----------------------------------------------------------------------------
(* Versions, contents and releases *)

\* A nonempty set of versions has a lowest one.
LEMMA LowestExists ==
  ASSUME NEW S, S \subseteq Nat, S # {}
  PROVE  Lowest(S) # {}
<1> DEFINE R == OpToRel(<, Nat)
<1>1. IsWellFoundedOn(R, Nat)
  BY NatLessThanWellFounded
<1>2. PICK m \in S : \A k \in S : ~ (<<k, m>> \in R)
  BY <1>1, WFMin
<1>3. \A k \in S : ~(k < m)
  BY <1>2 DEF OpToRel
<1> QED
  BY <1>3 DEF Lowest

\* What the inputs of a walk are.
InputsOK ==
  /\ installed \in Versions \cup {Unread}
  /\ advisory \in [Advisories -> Contents]
  /\ kind \in [Advisories -> Kinds]
  /\ registry \in Registries

LEMMA VersionsNat == Versions \cup {0} \subseteq Nat
  BY VersionAssumption

LEMMA ContentType ==
  ASSUME InputsOK, NEW a \in Advisories
  PROVE  /\ advisory[a].known \in BOOLEAN
         /\ \A l \in advisory[a].lists : l \subseteq Versions
         /\ \A w \in advisory[a].windows :
              /\ w \in Window
              /\ w.low \in Nat /\ w.bound \in Nat
              /\ w.end \in {"fixed", "lastAffected"} => w.bound \in Versions
<1>1. advisory[a] \in Contents
  BY DEF InputsOK
<1>2. advisory[a] \in Content
  BY <1>1, DataAssumption
<1>3. advisory[a].windows \subseteq Window
  BY <1>2 DEF Content
<1>4. /\ advisory[a].known \in BOOLEAN
      /\ \A l \in advisory[a].lists : l \subseteq Versions
  BY <1>2 DEF Content
<1>5. ASSUME NEW w \in advisory[a].windows
      PROVE  /\ w \in Window /\ w.low \in Nat /\ w.bound \in Nat
             /\ w.end \in {"fixed", "lastAffected"} => w.bound \in Versions
  <2>1. w \in Window
    BY <1>3
  <2>2. w.low \in Nat /\ w.bound \in Nat
    BY <2>1, VersionsNat DEF Window
  <2>3. w.end \in {"fixed", "lastAffected"} => w.bound \in Versions
    BY <1>1, DataAssumption
  <2> QED
    BY <2>1, <2>2, <2>3
<1> QED
  BY <1>4, <1>5

LEMMA ReleasesType ==
  ASSUME InputsOK
  PROVE  /\ Releases \subseteq Versions
         /\ \A As \in SUBSET Advisories : ReleasesOf(As) \subseteq Versions
<1>1. registry \in Registry
  BY DataAssumption DEF InputsOK
<1>2. registry.published \subseteq Versions
  BY <1>1 DEF Registry
<1>3. \A a \in Advisories : Named(advisory[a]) \subseteq Versions
  BY DEF Named
<1>4. \A As \in SUBSET Advisories : ReleasesOf(As) \subseteq Versions
  BY <1>2, <1>3 DEF ReleasesOf
<1> QED
  BY <1>4 DEF Releases

\* What next_above returns.
LEMMA NextAboveFacts ==
  ASSUME InputsOK, NEW b, NEW keep, NEW n \in NextAbove(b, keep)
  PROVE  /\ n \in Releases /\ n \in Versions /\ n \in keep
         /\ n > b /\ Allowed(n)
         /\ \A r \in Releases : r \in keep /\ r > b /\ Allowed(r) => n <= r
  BY ReleasesType DEF NextAbove, Lowest

\* With nothing to return and nothing withheld there is no release above.
LEMMA NothingAbove ==
  ASSUME InputsOK, NEW b \in Nat, NEW keep,
         NextAbove(b, keep) = {}, PassedAbove(b, keep) = {},
         NEW r \in Releases, r \in keep
  PROVE  ~(r > b)
<1> SUFFICES ASSUME r > b PROVE FALSE
  OBVIOUS
<1> DEFINE S == {q \in Releases \cap keep : q > b /\ Allowed(q)}
<1>1. Releases \subseteq Nat
  BY ReleasesType, VersionsNat
<1>2. CASE Allowed(r)
  <2>1. r \in S
    BY <1>2
  <2>2. Lowest(S) # {}
    BY <2>1, <1>1, LowestExists
  <2> QED
    BY <2>2 DEF NextAbove
<1>3. CASE ~Allowed(r)
  BY <1>3 DEF PassedAbove
<1> QED
  BY <1>2, <1>3

\* A version the data names and one may install is a release or a pre-release.
LEMMA NamedIsRelease ==
  ASSUME NEW a \in Advisories, NEW v \in Named(advisory[a]), Allowed(v)
  PROVE  v \in PreReleases \/ v \in Releases
  BY DEF Allowed, Releases, ReleasesOf

-----------------------------------------------------------------------------
(* Verdicts and exits *)

LEMMA AffectingFacts ==
  ASSUME NEW v, NEW a \in Affecting(v)
  PROVE  /\ a \in Advisories /\ kind[a] # "notice"
         /\ advisory[a].known /\ Affects(advisory[a], v)
  BY Zenon DEF Affecting, Checked, Verdict

LEMMA VerdictCases ==
  ASSUME NEW c, NEW v
  PROVE  /\ Verdict(c, v) \in {"affected", "unconfirmed", "clear"}
         /\ c.known /\ Affects(c, v) => Verdict(c, v) = "affected"
         /\ Verdict(c, v) = "affected" => c.known /\ Affects(c, v)
<1>1. CASE ~c.known
  BY <1>1 DEF Verdict
<1>2. CASE c.known /\ Affects(c, v)
  BY <1>2 DEF Verdict
<1>3. CASE c.known /\ ~Affects(c, v)
  BY <1>3 DEF Verdict
<1> QED
  BY <1>1, <1>2, <1>3

\* The exit of a window lies above it, may be installed, and everything
\* installable before it is still in the window.
LEMMA WindowExit ==
  ASSUME InputsOK, NEW v \in Nat, NEW a \in Advisories, advisory[a].known,
         NEW w \in WindowsAt(advisory[a], v), NEW x \in LeaveWindow(w)
  PROVE  /\ x \in Versions /\ x > v /\ Allowed(x)
         /\ x \in PreReleases \/ x \in Releases
         /\ ~Holds(w, x)
         /\ \A y \in Nat : y >= x => ~Holds(w, y)
         /\ \A r \in Releases : v <= r /\ r < x /\ Allowed(r) => Holds(w, r)
<1>1. /\ w \in advisory[a].windows /\ Holds(w, v)
  BY DEF WindowsAt
<1>2. /\ w.low \in Nat /\ w.bound \in Nat
      /\ w.end \in {"fixed", "lastAffected"} => w.bound \in Versions
  BY <1>1, ContentType
<1>3. Releases \subseteq Nat
  BY ReleasesType, VersionsNat
<1>4. CASE w.end = "fixed" /\ Allowed(w.bound)
  <2>1. x = w.bound
    BY <1>4 DEF LeaveWindow
  <2>2. x \in Named(advisory[a])
    BY <1>1, <1>2, <1>4, <2>1 DEF Named
  <2>3. x \in PreReleases \/ x \in Releases
    BY <2>2, <2>1, <1>4, NamedIsRelease
  <2>4. x \in Versions /\ x > v
    BY <1>1, <1>2, <1>4, <2>1 DEF Holds
  <2>5. \A y \in Nat : y >= x => ~Holds(w, y)
    BY <1>2, <1>4, <2>1 DEF Holds
  <2>6. \A r \in Releases : v <= r /\ r < x => Holds(w, r)
    BY <1>1, <1>2, <1>3, <1>4, <2>1 DEF Holds
  <2> QED
    BY <2>1, <2>3, <2>4, <2>5, <2>6, <1>4, <1>2
<1>5. CASE w.end = "fixed" /\ ~Allowed(w.bound)
  <2>1. x \in NextAbove(w.bound, Versions)
    BY <1>5 DEF LeaveWindow
  <2>2. /\ x \in Releases /\ x \in Versions /\ x > w.bound /\ Allowed(x)
        /\ \A r \in Releases : r \in Versions /\ r > w.bound /\ Allowed(r) => x <= r
    BY <2>1, NextAboveFacts
  <2>3. x \in Nat /\ x > v
    BY <1>1, <1>2, <1>3, <1>5, <2>2 DEF Holds
  <2>4. \A y \in Nat : y >= x => ~Holds(w, y)
    BY <1>2, <1>5, <2>2, <2>3 DEF Holds
  <2>5. ASSUME NEW r \in Releases, v <= r, r < x, Allowed(r) PROVE Holds(w, r)
    <3>1. r \in Versions /\ r \in Nat
      BY ReleasesType, <1>3
    <3>2. ~(r > w.bound)
      BY <2>2, <2>3, <2>5, <3>1
    <3>3. r # w.bound
      BY <2>5, <1>5
    <3> QED
      BY <3>1, <3>2, <3>3, <1>1, <1>2, <1>5, <2>5 DEF Holds
  <2> QED
    BY <2>2, <2>3, <2>4, <2>5
<1>6. CASE w.end = "lastAffected"
  <2>1. x \in NextAbove(w.bound, Versions)
    BY <1>6 DEF LeaveWindow
  <2>2. /\ x \in Releases /\ x \in Versions /\ x > w.bound /\ Allowed(x)
        /\ \A r \in Releases : r \in Versions /\ r > w.bound /\ Allowed(r) => x <= r
    BY <2>1, NextAboveFacts
  <2>3. x \in Nat /\ x > v
    BY <1>1, <1>2, <1>3, <1>6, <2>2 DEF Holds
  <2>4. \A y \in Nat : y >= x => ~Holds(w, y)
    BY <1>2, <1>6, <2>2, <2>3 DEF Holds
  <2>5. ASSUME NEW r \in Releases, v <= r, r < x, Allowed(r) PROVE Holds(w, r)
    <3>1. r \in Versions /\ r \in Nat
      BY ReleasesType, <1>3
    <3>2. ~(r > w.bound)
      BY <2>2, <2>3, <2>5, <3>1
    <3> QED
      BY <3>1, <3>2, <1>1, <1>2, <1>6, <2>5 DEF Holds
  <2> QED
    BY <2>2, <2>3, <2>4, <2>5
<1>7. w.end = "fixed" \/ w.end = "lastAffected"
  BY DEF LeaveWindow
<1> QED
  BY <1>4, <1>5, <1>6, <1>7

\* The same for an enumerated list.
LEMMA ListExit ==
  ASSUME InputsOK, NEW v \in Nat, NEW a \in Advisories,
         NEW l \in ListsAt(advisory[a], v), NEW x \in LeaveList(l, v)
  PROVE  /\ x \in Versions /\ x > v /\ Allowed(x) /\ x \in Releases
         /\ \A r \in Releases : v <= r /\ r < x /\ Allowed(r) => r \in l
<1>1. l \in advisory[a].lists /\ v \in l
  BY DEF ListsAt
<1>2. Releases \subseteq Nat /\ Releases \subseteq Versions
  BY ReleasesType, VersionsNat
<1>3. /\ x \in Releases /\ x \in Versions \ l /\ x > v /\ Allowed(x)
      /\ \A r \in Releases : r \in Versions \ l /\ r > v /\ Allowed(r) => x <= r
  BY NextAboveFacts DEF LeaveList
<1>4. ASSUME NEW r \in Releases, v <= r, r < x, Allowed(r), r \notin l PROVE FALSE
  <2>1. r \in Nat /\ x \in Nat /\ r \in Versions \ l
    BY <1>2, <1>3, <1>4
  <2>2. r > v
    BY <1>1, <1>4, <2>1
  <2> QED
    BY <1>3, <1>4, <2>1, <2>2
<1> QED
  BY <1>3, <1>4

\* What a step may be: an exit of an advisory that holds the version left.
LEMMA ExitFacts ==
  ASSUME InputsOK, NEW v \in Nat, NEW a \in Affecting(v),
         NEW x \in Exits(advisory[a], v)
  PROVE  /\ x \in Versions /\ x > v /\ Allowed(x)
         /\ x \in PreReleases \/ x \in Releases
         /\ \A r \in Releases : v <= r /\ r < x /\ Allowed(r) => a \in Affecting(r)
<1>1. a \in Advisories /\ kind[a] # "notice" /\ advisory[a].known
  BY AffectingFacts
<1>2. \A r : Affects(advisory[a], r) => a \in Affecting(r)
  BY <1>1, VerdictCases DEF Affecting, Checked
<1>3. ASSUME NEW w \in WindowsAt(advisory[a], v), x \in LeaveWindow(w)
      PROVE  /\ x \in Versions /\ x > v /\ Allowed(x)
             /\ x \in PreReleases \/ x \in Releases
             /\ \A r \in Releases : v <= r /\ r < x /\ Allowed(r) => a \in Affecting(r)
  <2>1. w \in advisory[a].windows
    BY DEF WindowsAt
  <2>2. \A r : Holds(w, r) => Affects(advisory[a], r)
    BY <2>1 DEF Affects
  <2> QED
    BY <1>1, <1>2, <1>3, <2>2, WindowExit
<1>4. ASSUME NEW l \in ListsAt(advisory[a], v), x \in LeaveList(l, v)
      PROVE  /\ x \in Versions /\ x > v /\ Allowed(x)
             /\ x \in PreReleases \/ x \in Releases
             /\ \A r \in Releases : v <= r /\ r < x /\ Allowed(r) => a \in Affecting(r)
  <2>1. l \in advisory[a].lists
    BY DEF ListsAt
  <2>2. \A r \in l : Affects(advisory[a], r)
    BY <2>1 DEF Affects
  <2> QED
    BY <1>1, <1>2, <1>4, <2>2, ListExit
<1>5. \/ \E w \in WindowsAt(advisory[a], v) : x \in LeaveWindow(w)
      \/ \E l \in ListsAt(advisory[a], v) : x \in LeaveList(l, v)
  BY Zenon DEF Exits
<1> QED
  BY <1>3, <1>4, <1>5

LEMMA MoveFacts ==
  ASSUME InputsOK, NEW v \in Nat, NEW x \in Moves(v)
  PROVE  /\ x \in Versions /\ x > v /\ Allowed(x)
         /\ x \in PreReleases \/ x \in Releases
         /\ \A r \in Releases : v <= r /\ r < x /\ Allowed(r) => Affecting(r) # {}
<1>1. PICK a \in Affecting(v) : x \in Exits(advisory[a], v)
  BY Zenon DEF Moves
<1> QED
  BY <1>1, ExitFacts

\* Whatever affects a version the walk cannot move from is stuck there.
LEMMA NoMoves ==
  ASSUME NEW v, Moves(v) = {}
  PROVE  Affecting(v) = StuckAt(v)
<1> SUFFICES ASSUME NEW a \in Affecting(v), a \notin StuckAt(v) PROVE FALSE
  BY DEF StuckAt
<1>1. Affects(advisory[a], v) /\ ~Stuck(advisory[a], v)
  BY AffectingFacts DEF StuckAt
<1>2. Exits(advisory[a], v) = {}
  BY Zenon DEF Moves
<1>3. CASE \E w \in advisory[a].windows : Holds(w, v)
  <2>1. PICK w \in WindowsAt(advisory[a], v) : TRUE
    BY <1>3 DEF WindowsAt
  <2>2. LeaveWindow(w) # {}
    BY <1>1, <2>1 DEF Stuck
  <2>3. LeaveWindow(w) \subseteq Exits(advisory[a], v)
    BY Zenon, <2>1 DEF Exits
  <2> QED
    BY <1>2, <2>2, <2>3
<1>4. CASE \E l \in advisory[a].lists : v \in l
  <2>1. PICK l \in ListsAt(advisory[a], v) : TRUE
    BY <1>4 DEF ListsAt
  <2>2. LeaveList(l, v) # {}
    BY <1>1, <2>1 DEF Stuck
  <2>3. LeaveList(l, v) \subseteq Exits(advisory[a], v)
    BY Zenon, <2>1 DEF Exits
  <2> QED
    BY <1>2, <2>2, <2>3
<1> QED
  BY <1>1, <1>3, <1>4 DEF Affects

-----------------------------------------------------------------------------
(* The invariant *)

AtEnd == Unconfirmed(current) = {} /\ Moves(current) = {}

\* The walk only goes up, and stands on a version one may install.
Reached ==
  /\ installed <= current
  /\ current # installed =>
       Allowed(current) /\ (current \in PreReleases \/ current \in Releases)

\* Everything installable it has left behind is affected.
Skipped ==
  \A r \in Releases : installed <= r /\ r < current /\ Allowed(r) => Affecting(r) # {}

Landed ==
  outcome.end = "target" =>
    /\ Target = current /\ current # installed /\ AtEnd
    /\ outcome.clears => StuckAt(current) = {}
    /\ Introduced(current) = {} /\ MalwareAt(current) = {}

Stayed ==
  outcome.end = "nowhere" =>
    current = installed /\ AtEnd /\ PassedAt(current) \subseteq withheld

Blocked ==
  outcome.end = "blocked" =>
    /\ current # installed
    /\ outcome.introduces = Introduced(current)
    /\ outcome.malware = MaliciousFrom(current)
    /\ Introduced(current) # {} \/ MalwareAt(current) # {}

Inv == TypeOK /\ Reached /\ Skipped /\ Landed /\ Stayed /\ Blocked

LEMMA TypeInputs == TypeOK => InputsOK /\ current \in Nat /\ installed \in Nat
  BY VersionsNat DEF TypeOK, InputsOK, Unread

\* What the walk may pass over are versions.
LEMMA PassedType ==
  ASSUME InputsOK, NEW v \in Nat
  PROVE  PassedAt(v) \subseteq Versions
<1>1. \A b, keep : PassedAbove(b, keep) \subseteq Versions
  BY ReleasesType DEF PassedAbove
<1>2. ASSUME NEW a \in Affecting(v), NEW w \in WindowsAt(advisory[a], v)
      PROVE  PassedWindow(w) \subseteq Versions
  <2>1. w \in advisory[a].windows /\ a \in Advisories
    BY AffectingFacts DEF WindowsAt
  <2>2. w.end \in {"fixed", "lastAffected"} => w.bound \in Versions
    BY <2>1, ContentType
  <2> QED
    BY <1>1, <2>2 DEF PassedWindow
<1>3. \A a \in Affecting(v) : Passed(advisory[a], v) \subseteq Versions
  BY ZenonT(40), <1>1, <1>2 DEF Passed
<1> QED
  BY Zenon, <1>3 DEF PassedAt


LEMMA InitInv == Init => Inv
<1> SUFFICES ASSUME Init PROVE Inv
  OBVIOUS
<1>1. TypeOK
  <2>1. hops \in 0..MaxHops /\ withheld \subseteq Versions
    BY VersionAssumption DEF Init
  <2>2. outcome = Walking
    BY DEF Init
  <2>3. outcome \in [end : {"walking", "nowhere", "target", "blocked", "unreadable"},
                     target : Versions \cup {Unread}, clears : BOOLEAN,
                     introduces : SUBSET Advisories, malware : SUBSET Advisories]
    BY <2>2 DEF Walking, Outcome
  <2>4. /\ installed \in Versions \cup {Unread} /\ current \in Versions \cup {Unread}
        /\ advisory \in [Advisories -> Contents]
        /\ kind \in [Advisories -> Kinds] /\ registry \in Registries
    BY DEF Init
  <2> QED
    BY <2>1, <2>3, <2>4 DEF TypeOK
<1>2. current \in Nat /\ installed \in Nat /\ current = installed
  BY <1>1, TypeInputs DEF Init
<1>3. Releases \subseteq Nat
  BY <1>1, TypeInputs, ReleasesType, VersionsNat
<1>4. Reached /\ Skipped
  BY <1>2, <1>3 DEF Reached, Skipped
<1>5. Landed /\ Stayed /\ Blocked
  BY DEF Init, Walking, Outcome, Landed, Stayed, Blocked
<1> QED
  BY <1>1, <1>4, <1>5 DEF Inv

\* The operators read the inputs only, and no step changes those.
LEMMA Steady ==
  ASSUME UNCHANGED inputs
  PROVE  /\ Releases' = Releases
         /\ \A v : Allowed(v)' = Allowed(v)
         /\ \A v : /\ Affecting(v)' = Affecting(v)
                   /\ Unconfirmed(v)' = Unconfirmed(v)
                   /\ Moves(v)' = Moves(v)
                   /\ StuckAt(v)' = StuckAt(v)
                   /\ PassedAt(v)' = PassedAt(v)
                   /\ Introduced(v)' = Introduced(v)
                   /\ MalwareAt(v)' = MalwareAt(v)
                   /\ MaliciousFrom(v)' = MaliciousFrom(v)
<1>1. installed' = installed /\ advisory' = advisory /\ kind' = kind /\ registry' = registry
  BY DEF inputs
<1>2. Releases' = Releases
  BY <1>1 DEF Releases, ReleasesOf, Unlisted
<1>3. \A v : Allowed(v)' = Allowed(v)
  BY <1>1 DEF Allowed, Unlisted
<1>4. \A b, keep : /\ NextAbove(b, keep)' = NextAbove(b, keep)
                   /\ PassedAbove(b, keep)' = PassedAbove(b, keep)
  BY <1>2, <1>3 DEF NextAbove, PassedAbove
<1>5. \A w : LeaveWindow(w)' = LeaveWindow(w) /\ PassedWindow(w)' = PassedWindow(w)
  BY <1>3, <1>4 DEF LeaveWindow, PassedWindow
<1>6. \A l, v : LeaveList(l, v)' = LeaveList(l, v)
  BY <1>4 DEF LeaveList
<1>7. \A c, v : Exits(c, v)' = Exits(c, v)
  BY <1>5, <1>6 DEF Exits, WindowsAt, ListsAt
<1>8. \A c, v : Passed(c, v)' = Passed(c, v)
  BY <1>4, <1>5 DEF Passed, WindowsAt, ListsAt
<1>9. \A c, v : Stuck(c, v)' = Stuck(c, v)
  BY <1>5, <1>6 DEF Stuck, WindowsAt, ListsAt
<1>10. \A v : Affecting(v)' = Affecting(v) /\ Unconfirmed(v)' = Unconfirmed(v)
  BY <1>1 DEF Affecting, Unconfirmed, Checked
<1>11. \A v : StuckAt(v)' = StuckAt(v)
  BY <1>1, <1>9, <1>10 DEF StuckAt
<1>12. \A v : Moves(v)' = Moves(v) /\ PassedAt(v)' = PassedAt(v)
  BY <1>1, <1>7, <1>8, <1>10, <1>11 DEF Moves, PassedAt
<1>13. \A v : Introduced(v)' = Introduced(v) /\ MalwareAt(v)' = MalwareAt(v)
  BY <1>1, <1>11 DEF Introduced, MalwareAt
<1>14. \A v : MaliciousFrom(v)' = MaliciousFrom(v)
  BY <1>1, <1>2, <1>3 DEF MaliciousFrom
<1> QED
  BY <1>2, <1>3, <1>10, <1>11, <1>12, <1>13, <1>14


LEMMA HopInv == Inv /\ Hop => Inv'
<1> SUFFICES ASSUME Inv, Hop PROVE Inv'
  OBVIOUS
<1>1. TypeOK /\ InputsOK /\ current \in Nat /\ installed \in Nat
  BY TypeInputs DEF Inv
<1>2. /\ outcome = Walking /\ hops < MaxHops /\ current # Unread
      /\ current' \in Highest(Moves(current)) /\ hops' = hops + 1
      /\ withheld' = withheld \cup PassedAt(current)
      /\ UNCHANGED inputs /\ outcome' = outcome
  BY DEF Hop, Evaluable
<1>3. current' \in Moves(current)
  BY <1>2 DEF Highest
<1>4. /\ current' \in Versions /\ current' > current /\ Allowed(current')
      /\ current' \in PreReleases \/ current' \in Releases
      /\ \A r \in Releases :
           current <= r /\ r < current' /\ Allowed(r) => Affecting(r) # {}
  BY <1>1, <1>3, MoveFacts
<1>5. installed' = installed /\ advisory' = advisory /\ kind' = kind /\ registry' = registry
  BY <1>2 DEF inputs
<1>6. current' \in Nat /\ Releases \subseteq Nat
  BY <1>1, <1>4, VersionsNat, ReleasesType
<1>7. TypeOK'
  <2>1. hops' \in 0..MaxHops
    BY <1>1, <1>2, VersionAssumption DEF TypeOK
  <2>2. withheld' \subseteq Versions
    BY <1>1, <1>2, PassedType DEF TypeOK
  <2> QED
    BY <1>1, <1>2, <1>4, <1>5, <2>1, <2>2 DEF TypeOK
<1>8. Reached'
  <2>1. Allowed(current)' /\ (current' \in PreReleases \/ current' \in Releases')
    BY <1>2, <1>4, Steady
  <2>2. installed' <= current'
    BY <1>1, <1>4, <1>5, <1>6 DEF Inv, Reached
  <2> QED
    BY <2>1, <2>2 DEF Reached
<1>9. Skipped'
  <2>1. ASSUME NEW r \in Releases, installed <= r, r < current', Allowed(r)
        PROVE  Affecting(r) # {}
    <3>1. r \in Nat
      BY <1>6
    <3>2. CASE r < current
      BY <2>1, <3>2 DEF Inv, Skipped
    <3>3. CASE current <= r
      BY <1>4, <2>1, <3>3
    <3> QED
      BY <1>1, <3>1, <3>2, <3>3
  <2> QED
    BY <1>2, <1>5, <2>1, Steady DEF Skipped
<1>10. Landed' /\ Stayed' /\ Blocked'
  BY <1>2 DEF Walking, Outcome, Landed, Stayed, Blocked
<1> QED
  BY <1>7, <1>8, <1>9, <1>10 DEF Inv

\* Ending the walk disturbs only withheld and outcome.
LEMMA FinishInv ==
  ASSUME Inv, NEW result, Finish(result),
         result \in [end : {"nowhere", "target", "blocked"},
                     target : Versions \cup {Unread}, clears : BOOLEAN,
                     introduces : SUBSET Advisories, malware : SUBSET Advisories]
  PROVE  /\ TypeOK' /\ Reached' /\ Skipped'
         /\ AtEnd' /\ current' = current /\ installed' = installed
         /\ UNCHANGED inputs
         /\ outcome' = result /\ PassedAt(current) \subseteq withheld'
<1>1. TypeOK /\ InputsOK /\ current \in Nat /\ installed \in Nat
  BY TypeInputs DEF Inv
<1>2. /\ Unconfirmed(current) = {} /\ Moves(current) = {}
      /\ withheld' = withheld \cup PassedAt(current)
      /\ outcome' = result /\ UNCHANGED inputs /\ current' = current /\ hops' = hops
  BY DEF Finish, Evaluable
<1>3. installed' = installed /\ advisory' = advisory /\ kind' = kind /\ registry' = registry
  BY <1>2 DEF inputs
<1>4. TypeOK'
  <2>1. withheld' \subseteq Versions
    BY <1>1, <1>2, PassedType DEF TypeOK
  <2>2. outcome' \in [end : {"walking", "nowhere", "target", "blocked", "unreadable"},
                      target : Versions \cup {Unread}, clears : BOOLEAN,
                      introduces : SUBSET Advisories, malware : SUBSET Advisories]
    BY <1>2
  <2> QED
    BY <1>1, <1>2, <1>3, <2>1, <2>2 DEF TypeOK
<1>5. Reached' /\ Skipped'
  BY <1>2, <1>3, Steady DEF Inv, Reached, Skipped
<1>6. AtEnd'
  BY <1>2, Steady DEF AtEnd
<1> QED
  BY <1>2, <1>3, <1>4, <1>5, <1>6

LEMMA ReportType ==
  ASSUME InputsOK, NEW v
  PROVE  /\ Introduced(v) \subseteq Advisories /\ MaliciousFrom(v) \subseteq Advisories
  BY AffectingFacts DEF Introduced, MaliciousFrom, StuckAt

LEMMA StayInv == Inv /\ Stay => Inv'
<1> SUFFICES ASSUME Inv, Stay PROVE Inv'
  OBVIOUS
<1> DEFINE result == Outcome("nowhere", Unread, FALSE, {}, {})
<1>1. current = installed /\ Finish(result)
  BY DEF Stay
<1>2. result \in [end : {"nowhere", "target", "blocked"},
                  target : Versions \cup {Unread}, clears : BOOLEAN,
                  introduces : SUBSET Advisories, malware : SUBSET Advisories]
  BY DEF Outcome
<1>3. result.end = "nowhere"
  BY DEF Outcome
<1> HIDE DEF result
<1>4. /\ TypeOK' /\ Reached' /\ Skipped' /\ AtEnd' /\ current' = installed'
      /\ UNCHANGED inputs /\ current' = current
      /\ outcome' = result /\ PassedAt(current) \subseteq withheld'
  BY <1>1, <1>2, FinishInv
<1>5. Stayed'
  BY <1>4, Steady DEF Stayed
<1>6. Landed' /\ Blocked'
  BY <1>3, <1>4 DEF Landed, Blocked
<1> QED
  BY <1>4, <1>5, <1>6 DEF Inv

LEMMA LandInv == Inv /\ Land => Inv'
<1> SUFFICES ASSUME Inv, Land PROVE Inv'
  OBVIOUS
<1> DEFINE result == Outcome("target", current, StuckAt(current) = {}, {}, {})
<1>1. /\ current # installed /\ Introduced(current) = {} /\ MalwareAt(current) = {}
      /\ Finish(result)
  BY DEF Land
<1>2. result \in [end : {"nowhere", "target", "blocked"},
                  target : Versions \cup {Unread}, clears : BOOLEAN,
                  introduces : SUBSET Advisories, malware : SUBSET Advisories]
  <2>1. current \in Versions \cup {Unread}
    BY DEF Inv, TypeOK
  <2>2. (StuckAt(current) = {}) \in BOOLEAN
    OBVIOUS
  <2> QED
    BY <2>1, <2>2 DEF Outcome
<1>3. /\ result.end = "target" /\ result.target = current
      /\ result.clears = (StuckAt(current) = {})
  BY DEF Outcome
<1> HIDE DEF result
<1>4. /\ TypeOK' /\ Reached' /\ Skipped' /\ AtEnd' /\ installed' = installed
      /\ UNCHANGED inputs /\ current' = current /\ outcome' = result
  BY <1>1, <1>2, FinishInv
<1>5. Landed'
  BY <1>1, <1>3, <1>4, Steady DEF Landed, Target
<1>6. Stayed' /\ Blocked'
  BY <1>3, <1>4 DEF Stayed, Blocked
<1> QED
  BY <1>4, <1>5, <1>6 DEF Inv

LEMMA BlockInv == Inv /\ Block => Inv'
<1> SUFFICES ASSUME Inv, Block PROVE Inv'
  OBVIOUS
<1> DEFINE result == Outcome("blocked", Unread, FALSE, Introduced(current),
                             MaliciousFrom(current))
<1>1. /\ current # installed
      /\ Introduced(current) # {} \/ MalwareAt(current) # {}
      /\ Finish(result)
  BY DEF Block
<1>2. result \in [end : {"nowhere", "target", "blocked"},
                  target : Versions \cup {Unread}, clears : BOOLEAN,
                  introduces : SUBSET Advisories, malware : SUBSET Advisories]
  <2>1. InputsOK
    BY TypeInputs DEF Inv
  <2> QED
    BY <2>1, ReportType DEF Outcome
<1>3. /\ result.end = "blocked" /\ result.introduces = Introduced(current)
      /\ result.malware = MaliciousFrom(current)
  BY DEF Outcome
<1> HIDE DEF result
<1>4. /\ TypeOK' /\ Reached' /\ Skipped' /\ installed' = installed
      /\ UNCHANGED inputs /\ current' = current /\ outcome' = result
  BY <1>1, <1>2, FinishInv
<1>5. Blocked'
  <2>1. /\ Introduced(current)' = Introduced(current)
        /\ MalwareAt(current)' = MalwareAt(current)
        /\ MaliciousFrom(current)' = MaliciousFrom(current)
    BY <1>4, Steady
  <2>2. current' # installed'
    BY <1>1, <1>4
  <2>3. /\ outcome'.introduces = Introduced(current)'
        /\ outcome'.malware = MaliciousFrom(current)'
    BY <1>3, <1>4, <2>1
  <2>4. Introduced(current)' # {} \/ MalwareAt(current)' # {}
    BY <1>1, <2>1
  <2> QED
    BY <2>2, <2>3, <2>4 DEF Blocked
<1>6. Stayed' /\ Landed'
  BY <1>3, <1>4 DEF Stayed, Landed
<1> QED
  BY <1>4, <1>5, <1>6 DEF Inv

LEMMA GiveUpInv == Inv /\ GiveUp => Inv'
<1> SUFFICES ASSUME Inv, GiveUp PROVE Inv'
  OBVIOUS
<1>1. /\ outcome' = Outcome("unreadable", Unread, FALSE, {}, {})
      /\ withheld' = {} /\ UNCHANGED inputs /\ current' = current /\ hops' = hops
  BY DEF GiveUp
<1>2. installed' = installed /\ advisory' = advisory /\ kind' = kind /\ registry' = registry
  BY <1>1 DEF inputs
<1>3. TypeOK'
  <2>1. outcome' \in [end : {"walking", "nowhere", "target", "blocked", "unreadable"},
                      target : Versions \cup {Unread}, clears : BOOLEAN,
                      introduces : SUBSET Advisories, malware : SUBSET Advisories]
    BY <1>1 DEF Outcome
  <2> QED
    BY <1>1, <1>2, <2>1 DEF Inv, TypeOK
<1>4. Reached' /\ Skipped'
  BY <1>1, <1>2, Steady DEF Inv, Reached, Skipped
<1>5. Landed' /\ Stayed' /\ Blocked'
  BY <1>1 DEF Outcome, Landed, Stayed, Blocked
<1> QED
  BY <1>3, <1>4, <1>5 DEF Inv

LEMMA StutterInv == Inv /\ UNCHANGED vars => Inv'
<1> SUFFICES ASSUME Inv, UNCHANGED vars PROVE Inv'
  OBVIOUS
<1>1. /\ UNCHANGED inputs /\ current' = current /\ hops' = hops
      /\ withheld' = withheld /\ outcome' = outcome
  BY DEF vars
<1>2. installed' = installed /\ advisory' = advisory /\ kind' = kind /\ registry' = registry
  BY <1>1 DEF inputs
<1>3. TypeOK'
  BY <1>1, <1>2 DEF Inv, TypeOK
<1>4. Reached' /\ Skipped'
  BY <1>1, <1>2, Steady DEF Inv, Reached, Skipped
<1>5. Landed' /\ Stayed' /\ Blocked'
  BY <1>1, <1>2, Steady DEF Inv, Landed, Stayed, Blocked, AtEnd, Target
<1> QED
  BY <1>3, <1>4, <1>5 DEF Inv

\* The strengthened invariant, for every content of the advisories and every
\* answer of the registry.
THEOREM Invariance == Spec => []Inv
<1>1. Inv /\ [Next]_vars => Inv'
  BY HopInv, StayInv, LandInv, BlockInv, GiveUpInv, StutterInv DEF Next, Done
<1> QED
  BY InitInv, <1>1, PTL DEF Spec


-----------------------------------------------------------------------------
(* What the walk promises *)

\* Every variable keeps the shape the code gives it.
THEOREM TypeCorrect == Spec => []TypeOK
  BY Invariance, PTL DEF Inv

\* Where the walk ended at a target, what is not clear there is stuck there.
LEMMA TargetFacts ==
  ASSUME Inv, outcome.end = "target", NEW a \in Checked,
         Verdict(advisory[a], Target) # "clear"
  PROVE  a \in StuckAt(current) /\ a \in Affecting(current) /\ Target = current
<1>1. Target = current /\ AtEnd
  BY DEF Inv, Landed
<1>2. Unconfirmed(current) = {} /\ Affecting(current) = StuckAt(current)
  BY <1>1, NoMoves DEF AtEnd
<1>3. Verdict(advisory[a], current) = "affected"
  BY <1>1, <1>2, VerdictCases DEF Unconfirmed
<1>4. a \in Affecting(current)
  BY <1>3 DEF Affecting
<1> QED
  BY <1>1, <1>2, <1>4

\* A target said to clear everything is affected by no advisory.
THEOREM Clean == Spec => []CleanTarget
<1>1. Inv => CleanTarget
  <2> SUFFICES ASSUME Inv, outcome.end = "target", outcome.clears,
                      NEW a \in Checked, Verdict(advisory[a], Target) # "clear"
               PROVE  FALSE
    BY DEF CleanTarget
  <2>1. StuckAt(current) = {}
    BY DEF Inv, Landed
  <2> QED
    BY <2>1, TargetFacts
<1> QED
  BY <1>1, Invariance, PTL

\* A target brings no advisory in, and is never a malicious release.
THEOREM NothingBroughtIn == Spec => []BringsNothingIn
<1>1. Inv => BringsNothingIn
  <2> SUFFICES ASSUME Inv, outcome.end = "target",
                      NEW a \in Checked, Verdict(advisory[a], Target) # "clear"
               PROVE  /\ Verdict(advisory[a], installed) # "clear"
                      /\ Stuck(advisory[a], Target)
                      /\ kind[a] # "malware"
    BY DEF BringsNothingIn
  <2>1. a \in StuckAt(current) /\ Target = current
    BY TargetFacts
  <2>2. Introduced(current) = {} /\ MalwareAt(current) = {}
    BY DEF Inv, Landed
  <2>3. kind[a] # "malware"
    BY <2>1, <2>2 DEF MalwareAt
  <2>4. Verdict(advisory[a], installed) # "clear"
    BY <2>1, <2>2, <2>3 DEF Introduced
  <2>5. Stuck(advisory[a], Target)
    BY <2>1 DEF StuckAt
  <2> QED
    BY <2>3, <2>4, <2>5
<1> QED
  BY <1>1, Invariance, PTL

\* The walk never steps over an installable release that nothing affects.
THEOREM NoOvershoot == Spec => []NothingCleanIsSkipped
<1>1. Inv => NothingCleanIsSkipped
  BY DEF Inv, Landed, Skipped, NothingCleanIsSkipped
<1> QED
  BY <1>1, Invariance, PTL

\* A target is never withdrawn, nor unlisted below a listed release.
THEOREM Installable == Spec => []TargetIsInstallable
<1>1. Inv => TargetIsInstallable
  BY DEF Inv, Landed, Reached, TargetIsInstallable
<1> QED
  BY <1>1, Invariance, PTL

\* "No fix" is said only where every known release above is still affected.
THEOREM NoFix == Spec => []NoFixMeansNoFix
<1>1. Inv => NoFixMeansNoFix
  <2> SUFFICES ASSUME Inv, outcome.end = "nowhere", withheld = {},
                      NEW a \in Affecting(installed), NEW r \in Releases, r > installed
               PROVE  Affects(advisory[a], r)
    BY DEF NoFixMeansNoFix
  <2>1. InputsOK /\ installed \in Nat /\ r \in Nat /\ r \in Versions
    BY TypeInputs, ReleasesType, VersionsNat DEF Inv
  <2>2. /\ Moves(installed) = {} /\ PassedAt(installed) = {}
    BY DEF Inv, Stayed, AtEnd
  <2>3. a \in StuckAt(installed) /\ a \in Advisories
    BY <2>2, NoMoves, AffectingFacts
  <2>4. Passed(advisory[a], installed) = {}
    BY Zenon, <2>2 DEF PassedAt
  <2>5. CASE \E w \in WindowsAt(advisory[a], installed) : LeaveWindow(w) = {}
    <3>1. PICK w \in WindowsAt(advisory[a], installed) : LeaveWindow(w) = {}
      BY <2>5
    <3>2. /\ w \in advisory[a].windows /\ Holds(w, installed)
          /\ w.low \in Nat /\ w.bound \in Nat
      BY <2>1, <2>3, ContentType DEF WindowsAt
    <3>3. PassedWindow(w) = {}
      BY Zenon, <2>4 DEF Passed
    <3>4. w.end \in {"lastAffected", "open"}
      <4>1. w.end \in {"fixed", "lastAffected", "open"}
        BY <3>2 DEF Holds
      <4>2. w.end = "fixed" /\ Allowed(w.bound) => LeaveWindow(w) # {}
        BY DEF LeaveWindow
      <4>3. w.end = "fixed" /\ ~Allowed(w.bound) => PassedWindow(w) # {}
        BY DEF PassedWindow
      <4> QED
        BY <3>1, <3>3, <4>1, <4>2, <4>3
    <3>5. CASE w.end = "open"
      BY <2>1, <3>2, <3>5 DEF Holds, Affects
    <3>6. CASE w.end = "lastAffected"
      <4>1. NextAbove(w.bound, Versions) = {} /\ PassedAbove(w.bound, Versions) = {}
        BY <3>1, <3>3, <3>6 DEF LeaveWindow, PassedWindow
      <4>2. ~(r > w.bound)
        BY <2>1, <3>2, <4>1, NothingAbove
      <4> QED
        BY <2>1, <3>2, <3>6, <4>2 DEF Holds, Affects
    <3> QED
      BY <3>4, <3>5, <3>6
  <2>6. CASE \E l \in ListsAt(advisory[a], installed) : LeaveList(l, installed) = {}
    <3>1. PICK l \in ListsAt(advisory[a], installed) : LeaveList(l, installed) = {}
      BY <2>6
    <3>2. PassedAbove(installed, Versions \ l) = {}
      BY Zenon, <2>4 DEF Passed
    <3>3. NextAbove(installed, Versions \ l) = {}
      BY <3>1 DEF LeaveList
    <3>4. r \in l
      BY <2>1, <3>2, <3>3, NothingAbove
    <3> QED
      BY <3>4 DEF ListsAt, Affects
  <2> QED
    BY <2>3, <2>5, <2>6 DEF StuckAt, Stuck
<1> QED
  BY <1>1, Invariance, PTL

\* No line fix of an advisory on the installed version lies above the target.
THEOREM LineFix == Spec => []LineFixAgrees
<1>1. Inv => LineFixAgrees
  <2> SUFFICES ASSUME Inv, outcome.end = "target", outcome.clears,
                      Target \in registry.published \ PreReleases,
                      NEW a \in Affecting(installed), NEW f \in LineFixes(a, installed)
               PROVE  f <= Target
    BY DEF LineFixAgrees
  <2>1. /\ InputsOK /\ installed \in Nat /\ current \in Nat
        /\ Target = current /\ installed <= current /\ Allowed(current)
    BY TypeInputs DEF Inv, Landed, Reached
  <2>2. a \in Advisories /\ a \in Checked /\ advisory[a].known
    BY AffectingFacts DEF Checked
  <2>3. ~Affects(advisory[a], Target)
    <3>1. StuckAt(current) = {}
      BY DEF Inv, Landed
    <3> QED
      BY <2>2, <3>1, TargetFacts, VerdictCases
  <2>4. PICK w \in WindowsAt(advisory[a], installed) :
          w.end = "fixed" /\ f \in InstallableFix(a, w.bound)
    BY Zenon DEF LineFixes
  <2>5. /\ w \in advisory[a].windows /\ Holds(w, installed)
        /\ w.low \in Nat /\ w.bound \in Nat
    BY <2>1, <2>2, <2>4, ContentType DEF WindowsAt
  <2>6. w.bound <= Target
    <3>1. ~Holds(w, Target)
      BY <2>3, <2>5 DEF Affects
    <3> QED
      BY <2>1, <2>4, <2>5, <3>1 DEF Holds
  <2>7. CASE Allowed(w.bound)
    BY <2>4, <2>6, <2>7 DEF InstallableFix
  <2>8. CASE ~Allowed(w.bound)
    <3>1. Target > w.bound
      BY <2>1, <2>5, <2>6, <2>8
    <3>2. Target \in ReleasesOf({a})
      BY <2>1 DEF ReleasesOf, Allowed
    <3>3. f \in Lowest({r \in ReleasesOf({a}) :
                          r > w.bound /\ Allowed(r) /\ ~Affects(advisory[a], r)})
      BY <2>4, <2>8 DEF InstallableFix
    <3> QED
      BY <2>1, <2>3, <3>1, <3>2, <3>3 DEF Lowest
  <2> QED
    BY <2>7, <2>8
<1> QED
  BY <1>1, Invariance, PTL

\* Every step goes up, out of every window that has a way out.
THEOREM Upward == Spec => EveryHopLeaves
<1>1. Inv /\ [Next]_vars =>
        [current' # current =>
           /\ current' > current
           /\ \A a \in Affecting(current) \ StuckAt(current) :
                \A w \in WindowsAt(advisory[a], current) : ~Holds(w, current')]_vars
  <2> SUFFICES ASSUME Inv, [Next]_vars, current' # current
               PROVE  /\ current' > current
                      /\ \A a \in Affecting(current) \ StuckAt(current) :
                           \A w \in WindowsAt(advisory[a], current) : ~Holds(w, current')
    OBVIOUS
  <2>1. Hop
    BY DEF Next, Stay, Land, Block, Finish, GiveUp, Done, vars
  <2>2. InputsOK /\ current \in Nat
    BY TypeInputs DEF Inv
  <2>3. current' \in Moves(current) /\ \A x \in Moves(current) : x <= current'
    BY <2>1 DEF Hop, Highest
  <2>4. current' > current /\ current' \in Nat
    BY <2>2, <2>3, MoveFacts, VersionsNat
  <2>5. ASSUME NEW a \in Affecting(current) \ StuckAt(current),
               NEW w \in WindowsAt(advisory[a], current)
        PROVE  ~Holds(w, current')
    <3>1. a \in Advisories /\ advisory[a].known
      BY AffectingFacts
    <3>2. PICK x \in LeaveWindow(w) : TRUE
      BY <2>5 DEF StuckAt, Stuck
    <3>3. x \in Exits(advisory[a], current)
      BY Zenon, <3>2 DEF Exits
    <3>4. x \in Moves(current)
      BY Zenon, <3>3 DEF Moves
    <3>5. current' >= x
      BY <2>2, <2>3, <2>4, <3>4, MoveFacts, VersionsNat
    <3> QED
      BY <2>2, <2>4, <3>1, <3>2, <3>5, WindowExit
  <2> QED
    BY <2>4, <2>5
<1> QED
  BY <1>1, Invariance, PTL DEF Spec, EveryHopLeaves

\* A blocked walk names what blocks it, unless it stands on a pre-release.
THEOREM Explained == Spec => []BlockIsExplained
<1>1. Inv => BlockIsExplained
  <2> SUFFICES ASSUME Inv, outcome.end = "blocked", current \notin PreReleases,
                      outcome.introduces = {}
               PROVE  outcome.malware # {}
    BY DEF BlockIsExplained
  <2>1. /\ InputsOK /\ current \in Nat /\ current # installed
        /\ outcome.malware = MaliciousFrom(current) /\ MalwareAt(current) # {}
    BY TypeInputs DEF Inv, Blocked
  <2>2. Allowed(current) /\ current \in Releases
    BY <2>1 DEF Inv, Reached
  <2>3. PICK a \in MalwareAt(current) : TRUE
    BY <2>1
  <2>4. a \in Advisories /\ kind[a] = "malware" /\ a \in Affecting(current)
    BY <2>3, AffectingFacts DEF MalwareAt, StuckAt
  <2>5. Verdict(advisory[a], current) # "clear"
    BY <2>4 DEF Affecting
  <2>6. a \in MaliciousFrom(current)
    BY <2>1, <2>2, <2>4, <2>5 DEF MaliciousFrom
  <2> QED
    BY <2>1, <2>6
<1> QED
  BY <1>1, Invariance, PTL

-----------------------------------------------------------------------------
(* What the walk says it passed over, and how far it goes *)

\* What is reported as withheld is withheld: withdrawn or unlisted, and above the
\* installed version ("withdrawn releases the walk passed over", fix_target.rs).
WithheldIsTrue == \A r \in withheld : ~Allowed(r) /\ installed < r

\* Each hop passes a version at least.
HopsClimb == hops + installed <= current

\* The limit on the hops cuts no short walk off: where it alone ends the walk, the
\* walk has climbed past MaxHops versions.
LimitIsFar ==
  outcome.end = "unreadable" /\ current # Unread /\ Unconfirmed(current) = {} =>
    current >= installed + MaxHops

\* A version the walk has moved to that is a pre-release is one an advisory names as
\* its fix: no other step lands on one ("pre-releases are left out of targets as
\* always", registry.rs).
NamedAsFix(v) == \E a \in Checked : \E w \in advisory[a].windows : w.end = "fixed" /\ w.bound = v

StableUnlessNamed == current # installed /\ current \in PreReleases => NamedAsFix(current)

Extent == WithheldIsTrue /\ HopsClimb /\ LimitIsFar /\ StableUnlessNamed

LEMMA MoveIsNamed ==
  ASSUME NEW v, NEW x \in Moves(v), x \in PreReleases
  PROVE  NamedAsFix(x)
<1>1. PICK a \in Affecting(v) : x \in Exits(advisory[a], v)
  BY Zenon DEF Moves
<1>2. a \in Checked
  BY DEF Affecting
<1>3. \A b, keep : x \notin NextAbove(b, keep)
  BY DEF NextAbove, Lowest, Releases, ReleasesOf
<1>4. \/ \E w \in WindowsAt(advisory[a], v) : x \in LeaveWindow(w)
      \/ \E l \in ListsAt(advisory[a], v) : x \in LeaveList(l, v)
  BY Zenon, <1>1 DEF Exits
<1>5. PICK w \in WindowsAt(advisory[a], v) : x \in LeaveWindow(w)
  BY <1>3, <1>4 DEF LeaveList
<1>6. w.end = "fixed" /\ w.bound = x
  BY <1>3, <1>5 DEF LeaveWindow
<1> QED
  BY <1>2, <1>5, <1>6 DEF NamedAsFix, WindowsAt

\* What is passed over at a version lies above it and cannot be installed.
LEMMA PassedFacts ==
  ASSUME InputsOK, NEW v \in Nat, NEW r \in PassedAt(v)
  PROVE  ~Allowed(r) /\ v < r
<1>1. \A keep : \A b \in Nat : \A q \in PassedAbove(b, keep) : q \in Nat /\ ~Allowed(q) /\ q > b
  BY ReleasesType, VersionsNat DEF PassedAbove
<1>2. PICK a \in Affecting(v) : r \in Passed(advisory[a], v)
  BY Zenon DEF PassedAt
<1>3. a \in Advisories
  BY AffectingFacts
<1>4. ASSUME NEW w \in WindowsAt(advisory[a], v), r \in PassedWindow(w) PROVE ~Allowed(r) /\ v < r
  <2>1. /\ w \in advisory[a].windows /\ Holds(w, v) /\ w.bound \in Nat
    BY <1>3, ContentType DEF WindowsAt
  <2>2. CASE w.end = "fixed" /\ ~Allowed(w.bound)
    <3>1. r = w.bound \/ r \in PassedAbove(w.bound, Versions)
      BY <1>4, <2>2 DEF PassedWindow
    <3>2. v < w.bound
      BY <2>1, <2>2 DEF Holds
    <3>3. CASE r = w.bound
      BY <2>2, <3>2, <3>3
    <3>4. CASE r \in PassedAbove(w.bound, Versions)
      <4>1. r \in Nat /\ ~Allowed(r) /\ r > w.bound
        BY <1>1, <2>1, <3>4
      <4> QED
        BY <2>1, <3>2, <4>1
    <3> QED
      BY <3>1, <3>3, <3>4
  <2>3. CASE w.end = "lastAffected"
    <3>1. r \in PassedAbove(w.bound, Versions)
      BY <1>4, <2>3 DEF PassedWindow
    <3>2. v <= w.bound
      BY <2>1, <2>3 DEF Holds
    <3>3. r \in Nat /\ ~Allowed(r) /\ r > w.bound
      BY <1>1, <2>1, <3>1
    <3> QED
      BY <2>1, <3>2, <3>3
  <2> QED
    BY <1>4, <2>2, <2>3 DEF PassedWindow
<1>5. ASSUME NEW l \in ListsAt(advisory[a], v), r \in PassedAbove(v, Versions \ l)
      PROVE  ~Allowed(r) /\ v < r
  <2>1. r \in Nat /\ ~Allowed(r) /\ r > v
    BY <1>1, <1>5
  <2> QED
    BY <2>1
<1>6. \/ \E w \in WindowsAt(advisory[a], v) : r \in PassedWindow(w)
      \/ \E l \in ListsAt(advisory[a], v) : r \in PassedAbove(v, Versions \ l)
  BY Zenon, <1>2 DEF Passed
<1> QED
  BY <1>4, <1>5, <1>6

\* A step withholds nothing, or what is passed over where it is taken.
LEMMA WithheldGrows ==
  ASSUME Inv, [Next]_vars
  PROVE  /\ withheld' \subseteq withheld \cup PassedAt(current)
         /\ UNCHANGED inputs
         /\ \/ Hop
            \/ GiveUp
            \/ current' = current /\ hops' = hops /\ outcome'.end # "unreadable"
            \/ UNCHANGED vars
BY DEF Next, Hop, Stay, Land, Block, Finish, GiveUp, Done, vars, Outcome

LEMMA ExtentNext ==
  ASSUME Inv, Extent, [Next]_vars
  PROVE  Extent'
<1>1. /\ InputsOK /\ current \in Nat /\ installed \in Nat /\ hops \in Nat
      /\ installed <= current /\ MaxHops \in Nat
  BY TypeInputs, VersionAssumption DEF Inv, Reached, TypeOK
<1>2. UNCHANGED inputs /\ installed' = installed
  BY WithheldGrows DEF inputs
<1>3. ASSUME NEW r \in withheld' PROVE ~Allowed(r) /\ installed < r
  <2>1. CASE r \in withheld
    BY <2>1 DEF Extent, WithheldIsTrue
  <2>2. CASE r \in PassedAt(current)
    <3>1. ~Allowed(r) /\ current < r
      BY <1>1, <2>2, PassedFacts
    <3>2. r \in Nat
      BY <1>1, <2>2, PassedType, VersionsNat
    <3> QED
      BY <1>1, <3>1, <3>2
  <2> QED
    BY <2>1, <2>2, WithheldGrows
<1>4. WithheldIsTrue'
  BY <1>2, <1>3, Steady DEF WithheldIsTrue
<1>9. \A v : NamedAsFix(v)' = NamedAsFix(v)
  BY <1>2 DEF NamedAsFix, Checked, inputs
<1>10. NamedAsFix(current)' = NamedAsFix(current')
  BY <1>2 DEF NamedAsFix, Checked, inputs
<1>11. current' = current => StableUnlessNamed'
  BY <1>2, <1>9, <1>10 DEF Extent, StableUnlessNamed
<1>5. CASE Hop
  <2>1. current' \in Moves(current) /\ hops' = hops + 1 /\ outcome' = Walking
    BY <1>5 DEF Hop, Highest, Evaluable
  <2>2. current' > current /\ current' \in Nat
    BY <1>1, <2>1, MoveFacts, VersionsNat
  <2>3. HopsClimb'
    BY <1>1, <1>2, <2>1, <2>2 DEF Extent, HopsClimb
  <2>4. LimitIsFar'
    BY <2>1 DEF LimitIsFar, Walking, Outcome
  <2>5. current' \in PreReleases => NamedAsFix(current')
    BY <2>1, MoveIsNamed
  <2>6. StableUnlessNamed'
    BY <1>10, <2>5 DEF StableUnlessNamed
  <2> QED
    BY <1>4, <2>3, <2>4, <2>6 DEF Extent
<1>6. CASE GiveUp
  <2>1. /\ current' = current /\ hops' = hops
        /\ hops = MaxHops \/ current = Unread \/ Unconfirmed(current) # {}
    BY <1>6 DEF GiveUp
  <2>2. HopsClimb'
    BY <1>2, <2>1 DEF Extent, HopsClimb
  <2>3. LimitIsFar'
    <3>1. Unconfirmed(current)' = Unconfirmed(current)
      BY <1>2, <2>1, Steady
    <3> QED
      BY <1>1, <1>2, <2>1, <2>2, <3>1 DEF HopsClimb, LimitIsFar
  <2> QED
    BY <1>4, <1>11, <2>1, <2>2, <2>3 DEF Extent
<1>7. CASE current' = current /\ hops' = hops /\ outcome'.end # "unreadable"
  BY <1>2, <1>4, <1>7, <1>11 DEF Extent, HopsClimb, LimitIsFar
<1>8. CASE UNCHANGED vars
  <2>1. Unconfirmed(current)' = Unconfirmed(current)
    BY <1>8, <1>2, Steady DEF vars
  <2> QED
    BY <1>2, <1>4, <1>8, <1>11, <2>1 DEF vars, Extent, HopsClimb, LimitIsFar
<1> QED
  BY <1>5, <1>6, <1>7, <1>8, WithheldGrows

\* What TargetIsStable leaves of the promise about pre-releases: a target that is one
\* is the fix some advisory names.
TargetIsStableOrNamed ==
  outcome.end = "target" /\ Target \in PreReleases => NamedAsFix(Target)

LEMMA ExtentHolds == Spec => []Extent
<1>1. Init => Extent
  <2> SUFFICES ASSUME Init PROVE Extent
    OBVIOUS
  <2>1. installed \in Nat /\ current = installed /\ hops = 0 /\ withheld = {} /\ outcome = Walking
    BY InitInv, TypeInputs DEF Init, Inv
  <2> QED
    BY <2>1 DEF Extent, WithheldIsTrue, HopsClimb, LimitIsFar, StableUnlessNamed, Walking, Outcome
<1>2. Inv /\ Extent /\ [Next]_vars => Extent'
  BY ExtentNext
<1> QED
  BY <1>1, <1>2, Invariance, PTL DEF Spec

\* The side list holds nothing but withheld releases above the installed version, and
\* the hop limit ends no walk that has not climbed past that many versions.
THEOREM WalkExtent == Spec => [](WithheldIsTrue /\ LimitIsFar)
<1>1. Extent => WithheldIsTrue /\ LimitIsFar
  BY DEF Extent
<1> QED
  BY <1>1, ExtentHolds, PTL

\* The one way a pre-release becomes a target is as the fix an advisory names.
THEOREM PreReleaseOnlyAsFix == Spec => []TargetIsStableOrNamed
<1>1. Inv /\ Extent => TargetIsStableOrNamed
  BY DEF Inv, Landed, Extent, StableUnlessNamed, TargetIsStableOrNamed
<1> QED
  BY <1>1, Invariance, ExtentHolds, PTL
=============================================================================
