SPECIFICATION Spec
CONSTANTS
  Versions = {1, 2, 3, 4, 5}
  PreReleases = {4}
  Advisories = {a1, a2, a3}
  Contents <- MCContents
  Registries <- MCRegistries
  MaxHops = 3
SYMMETRY Symmetry
INVARIANTS
  TypeOK
  CleanTarget
  BringsNothingIn
  NothingCleanIsSkipped
  TargetIsInstallable
  NoFixMeansNoFix
  LineFixAgrees
  BlockIsExplained
PROPERTY EveryHopLeaves
