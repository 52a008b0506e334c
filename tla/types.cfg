SPECIFICATION Spec
CONSTANTS
  Seeds <- MCSeeds
  Peers <- MCSeeds
  Replacements <- MCReplacements
  SubstNames = {1, 2}
  NewEntries <- MCNewEntries
  MaxTypeSize = 6
  Families <- MCFamilies
  Aliases <- MCAliases
  Merge_ = 21
  Without_ = 22
  Lookup_ = 23
  MapRow_ = 24
  TypeKind <- K
  MaxReductionSize = 20
  MaxAliasDepth = 4
  Computation_ = 10
  Thunk_ = 11
  Record_ = 12
  MaxTFSteps = 30
  Equations <- MCEquations
  Branches <- MCBranches
  Bindings <- MCBindings
  Grounds <- MCGrounds
  FirstFresh = 5
  MaxScopes = 2
  MaxCalls = 2
  Ids = {1}
  Written <- MCWritten
  MaxTrail = 3
  Applications <- MCApplications
  MaxLearnt = 3
  Learnt <- MCLearnt
  Candidates <- MCCandidates
  AliasTables <- MCAliasTables
  DataTypes <- MCDataTypes
  Variant_ = 31
  MaxExhaustDepth = 32
  Unifier <- MCUnifier
  Scrutinees <- MCScrutinees
  GroundTypes <- MCGround
  Literals = {0, 1}
  MaxAlts = 2
  ModuleNames = {1, 2, 3}
  Core = 99
  CoreDecls <- MCCoreDecls
  Sources <- MCSources
  Private = {9}
INVARIANTS
  SubstitutionExact ComparisonExact UnifierExact FamiliesExact VerdictExact 
PROPERTIES
  AnswersKept
CHECK_DEADLOCK FALSE
