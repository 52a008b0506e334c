CONSTANTS
  e1 = e1 e2 = e2 st1 = st1 st2 = st2 A = A B = B C = C srcA = srcA srcB = srcB prog = prog reader = reader
  i1 = i1 i2 = i2 k1 = k1 k2 = k2 f = f p = p d = d path1 = path1 None = None r1 = r1 r2 = r2 v1 = v1 v2 = v2
  Runs = {r1, r2}
  HostVals = {v1, v2}
  Engines = {e1, e2}
  Stores = {st1}
  Cap = 1
  Names = {A, B, C}
  Sources = {srcA, srcB}
  Mains = {prog, reader}
  NamesOf <- OneName
  Imports <- ImportTable
  NeedsRec = {srcA}
  NeedsHost = {reader}
  UsesAssumption = {prog}
  Decls = {d}
  PrimNames = {p}
  Impls = {i1, i2}
  Code <- SameCode
  PrimKeys = {k1, k2}
  Key <- OwnKeys
  Paths = {path1}
  Entries = {"alt"}
  Limits = {1}
  CompilerLimits = {"nestingLimit"}
  RuntimeLimits = {"stepLimit"}
  MaxOps = 1
  MaxMods = 2
  MaxRts = 1
SPECIFICATION Parts
SYMMETRY Symmetry
INVARIANTS FingerprintsFresh CacheSound ModulesLinked RuntimesFit OwnNamesKept RunsConsistent
PROPERTY TemplateFinal
CHECK_DEADLOCK FALSE
