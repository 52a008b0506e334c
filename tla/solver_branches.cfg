CONSTANTS
  m1 = m1  m2 = m2  m3 = m3  mr = mr  s = s  t = t  e = e  A = A  B = B  C = C
  c1 = c1  c2 = c2  c3 = c3  c4 = c4  c5 = c5  c6 = c6  c7 = c7  c8 = c8
  c9 = c9  c10 = c10  c11 = c11  c12 = c12
  Metas = {m1, m2, m3, mr}
  Skolems = {s, t, e}
  TyCons = {A, B, C}
  None = None
  Cts = {c1, c2, c3, c4, c5, c6, c7, c8, c9, c10, c11, c12}
  Nested = {c12}
  Scenarios <- Everything
  Kind <- Kinds
  Args <- Sides
  Locals <- Existentials
  ResultMeta <- Result
  Birth <- Births
  Instances <- FourInstances
  ResolveDepth = 3
  Family <- FamilyTable
  EagerTypes = {A, B}
  MaxDepth = 2
SPECIFICATION FairSpec
INVARIANTS HeldOnce StuckAreBlocked ScopeOwnership ClassesNeverLost
PROPERTIES OuterMetasUntouched SolveTerminates
CHECK_DEADLOCK FALSE
