SPECIFICATION Spec
CONSTANTS
  Nil = Nil
  Projects = {p1}
  Routes = {r1, r2}
  Domains = {d1}
  Calls = {c1}
  ProjectOf <- OneOwner
  DomainOf <- OneDomain
  Mode <- Legacy
  MaxVersion = 2
  MaxImports = 1
  MaxEvents = 8
INVARIANTS
  RollbackCanFinish
CHECK_DEADLOCK FALSE
