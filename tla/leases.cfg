\* Two targets and a verification; leases of two units over a clock of three; two
\* runs that may overlap, in a role that bypasses row security and in one that does not.
SPECIFICATION Spec
CONSTANTS
  t1 = t1
  t2 = t2
  v1 = v1
  r1 = r1
  r2 = r2
  Target = {t1, t2}
  Verification = {v1}
  Run = {r1, r2}
  Duration = 2
  MaxTime = 3
  None = None
SYMMETRY MCSymmetry
PROPERTIES
  TaskAgreesWithFunction
  LapsedAndOnlyLapsed
