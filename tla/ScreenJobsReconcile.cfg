SPECIFICATION Spec
CONSTANTS
  j1 = j1
  j2 = j2
  Job = {j1, j2}
  NoJob = NoJob
  MaxCli = 1
  MaxClock = 0
  Retention = 1
INVARIANTS ReconciledAreDead
