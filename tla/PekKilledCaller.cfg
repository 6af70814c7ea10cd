SPECIFICATION Spec
CONSTANTS
  Callers = {c1}
  Pids = {d1, d2}
  Nobody = Nobody
  Backlog = 2
  CrashBound = 0
  DeathBound = 1
INVARIANTS
  NeverTwoDaemons
