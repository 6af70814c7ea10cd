SPECIFICATION Spec
CONSTANTS
  Callers = {c1}
  Pids = {d1, d2}
  Nobody = Nobody
  Backlog = 2
  CrashBound = 1
  DeathBound = 1
INVARIANTS
  StoppedMeansGone
  OneDaemon
  RecordIsTrue
PROPERTIES
  QuitLeadsToExit
  NodesEnd
