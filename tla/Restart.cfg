\* One task that stops once, with ports that never fail.
SPECIFICATION LifecycleSpec
CONSTANTS
  NULL = NULL
  Tasks = {t1}
  Keys = {archive}
  MaxAttempts = 2
  PortsFail = FALSE
  MaxWrites = 1
  MaxCrashes = 1
  MaxOverruns = 0
INVARIANT RestartResumes
CHECK_DEADLOCK FALSE
