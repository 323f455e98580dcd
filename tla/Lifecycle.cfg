\* Two tasks that run and restore one job, with a process that stops, a lease
\* that runs out under its holder, failing ports and writes in between.
SPECIFICATION LifecycleSpec
CONSTANTS
  NULL = NULL
  Tasks = {t1, t2}
  Keys = {archive}
  MaxAttempts = 2
  PortsFail = TRUE
  MaxWrites = 3
  MaxCrashes = 1
  MaxOverruns = 1
INVARIANTS
  LifecycleTypeOK
  NothingVanishes
  RestoredAfterSuccess
PROPERTIES
  ProgressKept
  JobsSettle
CHECK_DEADLOCK FALSE
