SPECIFICATION Spec
CONSTANTS
  Memoised = {bootstrap}
  PerRequest = {element}
  Covered = {bootstrap}
  Thread = {t1, t2}
  TTL <- MCTTL
  Lifetime = 1
  MaxFailures = 1
  Free = Free
  None = None
  Torn = Torn
INVARIANT FailedFetchIsServed
CHECK_DEADLOCK FALSE
