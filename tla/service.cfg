SPECIFICATION ServiceSpec
CONSTANTS
  N = 3
  StopOrder <- FirstStopsFirst
  Timeout = 3
  Drain = 1
  Reentrant = FALSE
  None = None
  Refused = Refused
  MaxCauseDepth = 2
  Callers = {l1, l2, l3}
  Rows <- MCRows
  Bodies <- MCBodies
  Params <- MCParams
  Limits = {1, 2}
  Window = 2
  MaxTime = 3
  MaxFaults = 1
  Specs <- MCSpecs
  Sources <- MCSources
  Documents <- MCDocuments
  Json <- MCJson
  Split <- MCSplit
  MaxConditionDepth = 3
  Ticks = 2
  Signers <- MCSigners
  Verifiers <- MCVerifiers
  ClaimSets <- MCClaimSets
  Moments = {1, 2, 5, 7, 9}
  FragmentsIn <- MCFragmentsIn
  Loggers <- MCLoggers
  Logged <- MCLogged
  CorrelationIds <- MCCorrelationIds
  Failures <- MCFailures
  Requests <- MCRequests
  Configs <- MCConfigs
  Options <- MCOptions
  Connections = {n1, n2, n3}
  Runs = {r1, r2, r3, r4}
  NoId = NoId
SYMMETRY MCSymmetry
INVARIANTS
  OkMeansDown ReportIsExact DeadlineKept
  OverrunIsOverlap CounterIsTheWindow TwiceAtMost SameWork
  TokensAreBelieved LogsHoldNoSecret DefectsAreReported ErrorsSurviveTheWire CurrentIsInnermost
PROPERTIES
  StopsInOrder ReadyOnlyWhileRunning ShutdownEnds ServerDrains
