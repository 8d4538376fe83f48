CONSTANTS
  r1 = r1
  r2 = r2
  package = package
  init = init
  env = env
  pkgUid = pkgUid
  envUid = envUid
  Original = Original
  Absent = Absent
  Torn = Torn
  Runs <- MCTwoRuns
  Paths <- MCPaths
  Uids <- MCUids
  UidOf <- MCUidOf
  Denied <- MCDenied
  Existing <- MCExisting
  WritesMayFail = TRUE
  MaxCalls <- MCNoCalls
SPECIFICATION Spec
INVARIANTS EveryClosedRunIsRead
