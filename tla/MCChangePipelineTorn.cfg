CONSTANTS
  r1 = r1
  r2 = r2
  package = package
  init = init
  env = env
  pkgUid = pkgUid
  envUid = envUid
  Original = Original
  Absent = Absent
  Torn = Torn
  Runs <- MCOneRun
  Paths <- MCPaths
  Uids <- MCUids
  UidOf <- MCUidOf
  Denied <- MCDenied
  Existing <- MCExisting
  WritesMayFail = TRUE
  MaxCalls <- MCOneCall
SPECIFICATION Spec
PROPERTIES RefusedWriteLeavesFile
