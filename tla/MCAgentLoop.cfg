CONSTANTS
  read = read
  write = write
  prune = prune
  bogus = bogus
  Calls <- MCCalls
  Malformed <- MCMalformed
  Gated <- MCGated
  MaxSteps = 3
  MaxBatch = 2
SPECIFICATION FairSpec
INVARIANTS NothingRunsTwice HumanDecidesOnce TraceIsTheRun
PROPERTIES KeepsContract
CHECK_DEADLOCK FALSE
