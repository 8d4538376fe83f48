CONSTANTS
  Users = {alice, bob}
  Threads = {group, dm}
  Words <- MCWords
  Affirmative <- MCAffirmative
  Negative <- MCNegative
  MaxAsks = 2
  MaxHeard = 2
  SendMayRaise = TRUE
  NoGate = NoGate
  Keys = {main, dev}
  NoKey = NoKey
  MaxSize = 3
  MaxEvents = 5
SPECIFICATION FairSpec
INVARIANTS ApprovedByRequester BystandersIgnored NoRedundantWork AcceptedPushIsCovered HumanMessageKept
PROPERTIES GateCloses ImplementsApproval
CHECK_DEADLOCK FALSE
