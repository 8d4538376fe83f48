CONSTANTS
  alice = alice
  stranger = stranger
  group = group
  Users <- OneUser
  Writers <- MCWriters
  Threads <- MCThreads
  Words <- TwoWords
  ChangeWords <- MCChangeWords
  Affirmative <- MCAffirmative
  Negative <- NoWords
  MaxAsks = 2
  MaxHeard = 3
  SendMayRaise = FALSE
  ReaderMayRaise = TRUE
  NoGate = NoGate
  Keys = {}
  NoKey = NoKey
  MaxSize = 1
  MaxEvents = 3
  MaxPolled = 3
  NoMessage = NoMessage
SPECIFICATION FairSpec
PROPERTIES AdmittedIsHandled GateReleased ShutdownEnds
