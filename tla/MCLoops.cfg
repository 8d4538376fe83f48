CONSTANTS
  Chats = {room, other}
  AllowedChats = {room}
  Updates <- MCUpdates
  NoOffset = NoOffset
  PageSize = 2
  BackoffMax = 2
  MaxUpdates = 3
  MaxStops = 2
  Beats = {clock, tick}
  Threshold = 2
  Proposals <- MCProposals
  MaxRuns = 3
  MaxStopped = 1
SPECIFICATION FairSpec
INVARIANTS PollIsFaithful MonitorIsFaithful
PROPERTIES EveryMessageArrives BacklogIsGraded
CHECK_DEADLOCK FALSE
