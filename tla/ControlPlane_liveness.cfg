CONSTANTS
  c1 = c1
  c2 = c2
  r1 = r1
  r2 = r2
  mono = mono
  left = left
  Channels <- MCChannels
  StereoMix = mono
  None = none
  Clients <- MCOne
  Requests <- MCRequests
SPECIFICATION FairSpec
PROPERTIES MembersHeartbeat RemovedIsForgotten ImplementsRoster
CHECK_DEADLOCK FALSE
