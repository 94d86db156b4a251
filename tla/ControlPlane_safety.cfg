CONSTANTS
  c1 = c1
  c2 = c2
  r1 = r1
  r2 = r2
  mono = mono
  left = left
  Channels <- MCChannels
  StereoMix = mono
  None = none
  Clients <- MCClients
  Requests <- MCRequest
SYMMETRY MCSymmetry
SPECIFICATION Spec
INVARIANTS TypeOK NoOrphans SessionIsLive StreamedIsSynced
CHECK_DEADLOCK FALSE
