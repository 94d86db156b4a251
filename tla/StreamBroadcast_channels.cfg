CONSTANTS
  left = left
  right = right
  mix = mix
  Clients = {c1}
  Channels <- MCChannels
  StereoMix = mix
  Layout <- MCLayout
  Buffers = {b1, b2, b3, b4}
  QueueCap = 2
  None = None
  MaxFrames = 4
SPECIFICATION Spec
PROPERTIES SelectedAreAssigned
CHECK_DEADLOCK FALSE
