SPECIFICATION ChannelSpec
CONSTANTS
  p1 = p1
  p2 = p2
  chat1 = chat1
  url1 = url1
  None = None
  Patch = {p1, p2}
  Chat = {chat1}
  Url = {url1}
  Fields <- SomeFields
  MaxChannels = 3
CHECK_DEADLOCK FALSE
SYMMETRY Calls
INVARIANT
  ChannelsTypeOK
  ChannelsValid
