SPECIFICATION TelegramSpec
CONSTANTS
  b1 = b1
  b2 = b2
  chat1 = chat1
  chat2 = chat2
  url1 = url1
  None = None
  Patch = {}
  Chat = {chat1, chat2}
  Url = {url1}
  Fields = {}
  MaxChannels = 0
  Bot = {b1, b2}
  TokenTTL = 1
  MaxTime = 1
  MaxTokens = 1
  MaxUpdates = 2
  MaxFaults = 1
CONSTRAINT ChatsAlike TimeBegins
INVARIANT
  TelegramTypeOK
  OneLinkPerToken
  ConfirmedWasHandled
  RepliesTellTheTruth
PROPERTY
  LinksAreKept
  StartAnswered
