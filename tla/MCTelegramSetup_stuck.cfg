CONSTANTS
  good = good
  typo = typo
  mine = mine
  stranger = stranger
  NoFile = NoFile
  Empty = Empty
  Tokens <- MCTokens
  ValidTokens <- MCValidTokens
  Chats <- MCChats
  MaxTypos = 1
  MaxFaults = 1
SPECIFICATION FairSpec
PROPERTY EventuallyConfigured
CHECK_DEADLOCK FALSE
