SPECIFICATION MCFairSpec
CONSTANTS
  s1 = s1
  s2 = s2
  s3 = s3
  n1 = n1
  Sessions = {s1}
  NoSession = NoSession
  MaxPlayers = 2
  ReleaseDelay = 1
  BotDelay = 1
  Names = {}
  EnableBots = TRUE
  AutoStartDelay = 0
  MaxEncounters <- TwoRandomOnly
  MaxGames = 1
  MaxToken = 2
  Capacity = 1
PROPERTIES
  FailedRequestEnds
CHECK_DEADLOCK FALSE
