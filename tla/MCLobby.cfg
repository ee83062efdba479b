SPECIFICATION MCSpec
CONSTANTS
  s1 = s1
  s2 = s2
  s3 = s3
  n1 = n1
  Sessions = {s1, s2, s3}
  NoSession = NoSession
  MaxPlayers = 2
  ReleaseDelay = 1
  BotDelay = 1
  Names = {n1}
  EnableBots = TRUE
  AutoStartDelay = 0
  MaxEncounters <- TwoRandom
  MaxGames = 2
  MaxToken = 2
  Capacity = 2
SYMMETRY Symmetry
INVARIANTS
  OnceInEncounter
  GamesAreKnown
PROPERTIES
  RandomGamesWait
CHECK_DEADLOCK FALSE
