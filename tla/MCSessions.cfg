SPECIFICATION FairSpec
CONSTANTS
  a1 = a1
  t1 = t1
  t2 = t2
  t3 = t3
  c1 = c1
  c2 = c2
  c3 = c3
  Addresses = {a1}
  Tokens = {t1, t2, t3}
  Requests <- MCRequests
  UserOf <- MCUserOf
  WellFormed = {c1, c2}
  MaxSession = 3
  SessionDelay = 1
  PendingDelay = 1
  BlacklistDelay = 1
  MinKarma <- Lowest
  MaxKarma = 1
  InitialKarma = 1
  DisconnectionKarma <- DisconnectionPenalty
  ShortGameKarma <- ShortGamePenalty
  GoodKarma = 1
  Absent = Absent
  Asking = Asking
  Refused = Refused
INVARIANTS
  SessionsAgree
PROPERTIES
  AnswersAreAlive
  EventuallyAnswered
  BlacklistEnds
CHECK_DEADLOCK FALSE
