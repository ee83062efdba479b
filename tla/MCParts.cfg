SPECIFICATION PartsSpec
CONSTANTS
  p1 = p1
  p2 = p2
  p3 = p3
  t1 = t1
  KickedOut = KickedOut
  NoEntity = NoEntity
  NotOver = NotOver
  NoWinner = NoWinner
  FeatureCount = 2
  SlotCount = 2
  Price <- FeaturePrices
  SlotPrice <- SlotPrices
  VictoryCoins = 2
  DefeatCoins = 1
  OldPreferences <- OldInstallations
  Purchases = {t1}
  Worth = 2
  Rewards = {1}
  MaxEarned = 3
  MaxPending = 1
INVARIANTS
  AccountIsRight
  SlotsAreOwned
  WidgetsSettle
  TablesAgree
  ArenaCanBeWalked
  DrawsSucceed
  ScreensAgree
  InputIsFollowed
  SettingsAreApplied
  SpritesShowTheContest
  ScriptIsFollowed
  ConfigIsWhole
  NothingIsMisread
  ReplayActsAsRecorded
  RegistrationGoesOn
CHECK_DEADLOCK FALSE
