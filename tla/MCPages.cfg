\* The live feed's constants, then those of the other pages, in the order of Pages.
SPECIFICATION MCSpec
CONSTANTS
  HistorySamples = 2
  MaxSessions = 2
  MaxCrashes = 2
  MaxVisits = 2
  MaxFades = 2
  Hooks = {"page", "bar"}
  AlertRingMax = 2
  MaxCumulative = 2
  MaxTicks = 2
  MaxPresses = 2
  MaxFiles = 2
  MaxFetches = 3
  KMin = 2
  KMax = 4
  Typed = {0, 3, 9}
  PresetK = 2
  MaxEdits = 2
  MaxSaves = 2
  MaxLost = 1
  Ifaces = {"if0", "if1"}
  First = "if0"
  Models <- MCModels
  FirstModel <- MCFirstModel
  MaxNames = 1
  MaxPosts = 2
  MaxFaults = 1
  BufferSize = 2
  QueueCap = 2
  MaxLines = 3
  MaxMoves = 2
  MaxDrops = 1
  EventRingCap = 4
  BlockEventRing = 3
  PageRows = 2
  MaxEnds = 6
  MaxFrames = 2
  MaxRestarts = 2
INVARIANTS
  RatesWithinSession
  OneFeed
  FadesTellTheLink
  LabelIsTrue
  DraftIsMeant
  LastPostHolds
  NewestAreShown
  AcksSurvive
  SnapshotIsKept
  DetailIsSelected
  EndsAreTold
PROPERTIES
  ShowsTheDaemon
  ShowsTheChannel
CHECK_DEADLOCK FALSE
