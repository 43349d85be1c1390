SPECIFICATION Spec
CONSTANTS
  Axes = {"pitch", "roll"}
  NaN = NaN
  HalfTurn = 2
  RateScale = 2
  AngleScale = 1
  WireMax = 5
  MaxAge = 2
  JumpMax = 0
  TrackBound = 2
  Tilt <- FullTurn
  Pace <- AllPaces
  Settings = {"tight", "free", "reversed", "broken"}
  Delays = {0, 1}
  Defaults <- MCDefaults
  Configs <- MCConfigs
  Rates <- MCRates
  Angles <- MCAngles
  Reports <- MCReports
INVARIANTS
  TypeOK
  NoQueuedMotion
  StillFrameHolds
  FrameRespectsLimits
  FrameTargetsInside
  FrameNeedsFreshAngle
PROPERTIES
  TrackFollows
  ConfigRepaired
  HonoursAuthority
