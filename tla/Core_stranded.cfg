SPECIFICATION Spec
CONSTANTS
  Axes = {"yaw"}
  NaN = NaN
  HalfTurn = 2
  RateScale = 2
  AngleScale = 1
  WireMax = 5
  MaxAge = 2
  JumpMax = 0
  TrackBound = 2
  Tilt <- FullTurn
  Pace <- AllPaces
  Settings = {"plain", "reversed"}
  Delays = {0}
  Defaults <- MCDefaults
  Configs <- MCConfigs
  Rates <- MCRates
  Angles <- MCAngles
  Reports <- MCReports
INVARIANTS
  NeverStranded
