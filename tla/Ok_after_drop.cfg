SPECIFICATION Spec
CONSTANTS
  Axes = {"yaw"}
  NaN = NaN
  None = None
  HalfTurn = 2
  RateScale = 1
  AngleScale = 1
  WireMax = 5
  MaxAge = 2
  JumpMax = 0
  Defaults <- MCDefaults
  CalibTime = 2
  StillTime = 2
  StillStep = 0
  DefaultSettle = 3
  MaxSettle = 3
  MaxTravel = 1
  ReconnectDelay = 1
  BoardReplies <- MCReplies
  Configs <- MCConfigs
  AllowControl = {TRUE}
  StartArmed = {FALSE}
  AutoMotorsOn = {FALSE}
  JogRates <- MCJogRates
  JogAngles <- MCJogAngles
  TrajGoals <- MCTrajGoals
  CalibGoals <- MCCalibGoals
  FrameChoices = {FALSE}
  MotorRequests = {}
  Fresh = 1
  Settles = {0}
  Skips = {TRUE}
  Targets = {1}
PROPERTIES
  OkOnlyIfLinkHeld
