SPECIFICATION Spec
CONSTANTS
  Axes = {"yaw"}
  NaN = NaN
  None = None
  HalfTurn = 2
  RateScale = 1
  AngleScale = 1
  WireMax = 5
  MaxAge = 2
  JumpMax = 0
  Defaults <- MCDefaults
  CalibTime = 1
  StillTime = 1
  StillStep = 0
  DefaultSettle = 1
  MaxSettle = 1
  MaxTravel = 1
  ReconnectDelay = 1
  BoardReplies <- MCOneReply
  Configs <- MCConfigs
  AllowControl = {TRUE}
  StartArmed = {FALSE}
  AutoMotorsOn = {FALSE}
  JogRates <- MCJogRates
  JogAngles <- MCJogAngles
  TrajGoals <- MCTrajGoals
  CalibGoals <- MCCalibGoals
  FrameChoices = {FALSE}
  MotorRequests = {}
  Fresh = 1
  Settles = {0}
  Skips = {TRUE}
  Targets = {1}
PROPERTIES
  NothingResumes
