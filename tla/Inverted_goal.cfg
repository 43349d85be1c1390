SPECIFICATION LoopSpec
CONSTANTS
  Axes = {"pitch"}
  NaN = NaN
  None = None
  HalfTurn = 8
  RateScale = 1
  AngleScale = 1
  WireMax = 9
  MaxAge = 3
  Defaults <- MCDefaults
  CalibTime = 1
  StillTime = 1
  StillStep = 0
  DefaultSettle = 1
  MaxSettle = 1
  MaxTravel = 1
  ReconnectDelay = 1
  BoardReplies <- Unset
  Configs <- MCConfigs
  AllowControl = {TRUE}
  StartArmed = {TRUE}
  AutoMotorsOn = {FALSE}
  JogRates <- MCJogRates
  JogAngles <- Unset
  TrajGoals <- MCTrajGoals
  CalibGoals <- Unset
  FrameChoices = {FALSE}
  MotorRequests = {}
  Pace = 1
  Stops <- MCStops
  JumpMax = 1
  QuietMax = 4
  UpperLimit = 1
  Inverted = TRUE
  Targets = {1}
VIEW View
INVARIANTS
  ArrivalIsSeen
