SPECIFICATION Spec
CONSTANTS
  Axes = {"yaw"}
  NaN = NaN
  None = None
  HalfTurn = 2
  RateScale = 1
  AngleScale = 1
  WireMax = 5
  MaxAge = 2
  JumpMax = 0
  Defaults <- MCDefaults
  CalibTime = 1
  StillTime = 2
  StillStep = 0
  DefaultSettle = 3
  MaxSettle = 3
  MaxTravel = 1
  ReconnectDelay = 1
  BoardReplies <- MCReplies
  Configs <- MCConfigs
  AllowControl = {TRUE, FALSE}
  StartArmed = {TRUE, FALSE}
  AutoMotorsOn = {TRUE, FALSE}
  JogRates <- MCJogRates
  JogAngles <- MCJogAngles
  TrajGoals <- MCTrajGoals
  CalibGoals <- MCCalibGoals
  FrameChoices = {TRUE, FALSE}
  MotorRequests = {TRUE, FALSE}
  Fresh = 1
  Settles = {0}
  Skips = {TRUE, FALSE}
  Targets = {1}
VIEW View
INVARIANTS
  TypeOK
  ArmedAgrees
  MonitorNeverMoves
  NodeNeverQueuesMotion
  GoalsTracked
  OneClaimant
  CalibrationUndisturbed
PROPERTIES
  NoMotionAfterStop
  NoMotionAfterDrop
  SettledOnFreshSamples
  CalibGoalProtocol
  TrajGoalProtocol
