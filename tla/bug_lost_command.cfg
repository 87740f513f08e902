SPECIFICATION Spec
CONSTANTS
    NumWheels = 1
    MaxLinearTarget = 2
    MaxAngularTarget = 1
    StartupSteps = 1
    Commands <- MCOneCommand
    NewDriverTypes <- MCNoTypes
    AlignmentQueries = FALSE
    Horizon = 3
    None = None
    MaxVelLinear = 4
    MaxVelAngular = 2
    MaxAccLinear = 1
    MaxDecLinear = 1
    MaxAccAngular = 1
    MaxDecAngular = 1
CHECK_DEADLOCK FALSE
INVARIANT
    CommandInForceIsTarget
