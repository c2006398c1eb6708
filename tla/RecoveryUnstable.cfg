SPECIFICATION Spec
CONSTANTS
    Instances = {i1}
    MaxStarts = 2
    None = None
    Configs <- ThreeConfigs
    FailureThreshold = 2
    SuccessThreshold = 2
    RecoveryThreshold = 2
CHECK_DEADLOCK FALSE
PROPERTY LeavesRecovered
