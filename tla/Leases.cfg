SPECIFICATION FairSpec
CONSTANTS
    MaxLeases = 2
INVARIANT RegistrationStands
PROPERTY CrashedDisappears
