CONSTANTS
    MaxBuilds = 3
    MaxFaults = 2
    NoImage = NoImage
SPECIFICATION Spec
INVARIANTS TypeOK ZeroDowntime
PROPERTIES DowntimeCauses RestoresAfterDeploys
CHECK_DEADLOCK FALSE
