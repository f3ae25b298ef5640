CONSTANTS
    gate = gate
    Service = {gate}
    Gate = gate
    Modes = {"cluster", "single", "client"}
    WebModes = {"client"}
    MaxWork = 1
    MaxFaults = 1
SPECIFICATION FairSpec
INVARIANTS
    
    GracefulExitLosesNothing
PROPERTIES
    LostEntryIsRestored
    
CHECK_DEADLOCK FALSE
