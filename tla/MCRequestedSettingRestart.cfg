CONSTANTS
    Entities       = {e1}
    GearMin        = 1
    GearMax        = 3
    ThermostatMin  = 5
    ThermostatMax  = 6
    Unset          = Unset
    MaxTargets     = 1
    MaxModeChanges = 1
    MaxTimeouts    = 0
    MaxRestarts    = 1
    MaxReloads     = 0
    MaxBlindWaits  = 0
    MaxTogether    = 2
SPECIFICATION Spec
INVARIANTS
    LevelTargetInRange
