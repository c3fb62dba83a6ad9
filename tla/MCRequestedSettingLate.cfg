CONSTANTS
    Entities       = {e1}
    GearMin        = 1
    GearMax        = 3
    ThermostatMin  = 5
    ThermostatMax  = 6
    Unset          = Unset
    MaxTargets     = 0
    MaxModeChanges = 0
    MaxTimeouts    = 1
    MaxRestarts    = 0
    MaxReloads     = 0
    MaxBlindWaits  = 0
    MaxTogether    = 2
SPECIFICATION Spec
INVARIANTS
    OneStepAhead
