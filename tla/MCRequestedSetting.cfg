CONSTANTS
    Entities       = {e1, e2}
    GearMin        = 1
    GearMax        = 3
    ThermostatMin  = 5
    ThermostatMax  = 6
    Unset          = Unset
    MaxTargets     = 1
    MaxModeChanges = 1
    MaxTimeouts    = 1
    MaxRestarts    = 1
    MaxReloads     = 1
    MaxBlindWaits  = 1
    MaxTogether    = 2
SPECIFICATION FairSpec
INVARIANTS
    TypeOK
    
PROPERTIES
    SettingConverges
