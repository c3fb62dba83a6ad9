CONSTANTS
    Calls       = {c1}
    Listener    = Listener
    MaxLate     = 0
SPECIFICATION Spec
PROPERTIES
    AutoNeverVentilates
