CONSTANTS
    Calls       = {c1, c2}
    Listener    = Listener
    MaxLate     = 0
SPECIFICATION Spec
PROPERTIES
    ModesPassThroughOff
