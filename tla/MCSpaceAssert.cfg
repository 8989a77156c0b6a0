SPECIFICATION Spec
CONSTANTS
    WIDTH = 3
    NoNet = NoNet
    MaxNetworks = 3
INVARIANT AssertionsHold
CHECK_DEADLOCK FALSE
