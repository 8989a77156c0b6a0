SPECIFICATION Spec
CONSTANTS
    WIDTH = 3
    LAST = 7
    NoRange = NoRange
    NoDevice = NoDevice
    Refused = {6}
    MaxRanges = 2
    MaxIncluded = 3
INVARIANTS TypeOK RangesAreNamed SubnetsAreExact DeviceIsConfigured
PROPERTY BlockingCovers
