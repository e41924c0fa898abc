SPECIFICATION Spec
CONSTANTS
    Lengths = {44, 52, 60}
    Sizes = {0, 1, 12, 16}
    Depths = {8, 16, 24}
    Channels = {1, 2}
    Windows = {2, 5, 8}
    Overlaps = {0, 1, 2, 3}
    Parts = 4
    MinWindow = 4
    MinSegment = 2
    Letters = {"a", "|", "?", "blind-lsb-v1"}
    Claims <- MCClaims
    Values <- MCValues
    Nonces <- MCNonces
    Capacities = {11, 22}
    MaxValue = 3
    SizeMod = 12
    MaxSigned = 2
    N = 3
INVARIANTS
    DecoderFollowsParser
    SegmentsCover
    DetectionIsExact
    BestIsCanonical
CHECK_DEADLOCK FALSE
