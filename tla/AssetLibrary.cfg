SPECIFICATION Spec
CONSTANTS
    Ids = {i1, i2}
    Requests = {r1, r2, r3, r4}
    Media = {m1, m2}
    NoId = NoId
    NoMedia = NoMedia
SYMMETRY Symmetry
INVARIANTS
    RegisteredIsStored
    DigestsAgree
    TimelineIsTrue
PROPERTIES
    RegistrationIsFinal
    OnlyOverlapRevives
\* Every request is made once.
CHECK_DEADLOCK FALSE
