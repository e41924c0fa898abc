SPECIFICATION Spec
CONSTANTS
    Ids = {i1}
    Requests = {r1, r2, r3}
    Media = {m1, m2}
    NoId = NoId
    NoMedia = NoMedia
SYMMETRY Symmetry
PROPERTIES
    WithdrawnIsFinal
\* Every request is made once.
CHECK_DEADLOCK FALSE
