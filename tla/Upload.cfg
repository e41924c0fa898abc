SPECIFICATION Spec
CONSTANTS
    Uploads = {u1}
    Requests = {r1, r2, r3}
    Bytes = {a, b}
    Payloads <- MCPayloads
    Offsets <- MCOffsets
    Sizes <- MCSizes
    MaxBytes = 3
    NoUpload = NoUpload
SYMMETRY Symmetry
INVARIANTS
    ResumePoint
    StoredIsWhole
    CompleteIsStored
PROPERTIES
    CompleteIsFinal
    ImplementsLog
\* Once every upload is complete no chunk is admitted any more.
CHECK_DEADLOCK FALSE
