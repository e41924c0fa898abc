SPECIFICATION Spec
CONSTANTS
    Requests = {r1, r2, r3}
    Secrets = {s1, s2}
    FirstSecret = s1
    Default = "perceptual-v1"
    Others = {"custom"}
    MaxKeys = 3
    MaxVersions = 3
SYMMETRY Symmetry
INVARIANTS
    OneCurrent
    EmbeddedIsDetected
    FingerprintsArePublished
