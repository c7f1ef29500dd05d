SPECIFICATION Spec
CONSTANTS
    Artifact = {a1, a2}
    MaxSequence = 2
    MaxFaults = 2
    FaultKinds = {"database", "loss"}
    Clock <- StillClock
SYMMETRY ArtifactSymmetry
INVARIANTS
    SupersededPinIsTracked
