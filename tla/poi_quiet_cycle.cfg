SPECIFICATION Spec
CONSTANTS
    Artifact = {a1, a2}
    MaxSequence = 2
    MaxFaults = 1
    FaultKinds = {"database"}
    Clock <- StillClock
SYMMETRY ArtifactSymmetry
PROPERTIES
    QuietCycleIsCurrent
