CONSTANTS
    Sizes <- MCSizes
    BatchSize = 2
SPECIFICATION Spec
INVARIANTS
    RecordedAuditIsReal
    FaultedTextIsReplaced
    FastPathWasPassed
PROPERTIES
    NoCallAfterOutage
    EveryArtifactSettles
