SPECIFICATION Spec
CONSTANTS
    Workers = {w1, w2}
    MODALITIES = {"log", "trace"}
    Permits = 2
    Bundles <- SomeBundles
INVARIANTS
    TypeOK
    PermitsConserved
    NoLostWakeup
    ReportIsInformed
    EvidenceIsCurrent
PROPERTIES
    RunSpec
    EndsByCap
    EndsByAnswers
