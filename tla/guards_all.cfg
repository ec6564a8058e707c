SPECIFICATION Spec
CONSTANTS
    Corpus <- MCCorpus
    Codes <- MCCodes
    MaxTrace = 6
CHECK_DEADLOCK FALSE
INVARIANTS
    MeaningKept
    OnlyEnclosingCatch
PROPERTY EveryBodyEnds
