\* One recording of two utterances, an embedder that is swapped, two passes.
SPECIFICATION Spec
CONSTANTS
    Target = 5
    MaxLength = 5
    Overlap = 2
    BatchSize = 2
    BatchLength = 4
    MinWords = 2
    MaxWords = 3
    RrfK = 2
    TopK = 2
    ArmLimit = 2
    Bound = 3
    Failed = Failed
    None = None
    Models = {m1, m2}
    MaxPasses = 2
    MaxChanges = 2
    Segs = {1, 2}
    Texts <- MCTexts
    Names <- MCNames
    Summaries <- MCSummaries
SYMMETRY Symmetry
INVARIANTS
    RowsInv
    CutsLoseNothing
    RankingHolds
CHECK_DEADLOCK FALSE
