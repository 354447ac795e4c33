SPECIFICATION MinerSpec
CONSTANTS
    None = None
    Withheld = Withheld
    Datasets <- TheDatasets
    Commands <- TheCommands
    UNUSABLE_LABELS <- TheUnusable
    STRUCTURAL_LABELS <- TheStructural
    N_DISTRACTORS = 3
    MIN_DISPLACEMENT_M = 2
    MIN_MARGIN_M = 1
CHECK_DEADLOCK FALSE
INVARIANTS
    GoldReadsApart
