SPECIFICATION Spec
CONSTANTS
    None = None
    Letters = {"A", "B", "C", "D", "E"}
    LabelOf <- TheLabels
    Glued <- TheGlued
    Emphasis = "**"
    Naming = {"answer"}
    Negations = {"not"}
    Refusals <- TheRefusals
    Unanswerable <- TheUnanswerable
    Items <- TheItems
    Axis <- TheAxis
    Format <- TheFormat
    Options <- TheOptions
    Abstention <- TheAbstention
    Gold <- TheGold
    Order <- TheOrder
    Replies <- TheReplies
    Env <- TheEnv
    Plans <- ThePlans
    Evidence <- TheEvidence
    Vocabulary <- TheWords
    Verdicts = {0, 5, 10}
    MaxWords = 4
CHECK_DEADLOCK FALSE
INVARIANTS
    OptionsAreNamed
