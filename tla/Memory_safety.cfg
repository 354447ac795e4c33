SPECIFICATION Spec
CONSTANTS
    None = None
    MediaError = MediaError
    Systems <- TheSystems
    Films <- TheFilms
    Neighbourhoods <- TheNeighbourhoods
    NFrames = 2
    Cap = 4
    Retries = 2
    Questions = 2
CHECK_DEADLOCK FALSE
INVARIANTS
    EvidenceIsTrue
    CeilingSeesAll
PROPERTIES
    ImplementsRecall
