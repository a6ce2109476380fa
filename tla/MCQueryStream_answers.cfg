CONSTANTS
    RrfK = 4
    Unit = 420
    RetrieveK = 4
    Chunk = {a, b, c, d}
    RerankK = 4
    ContextK = 4
    Score = {0, 1, 2}
    MinScore = 1
    MaxMarker = 5
    MaxFragments = 3
SPECIFICATION Spec
SYMMETRY ChunkSymmetry
INVARIANTS TypeOK EventsInOrder CompleteMatchesTheStream GroundedMeansSources ChannelsReinforce
