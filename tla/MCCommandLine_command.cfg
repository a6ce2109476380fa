CONSTANTS
    RrfK = 60
    Unit = 3660
    RetrieveK = 2
    Word <- Words
    Stopword = {"the"}
    FormFeed = "ff"
    Bucket <- Buckets
    Size = 2
    Overlap = 1
    RerankK = 2
    ContextK = 2
    Message <- NotFound
    SmallTalk <- Hello
    None = None
    Scale = 12
    Thresholds <- Floors
    Shell = {s1, s2}
    Namespace = {n1, n2}
    Source <- Sources
    Unreadable <- UnreadableFiles
    Targets <- TargetPaths
    Questions <- Asked
    Contextualizer = {"none", "heading-window"}
    Goldens <- GoldenSets
    MaxCommands = 3
SPECIFICATION Spec
SYMMETRY ShellSymmetry
INVARIANTS TypeOK SerialSavesLast AnswersTheMatch GoldenGate
