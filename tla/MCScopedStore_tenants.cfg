CONSTANTS
    Session = {s1, s2}
    Conn = {c1, c2}
    Namespace = {n1, n2}
    Document = {d1}
    Chunking = {short, long, empty}
    ChunkCount <- MCChunkCount
    None = None
    short = short
    long = long
    empty = empty
SPECIFICATION Spec
INVARIANTS TypeOK OneChunking SearchesSeeWholeDocuments ReadsAreScoped PoolIsClean
PROPERTIES WritesAreScoped ImplementsCorpus
SYMMETRY Symmetry
