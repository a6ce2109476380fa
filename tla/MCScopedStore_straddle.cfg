CONSTANTS
    Session = {s1, s2}
    Conn = {c1, c2}
    Namespace = {n1}
    Document = {d1}
    Chunking = {short, long}
    ChunkCount <- MCChunkCount
    None = None
    short = short
    long = long
    empty = empty
SPECIFICATION Spec
INVARIANTS AnswersSeeOneChunking
