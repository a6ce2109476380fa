CONSTANTS
    Task = {t1, t2}
    Content = {c1, c2}
    Name = {n1}
    Path = {p1}
    Format = {pdf, text}
    Route <- MCRoute
    Scanned = {}
    Reading = {r1}
    Size = {large}
    ChunkCount <- MCChunkCount
    Deduplicates = FALSE
    Corruptible = {}
    Garbled = Garbled
    Foreign = {}
    None = None
    c1 = c1
    c2 = c2
    odd = odd
    pdf = pdf
    text = text
    asText = asText
    small = small
    large = large
    Ingests = 0
    Meddlings = 0
SPECIFICATION FilesSpec
PROPERTIES IngestsSucceed
