CONSTANTS
    Task = {t1, t2}
    Content = {c1, odd}
    Name = {n1, asText}
    Path = {p1}
    Format = {pdf, text}
    Route <- MCRoute
    Scanned = {pdf}
    Reading = {r1, r2}
    Size = {small, large}
    ChunkCount <- MCChunkCount
    Deduplicates = TRUE
    Corruptible = {"parse", "ctx"}
    Garbled = Garbled
    Foreign <- MCForeign
    None = None
    c1 = c1
    c2 = c2
    odd = odd
    pdf = pdf
    text = text
    asText = asText
    small = small
    large = large
    Ingests = 2
    Meddlings = 1
SPECIFICATION BoundedSpec
INVARIANTS TypeOK
PROPERTIES StoresWholeDocuments StashIsAccountedFor
SYMMETRY Symmetry
