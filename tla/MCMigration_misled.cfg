CONSTANTS
    Migrator = {m1, m2}
    Session = {s}
    Dim = {384, 1024}
    Variable = {v, w}
    None = None
SPECIFICATION Spec
INVARIANTS SuccessMeansTheWidth
