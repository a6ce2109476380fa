CONSTANTS
    Size = 4
    Overlap = 2
    Glue = 1
    Tokens = {1, 5}
    MaxLines = 5
SPECIFICATION Spec
INVARIANTS TypeOK CoversInOrder TablesReadable WithinBudget NotShredded
