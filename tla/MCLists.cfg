CONSTANTS
    LIST_POISON1 = LIST_POISON1
    LIST_POISON2 = LIST_POISON2
    NULL = NULL
    Heads = {h1, h2}
    Entries = {e1, e2, e3}
SPECIFICATION Spec
INVARIANTS TypeOK RingsWellFormed
PROPERTY ImplementsSequences
SYMMETRY Symmetry
