CONSTANTS
    NULL = NULL
    Heads = {h1, h2}
    Elems = {e1, e2, e3, e4}
SPECIFICATION Spec
INVARIANTS TypeOK QueuesIntact EmptyMeansUnlinked
