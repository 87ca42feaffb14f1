\* Two requests of one institution whose cache misses overlap.
SPECIFICATION KeySpec
CONSTANTS
    Institutions = {i1}
    Wallets = {w1}
    PiiFields = {name}
    MasterKeys = {m1}
    Calls = {c1, c2, c3}
    Zero = Zero
    None = None
INVARIANT
    StoredPiiIsReadable
CHECK_DEADLOCK FALSE
