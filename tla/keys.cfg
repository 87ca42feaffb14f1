\* Two institutions, one wallet each, four calls, two possible master keys.
SPECIFICATION KeySpec
CONSTANTS
    Institutions = {i1, i2}
    Wallets = {w1}
    PiiFields = {name, birth}
    MasterKeys = {m1, m2}
    Calls = {c1, c2, c3, c4}
    Zero = Zero
    None = None
SYMMETRY KeySymmetry
INVARIANTS
    ApiKeyImpliesDek
    CacheHoldsTheLiveKeys
    ZeroedInUseOnlyByOverlap
    RowsUnderOneKey
CHECK_DEADLOCK FALSE
