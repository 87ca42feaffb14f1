\* Two institutions, two wallets, one nonce: expiry, rescoring and revocation against the gate.
SPECIFICATION Spec
CONSTANTS
    Institutions = {i1, i2}
    Wallets = {w1, w2}
    Keys = {k1}
    Jurisdictions = {us}
    ProofIds = {}
    KycGrants <- Expiring
    ZkGrants = {}
    RiskScores = {60}
    TrustTerms = {}
    MAX_TRUSTED_INSTITUTIONS = 1
    U64Max = 2
    MaxTime = 2
    None = None
    Mints = {m1}
    Nonces = {n1}
    Amounts = {2}
    PolicyIds = {q1}
    PolicyChoices <- TravelRulePolicy
    InitialBalance = 3
SYMMETRY InstitutionAndWalletSymmetry
INVARIANT
    CountersCoverAccounts
PROPERTY
    TokensLeaveOnlyThroughTheGate
