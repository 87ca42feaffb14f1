\* Two nonces, one institution: transfers and travel rule records interleaved.
SPECIFICATION Spec
CONSTANTS
    Institutions = {i1}
    Wallets = {w1, w2}
    Keys = {w1, w2}
    Jurisdictions = {us}
    ProofIds = {}
    KycGrants <- Lasting
    ZkGrants = {}
    RiskScores = {}
    TrustTerms = {}
    MAX_TRUSTED_INSTITUTIONS = 1
    U64Max = 2
    MaxTime = 1
    None = None
    Mints = {m1}
    Nonces = {n1, n2}
    Amounts = {1, 2}
    PolicyIds = {q1}
    PolicyChoices <- Thresholds
    InitialBalance = 3
SYMMETRY WalletAndNonceSymmetry
INVARIANTS
    TransferTypeOK
    RequiredTransfersBacked
    TracesAgree
PROPERTY
    ImplementsSettlement
