\* Two institutions, one wallet, revocation, expiry and reissue from proofs.
SPECIFICATION RegistrySpec
CONSTANTS
    Institutions = {i1, i2}
    Wallets = {w1}
    Keys = {k1, k2}
    Jurisdictions = {us}
    ProofIds = {p1}
    KycGrants <- WideGrants
    ZkGrants <- ZkGrantChoices
    RiskScores = {100, 101}
    TrustTerms <- OneTerm
    MAX_TRUSTED_INSTITUTIONS = 2
    U64Max = 3
    MaxTime = 3
    None = None
SYMMETRY InstitutionSymmetry
INVARIANT
    TypeOK
PROPERTY
    ValidityRegainedOnlyByProof
