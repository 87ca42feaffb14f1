\* Networks of up to two, and chains of acceptances, among three institutions.
SPECIFICATION RegistrySpec
CONSTANTS
    Institutions = {i1, i2, i3}
    Wallets = {w1}
    Keys = {k1}
    Jurisdictions = {us, eu}
    ProofIds = {}
    KycGrants <- Grants
    ZkGrants = {}
    RiskScores = {}
    TrustTerms <- TwoTerms
    MAX_TRUSTED_INSTITUTIONS = 2
    U64Max = 3
    MaxTime = 2
    None = None
SYMMETRY InstitutionSymmetry
CONSTRAINT LongNetworksFirst
INVARIANTS
    ProvenanceWellFounded
    AcceptanceAddsNothing
    TrustNetworkSound
