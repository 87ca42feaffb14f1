\* The wallet the travel rule record names against the receiver of the transfer.
SPECIFICATION Spec
CONSTANTS
    Institutions = {i1}
    Wallets = {w1, w2}
    Keys = {w1, w2}
    Jurisdictions = {us}
    ProofIds = {}
    KycGrants <- Lasting
    ZkGrants = {}
    RiskScores = {}
    TrustTerms = {}
    MAX_TRUSTED_INSTITUTIONS = 1
    U64Max = 2
    MaxTime = 1
    None = None
    Mints = {m1}
    Nonces = {n1}
    Amounts = {2}
    PolicyIds = {q1}
    PolicyChoices <- TravelRulePolicy
    InitialBalance = 3
INVARIANT
    TravelRuleNamesTheReceiver
