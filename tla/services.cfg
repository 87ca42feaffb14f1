\* Screenings, proofs, public calls and webhooks, each in turn.
SPECIFICATION ServicesSpec
CONSTANTS
    TransferScreenings = {t1}
    WalletScreenings = {w1}
    Ratings = {"lowRisk", "mediumRisk", "highRisk", "severe", "other"}
    RawScores <- SomeScores
    MaxRetries = 1
    MaxPolls = 2
    MaxFailures = 2
    NaN = NaN
    None = None
    Proofs = {p1}
    Submissions = {s1, s2}
    ProviderLevels <- SomeProviders
    Contents <- SomeContents
    ProofTtl = 1
    RowLifetime = 1
    Skew = 1
    MaxTime = 2
    MaxErrors = 1
    Missing = Missing
    Calls = {c1}
    KytWallets = {w1, w2}
    VolumePoints <- FewPoints
    Amounts = {999, 1000, 49999, 50000}
    Unreachable = Unreachable
    Unset = Unset
    Events = {e1, e2}
    Webhooks = {h1, h2}
    Subscribers <- EveryWebhook
    Notified = {e1}
    MaxAttempts = 2
    Concurrency = 1
    MaxCrashes = 1
    MaxThrows = 1
INVARIANTS
    ServicesTypeOK
    ClearedAgainstVerdictOnlyLate
    RecordedOnce
    StoredProofsWereValid
    PublicAnswersHold
    DeletedIsNeverCalled
    CallsAreRecorded
PROPERTIES
    ScreeningEnds
    ImplementsChannel
CHECK_DEADLOCK FALSE
