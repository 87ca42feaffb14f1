\* Two institutions, two wallets, a review, an alert, one slow request.
SPECIFICATION FocusedSpec
CONSTANTS
    Institutions = {i1, i2}
    Wallets = {w1, w2}
    Jurisdiction <- OneJurisdiction
    TrustTerms <- LaxTerms
    Grants <- OneGrant
    Patches <- StatusPatches
    LevelNames = {"enhanced"}
    Answers = {"GREEN", "FINAL"}
    Ratings = {"severe"}
    Reviews = {r1}
    Alerts = {a1}
    Requests = {q1}
    MaxFailures = 1
    None = None
INVARIANTS
    CopiesShareTheHash
    OriginsWellFounded
    AttestedOnApproval
CHECK_DEADLOCK FALSE
PROPERTIES
    ReactivatedOnPurpose
    ReviewIsApplied
    SevereAlertRevokesAll
