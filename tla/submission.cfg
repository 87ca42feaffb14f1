\* One transfer and two calls of the oracle that may race it and each other.
SPECIFICATION SubmissionSpec
CONSTANTS
    Transfers = {t1}
    Attests = {o1, o2}
    None = None
INVARIANTS
    SubmissionTypeOK
    CompletedHasEvidence
    AnswersHold
PROPERTY
    PendingIsResolved
CHECK_DEADLOCK FALSE
