-------------------------------- MODULE Screening --------------------------------
(***************************************************************************)
(* Screening with Chainalysis: of a transfer before it is submitted, and   *)
(* of a wallet on request.  The subject is registered, the assessment is   *)
(* polled for until a deadline, mapped to the platform's score, and saved. *)
(*                                                                         *)
(* Every call is made by one client that tries again after an error that   *)
(* may pass.  Its backoff, and its waits for the rate limit, are the delay *)
(* between two steps; the deadline may pass between any two polls.         *)
(***************************************************************************)
EXTENDS Integers, FiniteSets

CONSTANTS
    TransferScreenings,     \* screenings of a transfer, screenTransferPreExecution
    WalletScreenings,       \* screenings of a wallet, screenWalletAddress
    Ratings,                \* ratings Chainalysis gives
    RawScores,              \* its scores, in tenths of a point, or NaN for none
    MaxRetries,             \* attempts of one call after the first
    MaxPolls,               \* polls before the deadline, at most
    MaxFailures,            \* failing calls, in one behaviour
    NaN, None

ASSUME ScreeningBounds ==
    /\ TransferScreenings \cap WalletScreenings = {}
    /\ MaxRetries \in Nat /\ MaxPolls \in Nat \ {0} /\ MaxFailures \in Nat
    /\ RawScores \subseteq (Int \cup {NaN})
    /\ None \notin {"screening.cleared", "screening.flagged"}

Screenings == TransferScreenings \cup WalletScreenings

Approving == {"lowRisk", "mediumRisk"}

Known == Approving \cup {"highRisk", "severe"}

\* What a screening goes by when nobody has rated it in time.
TimeoutAssessment == [rating |-> "mediumRisk", riskScore |-> 50]

Assessments == [rating : Ratings, riskScore : RawScores] \cup {TimeoutAssessment}

ScreeningCalls == {"registering-wallet", "registering", "polling"}

ScreeningSteps == ScreeningCalls \cup
    {"idle", "waiting", "asking-for-alerts", "saving", "auditing", "touching-entity",
     "done", "failed"}

VARIABLES
    screening,      \* screening[s]: the step, the attempt, and what it knows
    registered,     \* registered[s]: registrations that Chainalysis holds
    verdict,        \* verdict[s]: its assessment of the subject
    results,        \* results[s]: the row of screening_results
    audit,          \* audit[s]: the event written to the audit log
    failures

screeningVars == <<screening, registered, verdict, results, audit, failures>>
chainalysis == <<registered, verdict>>

ScreeningInit ==
    /\ screening = [s \in Screenings |-> [step |-> "idle", attempt |-> 0, polls |-> 0,
                       assessment |-> None, timedOut |-> FALSE]]
    /\ registered = [s \in Screenings |-> 0]
    /\ verdict = [s \in Screenings |-> None]
    /\ results = [s \in Screenings |-> None]
    /\ audit = [s \in Screenings |-> None]
    /\ failures = 0

CallFails == failures < MaxFailures /\ failures' = failures + 1
-----------------------------------------------------------------------------
(* mapRiskScore and isApproved.                                            *)

\* Each rating has a band of the scale 0..100, and the raw score, 0 to 10,
\* a place in it.
Band(rating) ==
    CASE rating = "lowRisk"    -> [low |-> 0, width |-> 25]
      [] rating = "mediumRisk" -> [low |-> 26, width |-> 24]
      [] rating = "highRisk"   -> [low |-> 51, width |-> 34]
      [] rating = "severe"     -> [low |-> 86, width |-> 14]

Clamp(raw) == IF raw < 0 THEN 0 ELSE IF raw > 100 THEN 100 ELSE raw

\* Rounded half up; a raw score that is missing makes no number.
MapRiskScore(rating, raw) ==
    IF rating \notin Known THEN 50 ELSE IF raw = NaN THEN NaN
    ELSE Band(rating).low + (Clamp(raw) * Band(rating).width + 50) \div 100

IsApproved(rating) == rating \in Approving
-----------------------------------------------------------------------------
(* The client's request: the attempts of one call.                         *)

Goes(s, step) ==
    screening' = [screening EXCEPT ![s].step = step, ![s].attempt = 0]

StartScreening(s) ==
    /\ screening[s].step = "idle"
    /\ Goes(s, IF s \in WalletScreenings THEN "registering-wallet" ELSE "registering")
    /\ UNCHANGED <<chainalysis, results, audit, failures>>

\* A mutant of MayRetry: the loop has no end.
MayAlwaysRetry(s) == TRUE

MayRetry(s) == screening[s].attempt < MaxRetries

\* Status 5xx or 429, no answer in time, or one that is no JSON.
AttemptFails(s) ==
    /\ IF MayRetry(s)
       THEN screening' = [screening EXCEPT ![s].attempt = @ + 1]
       ELSE Goes(s, "failed")
    /\ failures' = failures + 1

\* Any other status is thrown, and nothing catches it.
CallRefused(s) ==
    /\ screening[s].step \in ScreeningCalls
    /\ failures < MaxFailures
    /\ Goes(s, "failed") /\ failures' = failures + 1
    /\ UNCHANGED <<chainalysis, results, audit>>

\* Chainalysis may know the subject again, or register it once more.
Registers(s) ==
    \/ registered' = [registered EXCEPT ![s] = @ + 1]
    \/ registered[s] > 0 /\ UNCHANGED registered

RegisterWalletAddress(s) ==
    /\ screening[s].step = "registering-wallet"
    /\ \/ Goes(s, "registering") /\ UNCHANGED failures
       \/ failures < MaxFailures /\ AttemptFails(s)
    /\ UNCHANGED <<chainalysis, results, audit>>

\* A POST that failed may have been carried out.
RegisterTransfer(s) ==
    /\ screening[s].step = "registering"
    /\ \/ Registers(s) /\ Goes(s, "polling") /\ UNCHANGED failures
       \/ failures < MaxFailures /\ AttemptFails(s) /\ (Registers(s) \/ UNCHANGED registered)
    /\ UNCHANGED <<verdict, results, audit>>

\* Chainalysis rates what is registered when it has come to it.
Assess(s) ==
    /\ registered[s] > 0 /\ verdict[s] = None
    /\ \E rating \in Ratings, raw \in RawScores :
          verdict' = [verdict EXCEPT ![s] = [rating |-> rating, riskScore |-> raw]]
    /\ UNCHANGED <<screening, registered, results, audit, failures>>
-----------------------------------------------------------------------------
(* pollForAssessment.                                                      *)

Assessed(s, assessment, timedOut) ==
    screening' = [screening EXCEPT ![s].assessment = assessment, ![s].timedOut = timedOut,
        ![s].attempt = 0, ![s].step = IF s \in WalletScreenings THEN "saving" ELSE "asking-for-alerts"]

\* 404, or an answer that holds no rating yet.
AfterUnrated(s) ==
    screening' = [screening EXCEPT ![s].step = "waiting", ![s].polls = @ + 1, ![s].attempt = 0]

GetTransferRiskAssessment(s) ==
    /\ screening[s].step = "polling"
    /\ \/ verdict[s] # None /\ Assessed(s, verdict[s], FALSE) /\ UNCHANGED failures
       \/ verdict[s] = None /\ AfterUnrated(s) /\ UNCHANGED failures
       \/ failures < MaxFailures /\ AttemptFails(s)
    /\ UNCHANGED <<chainalysis, results, audit>>

PollAgain(s) ==
    /\ screening[s].step = "waiting"
    /\ screening[s].polls < MaxPolls
    /\ Goes(s, "polling")
    /\ UNCHANGED <<chainalysis, results, audit, failures>>

\* The deadline is looked at between polls only.
GiveUpPolling(s) ==
    /\ screening[s].step = "waiting"
    /\ Assessed(s, TimeoutAssessment, TRUE)
    /\ UNCHANGED <<chainalysis, results, audit, failures>>
-----------------------------------------------------------------------------
(* The rest of screenTransferPreExecution and screenWalletAddress.         *)

\* The alerts only supplement the result: an error is swallowed.
GetAlerts(s) ==
    /\ screening[s].step = "asking-for-alerts"
    /\ Goes(s, "saving")
    /\ UNCHANGED <<chainalysis, results, audit, failures>>

Row(s) ==
    LET a == screening[s].assessment
    IN  [rating |-> a.rating, riskScore |-> MapRiskScore(a.rating, a.riskScore)]

\* The column for the score takes no NaN.
SaveResult(s) ==
    /\ screening[s].step = "saving"
    /\ \/ /\ Row(s).riskScore # NaN
          /\ results' = [results EXCEPT ![s] = Row(s)]
          /\ Goes(s, IF s \in WalletScreenings THEN "touching-entity" ELSE "auditing")
          /\ UNCHANGED failures
       \/ Row(s).riskScore = NaN /\ Goes(s, "failed") /\ UNCHANGED <<results, failures>>
       \/ CallFails /\ Goes(s, "failed") /\ UNCHANGED results
    /\ UNCHANGED <<chainalysis, audit>>

\* A mutant of EventOf: the score decides instead of the rating.
EventByScore(row) ==
    IF row.riskScore <= 50 THEN "screening.cleared" ELSE "screening.flagged"

EventOf(row) ==
    IF IsApproved(row.rating) THEN "screening.cleared" ELSE "screening.flagged"

\* A mutant of AuditScreening: the event is not waited for.
AuditUnawaited(s) ==
    /\ screening[s].step = "auditing"
    /\ \/ audit' = [audit EXCEPT ![s] = EventOf(results[s])] /\ UNCHANGED failures
       \/ CallFails /\ UNCHANGED audit
    /\ Goes(s, "done")
    /\ UNCHANGED <<chainalysis, results>>

AuditScreening(s) ==
    /\ screening[s].step = "auditing"
    /\ \/ /\ audit' = [audit EXCEPT ![s] = EventOf(results[s])]
          /\ Goes(s, "done") /\ UNCHANGED failures
       \/ CallFails /\ Goes(s, "failed") /\ UNCHANGED audit
    /\ UNCHANGED <<chainalysis, results>>

\* Only the time stamp of the wallet's entities is updated, never a score.
TouchEntity(s) ==
    /\ screening[s].step = "touching-entity"
    /\ \/ Goes(s, "done") /\ UNCHANGED failures
       \/ CallFails /\ Goes(s, "failed")
    /\ UNCHANGED <<chainalysis, results, audit>>
-----------------------------------------------------------------------------
Proceed(s) ==
    \/ RegisterWalletAddress(s) \/ RegisterTransfer(s)
    \/ GetTransferRiskAssessment(s) \/ PollAgain(s) \/ GiveUpPolling(s)
    \/ GetAlerts(s) \/ SaveResult(s) \/ AuditScreening(s) \/ TouchEntity(s)

ScreeningNext ==
    \E s \in Screenings : StartScreening(s) \/ Proceed(s) \/ CallRefused(s) \/ Assess(s)

\* Every call ends: the client aborts one without an answer.
ScreeningFairness == \A s \in Screenings : WF_screeningVars(Proceed(s))

ScreeningSpec == ScreeningInit /\ [][ScreeningNext]_screeningVars /\ ScreeningFairness
-----------------------------------------------------------------------------
(* Screenings, rows and scores keep to their types.                        *)
ScreeningTypeOK ==
    /\ screening \in [Screenings ->
          [step : ScreeningSteps, attempt : 0..MaxRetries, polls : 0..MaxPolls,
           assessment : Assessments \cup {None}, timedOut : BOOLEAN]]
    /\ registered \in [Screenings -> 0..(MaxRetries + 1)]
    /\ verdict \in [Screenings -> [rating : Ratings, riskScore : RawScores] \cup {None}]
    /\ results \in [Screenings -> [rating : Ratings \cup Approving, riskScore : 0..100]
                                  \cup {None}]
    /\ audit \in [Screenings -> {None, "screening.cleared", "screening.flagged"}]
    /\ failures \in 0..MaxFailures

(* A transfer is cleared although Chainalysis rates it otherwise only if   *)
(* the rating came after the deadline; never because of a call that failed *)
(* or of an answer without a rating.  Its stored score then lies in the    *)
(* half of the scale that is cleared, whatever the raw score was.          *)
ClearedAgainstVerdictOnlyLate ==
    \A s \in TransferScreenings : audit[s] = "screening.cleared" =>
        /\ screening[s].timedOut \/ (verdict[s] # None /\ verdict[s].rating \in Approving)
        /\ results[s].riskScore <= 50

(* Each screening ends, with its row and its event or with an error.       *)
ScreeningEnds ==
    \A s \in Screenings : screening[s].step # "idle" ~>
        \/ screening[s].step = "failed"
        \/ /\ screening[s].step = "done" /\ results[s] # None
           /\ s \in TransferScreenings => audit[s] # None
=============================================================================
