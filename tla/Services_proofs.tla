----------------------------- MODULE Services_proofs -----------------------------
(***************************************************************************)
(* Theorems about what the API does with other services.                   *)
(*                                                                         *)
(* Screening: for any screenings, ratings, scores and failing calls, a     *)
(* transfer is cleared on an approving verdict or after the deadline only. *)
(* ReclaimProofs: for any number of proofs and of requests that carry      *)
(* them, at any moments, a proof is recorded once, and only if it was      *)
(* valid when it was verified.  ComplianceApi: no answer without its       *)
(* event, no wallet verified that Sumsub did not find GREEN, and no score  *)
(* that a look-up can move out of its bounds.  The composition keeps the   *)
(* invariants of each, with those of WebhookDelivery.                      *)
(***************************************************************************)
EXTENDS MC_Services, WebhookDelivery_proofs


-----------------------------------------------------------------------------
(* Screening.                                                              *)

ScreeningRecord ==
    [step : ScreeningSteps, attempt : 0..MaxRetries, polls : 0..MaxPolls,
     assessment : Assessments \cup {None}, timedOut : BOOLEAN]

(* Steps of a screening whose subject is assessed, and whose row is saved. *)
AssessedSteps == {"asking-for-alerts", "saving", "auditing", "touching-entity", "done"}
SavedSteps == {"auditing", "touching-entity", "done"}

(* Steps that a poll is still to follow.                                   *)
BeforePollSteps == {"idle", "registering-wallet", "registering", "polling"}

(* Registrations are no more than attempts of the call; what is assessed   *)
(* is the verdict or the time-out's; the row is that assessment's, and the *)
(* event that row's.                                                       *)
ScreenedInv(s) ==
    LET me == screening[s]
    IN  /\ me.step \in {"idle", "registering-wallet"} => registered[s] = 0
        /\ me.step = "registering" => registered[s] <= me.attempt
        /\ me.step \in BeforePollSteps => me.polls < MaxPolls
        /\ me.step \in AssessedSteps =>
              /\ me.assessment \in Assessments
              /\ me.timedOut \/ (verdict[s] # None /\ me.assessment = verdict[s])
        /\ me.step \in SavedSteps => results[s] = Row(s) /\ Row(s).riskScore # NaN
        /\ audit[s] # None => me.step = "done" /\ audit[s] = EventOf(results[s])

ScreeningInv == ScreeningTypeOK /\ \A s \in Screenings : ScreenedInv(s)

-----------------------------------------------------------------------------
(* A score lies on the scale 0..100, and that of a rating which is cleared *)
(* in its lower half, whatever the raw score.                              *)
LEMMA ScoreInBand ==
    ASSUME NEW rating, NEW raw \in RawScores \cup {50}, MapRiskScore(rating, raw) # NaN
    PROVE  /\ MapRiskScore(rating, raw) \in 0..100
           /\ rating \in Approving => MapRiskScore(rating, raw) <= 50
<1>1. CASE rating \notin Known
  BY <1>1 DEF MapRiskScore, Known, Approving
<1>2. CASE rating \in Known
  <2>1. raw \in Int /\ MapRiskScore(rating, raw) =
            Band(rating).low + (Clamp(raw) * Band(rating).width + 50) \div 100
    BY <1>2, ScreeningBounds DEF MapRiskScore
  <2>2. PICK c \in 0..100 : c = Clamp(raw)
    BY <2>1 DEF Clamp
  <2>3. CASE rating = "lowRisk"
    BY <2>1, <2>2, <2>3 DEF Band, Approving
  <2>4. CASE rating = "mediumRisk"
    BY <2>1, <2>2, <2>4 DEF Band, Approving
  <2>5. CASE rating = "highRisk"
    BY <2>1, <2>2, <2>5 DEF Band, Approving
  <2>6. CASE rating = "severe"
    BY <2>1, <2>2, <2>6 DEF Band, Approving
  <2> QED
    BY <1>2, <2>3, <2>4, <2>5, <2>6 DEF Known, Approving
<1> QED
  BY <1>1, <1>2

(* The row of an assessed screening is one that the table takes.           *)
LEMMA RowType ==
    ASSUME ScreeningInv, NEW s \in Screenings,
           screening[s].assessment \in Assessments, Row(s).riskScore # NaN
    PROVE  /\ Row(s) \in [rating : Ratings \cup Approving, riskScore : 0..100]
           /\ Row(s).rating = screening[s].assessment.rating
           /\ Row(s).rating \in Approving => Row(s).riskScore <= 50
<1> DEFINE a == screening[s].assessment
<1>1. a.rating \in Ratings \cup Approving /\ a.riskScore \in RawScores \cup {50}
  BY DEF Assessments, TimeoutAssessment, Approving
<1>2. Row(s) = [rating |-> a.rating, riskScore |-> MapRiskScore(a.rating, a.riskScore)]
  BY DEF Row
<1> QED
  BY <1>1, <1>2, ScoreInBand

-----------------------------------------------------------------------------
(* How a step changes the record of a screening: what it keeps, and that   *)
(* the record stays of its type.                                           *)
OthersKept(s) == \A t \in Screenings \ {s} : screening'[t] = screening[t]

KnowsTheSame(s) ==
    /\ screening'[s].assessment = screening[s].assessment
    /\ screening'[s].timedOut = screening[s].timedOut

LEMMA GoesEffect ==
    ASSUME ScreeningTypeOK, NEW s \in Screenings, NEW step \in ScreeningSteps, Goes(s, step)
    PROVE  /\ screening' \in [Screenings -> ScreeningRecord] /\ OthersKept(s)
           /\ screening'[s].step = step /\ screening'[s].attempt = 0
           /\ screening'[s].polls = screening[s].polls /\ KnowsTheSame(s)
<1>1. screening \in [Screenings -> ScreeningRecord] /\ 0 \in 0..MaxRetries
  BY ScreeningBounds DEF ScreeningTypeOK, ScreeningRecord
<1> QED
  BY <1>1 DEF Goes, ScreeningRecord, OthersKept, KnowsTheSame

LEMMA AttemptEffect ==
    ASSUME ScreeningTypeOK, NEW s \in Screenings, failures < MaxFailures, AttemptFails(s)
    PROVE  /\ screening' \in [Screenings -> ScreeningRecord] /\ OthersKept(s)
           /\ \/ screening'[s].step = screening[s].step
                 /\ screening'[s].attempt = screening[s].attempt + 1
              \/ screening'[s].step = "failed"
           /\ screening'[s].polls = screening[s].polls /\ KnowsTheSame(s)
           /\ failures' \in 0..MaxFailures
<1>1. screening \in [Screenings -> ScreeningRecord] /\ "failed" \in ScreeningSteps
  BY DEF ScreeningTypeOK, ScreeningRecord, ScreeningSteps
<1>2. failures' \in 0..MaxFailures
  BY ScreeningBounds DEF AttemptFails, ScreeningTypeOK
<1>3. CASE MayRetry(s)
  <2>1. screening[s].attempt + 1 \in 0..MaxRetries
    BY <1>1, <1>3, ScreeningBounds DEF MayRetry, ScreeningRecord
  <2> QED
    BY <1>1, <1>2, <1>3, <2>1 DEF AttemptFails, ScreeningRecord, OthersKept, KnowsTheSame
<1>4. CASE ~MayRetry(s)
  BY <1>1, <1>2, <1>4, GoesEffect DEF AttemptFails
<1> QED
  BY <1>3, <1>4

LEMMA AssessedEffect ==
    ASSUME ScreeningTypeOK, NEW s \in Screenings, NEW a \in Assessments, NEW late \in BOOLEAN,
           Assessed(s, a, late)
    PROVE  /\ screening' \in [Screenings -> ScreeningRecord] /\ OthersKept(s)
           /\ screening'[s].step \in {"saving", "asking-for-alerts"}
           /\ screening'[s].assessment = a /\ screening'[s].timedOut = late
<1>1. screening \in [Screenings -> ScreeningRecord] /\ 0 \in 0..MaxRetries
  BY ScreeningBounds DEF ScreeningTypeOK, ScreeningRecord
<1>2. PICK step \in {"saving", "asking-for-alerts"} :
         screening' = [screening EXCEPT ![s].assessment = a, ![s].timedOut = late,
                                        ![s].attempt = 0, ![s].step = step]
  BY DEF Assessed
<1>3. step \in ScreeningSteps
  BY DEF ScreeningSteps
<1> DEFINE old == screening[s]
           new == [step |-> step, attempt |-> 0, polls |-> old.polls,
                   assessment |-> a, timedOut |-> late]
<1>4. old \in ScreeningRecord
  BY <1>1
<1>5. new \in ScreeningRecord
  BY <1>1, <1>3, <1>4 DEF ScreeningRecord
<1>6. screening' = [screening EXCEPT ![s] = new]
  <2> DEFINE r1 == [old EXCEPT !.assessment = a]
             r2 == [r1 EXCEPT !.timedOut = late]
             r3 == [r2 EXCEPT !.attempt = 0]
             r4 == [r3 EXCEPT !.step = step]
  <2>1. screening' = [screening EXCEPT ![s] = r4]
    BY <1>1, <1>2, Zenon
  <2>2. old = [step |-> old.step, attempt |-> old.attempt, polls |-> old.polls,
               assessment |-> old.assessment, timedOut |-> old.timedOut]
    BY <1>4 DEF ScreeningRecord
  <2>3. r1 = [step |-> old.step, attempt |-> old.attempt, polls |-> old.polls,
              assessment |-> a, timedOut |-> old.timedOut]
    BY <2>2
  <2> HIDE DEF r1
  <2>4. r2 = [step |-> old.step, attempt |-> old.attempt, polls |-> old.polls,
              assessment |-> a, timedOut |-> late]
    BY <2>3
  <2> HIDE DEF r2
  <2>5. r3 = [step |-> old.step, attempt |-> 0, polls |-> old.polls,
              assessment |-> a, timedOut |-> late]
    BY <2>4
  <2> HIDE DEF r3
  <2>6. r4 = new
    BY <2>5
  <2> QED
    BY <2>1, <2>6
<1> HIDE DEF new
<1>7. screening' \in [Screenings -> ScreeningRecord] /\ OthersKept(s) /\ screening'[s] = new
  BY <1>1, <1>5, <1>6 DEF OthersKept
<1> QED
  BY <1>7 DEF new

LEMMA UnratedEffect ==
    ASSUME ScreeningTypeOK, NEW s \in Screenings, screening[s].polls < MaxPolls, AfterUnrated(s)
    PROVE  /\ screening' \in [Screenings -> ScreeningRecord] /\ OthersKept(s)
           /\ screening'[s].step = "waiting" /\ KnowsTheSame(s)
<1>1. screening \in [Screenings -> ScreeningRecord] /\ "waiting" \in ScreeningSteps
  BY DEF ScreeningTypeOK, ScreeningRecord, ScreeningSteps
<1>2. screening[s].polls + 1 \in 0..MaxPolls /\ 0 \in 0..MaxRetries
  BY <1>1, ScreeningBounds DEF ScreeningRecord
<1> QED
  BY <1>1, <1>2 DEF AfterUnrated, ScreeningRecord, OthersKept, KnowsTheSame

-----------------------------------------------------------------------------
(* A step that changes one screening leaves what holds of the others.      *)
LEMMA OthersStay ==
    ASSUME ScreeningInv, NEW t \in Screenings,
           screening'[t] = screening[t], registered'[t] = registered[t],
           verdict'[t] = verdict[t], results'[t] = results[t], audit'[t] = audit[t]
    PROVE  ScreenedInv(t)'
<1>1. ScreenedInv(t)
  BY DEF ScreeningInv
<1> QED
  BY <1>1 DEF ScreenedInv, Row

(* What each variable of a type is, one by one.                            *)
LEMMA ScreeningTypeParts ==
    ASSUME ScreeningTypeOK
    PROVE  /\ screening \in [Screenings -> ScreeningRecord]
           /\ registered \in [Screenings -> 0..(MaxRetries + 1)]
           /\ verdict \in [Screenings -> [rating : Ratings, riskScore : RawScores] \cup {None}]
           /\ results \in [Screenings ->
                 [rating : Ratings \cup Approving, riskScore : 0..100] \cup {None}]
           /\ audit \in [Screenings -> {None, "screening.cleared", "screening.flagged"}]
           /\ failures \in 0..MaxFailures
BY DEF ScreeningTypeOK, ScreeningRecord

(* A screening that fails has nothing left to keep to but its event.       *)
LEMMA FailedHolds ==
    ASSUME ScreeningInv, NEW s \in Screenings, screening[s].step # "done",
           screening'[s].step = "failed", audit' = audit
    PROVE  ScreenedInv(s)'
<1>1. audit[s] = None
  BY DEF ScreeningInv, ScreenedInv
<1> QED
  BY <1>1 DEF ScreenedInv, AssessedSteps, SavedSteps, BeforePollSteps

(* The calls before the assessment.                                        *)
LEMMA RegisteringKeeps ==
    ASSUME ScreeningInv, NEW s \in Screenings,
           StartScreening(s) \/ RegisterWalletAddress(s) \/ RegisterTransfer(s) \/ CallRefused(s)
    PROVE  /\ ScreeningTypeOK' /\ ScreenedInv(s)'
           /\ \A t \in Screenings \ {s} : ScreenedInv(t)'
<1>1. ScreeningTypeOK /\ ScreenedInv(s)
  BY DEF ScreeningInv
<1>2. /\ screening[s].attempt \in 0..MaxRetries /\ registered[s] \in 0..(MaxRetries + 1)
      /\ failures \in 0..MaxFailures /\ MaxRetries \in Nat /\ MaxFailures \in Nat /\ MaxPolls > 0
  BY <1>1, ScreeningTypeParts, ScreeningBounds DEF ScreeningRecord
<1>3. audit[s] = None
  BY <1>1 DEF ScreenedInv, StartScreening, RegisterWalletAddress, RegisterTransfer, CallRefused,
              ScreeningCalls
<1>4. /\ UNCHANGED <<verdict, results, audit>>
      /\ registered' = registered \/ (registered[s] <= screening[s].attempt /\ Registers(s))
  BY <1>1 DEF StartScreening, RegisterWalletAddress, RegisterTransfer, CallRefused, chainalysis,
              ScreenedInv
<1>5. registered' \in [Screenings -> 0..(MaxRetries + 1)]
  BY <1>1, <1>2, <1>4, ScreeningTypeParts DEF Registers
<1>6. /\ screening' \in [Screenings -> ScreeningRecord] /\ OthersKept(s)
      /\ failures' \in 0..MaxFailures
  <2>1. {"registering-wallet", "registering", "polling", "failed"} \subseteq ScreeningSteps
    BY DEF ScreeningSteps, ScreeningCalls
  <2>2. CASE StartScreening(s)
    BY <1>1, <1>2, <2>1, <2>2, GoesEffect DEF StartScreening
  <2>3. CASE RegisterWalletAddress(s)
    BY <1>1, <1>2, <2>1, <2>3, GoesEffect, AttemptEffect DEF RegisterWalletAddress
  <2>4. CASE RegisterTransfer(s)
    BY <1>1, <1>2, <2>1, <2>4, GoesEffect, AttemptEffect DEF RegisterTransfer
  <2>5. CASE CallRefused(s)
    BY <1>1, <1>2, <2>1, <2>5, GoesEffect DEF CallRefused
  <2> QED
    BY <2>2, <2>3, <2>4, <2>5
<1>7. ScreeningTypeOK'
  BY <1>1, <1>4, <1>5, <1>6 DEF ScreeningTypeOK, ScreeningRecord
<1>8. \A t \in Screenings \ {s} : ScreenedInv(t)'
  <2>1. \A t \in Screenings \ {s} : registered'[t] = registered[t]
    BY <1>1, <1>4, ScreeningTypeParts DEF Registers
  <2> QED
    BY <1>4, <1>6, <2>1, OthersStay DEF OthersKept
<1>9. ScreenedInv(s)'
  <2>1. ASSUME screening'[s].step \in {"failed", "registering-wallet", "registering", "polling"},
               screening'[s].step = "registering-wallet" => registered'[s] = 0,
               screening'[s].step = "registering" => registered'[s] <= screening'[s].attempt,
               screening'[s].polls = screening[s].polls
        PROVE  ScreenedInv(s)'
    <3>1. screening[s].polls < MaxPolls \/ screening'[s].step = "failed"
      BY <1>1 DEF ScreenedInv, BeforePollSteps, ScreeningCalls, StartScreening,
         RegisterWalletAddress, RegisterTransfer, CallRefused
    <3> QED
      BY <1>3, <1>4, <2>1, <3>1 DEF ScreenedInv, AssessedSteps, SavedSteps, BeforePollSteps
  <2>2. CASE StartScreening(s)
    BY <1>1, <2>1, <2>2, GoesEffect DEF StartScreening, ScreenedInv, ScreeningSteps, ScreeningCalls,
       chainalysis
  <2>3. CASE RegisterWalletAddress(s)
    <3>1. registered' = registered /\ registered[s] = 0 /\ screening[s].step = "registering-wallet"
      BY <1>1, <2>3 DEF RegisterWalletAddress, ScreenedInv, chainalysis
    <3>2. CASE Goes(s, "registering")
      BY <1>1, <2>1, <3>1, <3>2, GoesEffect DEF ScreeningSteps, ScreeningCalls
    <3>3. CASE failures < MaxFailures /\ AttemptFails(s)
      BY <1>1, <2>1, <3>1, <3>3, AttemptEffect
    <3> QED
      BY <2>3, <3>2, <3>3 DEF RegisterWalletAddress
  <2>4. CASE RegisterTransfer(s)
    <3>1. registered[s] <= screening[s].attempt /\ screening[s].step = "registering"
      BY <1>1, <2>4 DEF RegisterTransfer, ScreenedInv
    <3>2. registered'[s] \in {registered[s], registered[s] + 1}
      BY <1>1, <2>4, ScreeningTypeParts DEF RegisterTransfer, Registers
    <3>3. CASE Goes(s, "polling")
      BY <1>1, <2>1, <3>3, GoesEffect DEF ScreeningSteps, ScreeningCalls
    <3>4. CASE failures < MaxFailures /\ AttemptFails(s)
      <4>1. /\ \/ screening'[s].step = "registering" /\ screening'[s].attempt = screening[s].attempt + 1
               \/ screening'[s].step = "failed"
            /\ screening'[s].polls = screening[s].polls
        BY <1>1, <3>1, <3>4, AttemptEffect
      <4> QED
        BY <1>2, <2>1, <3>1, <3>2, <4>1
    <3> QED
      BY <2>4, <3>3, <3>4 DEF RegisterTransfer
  <2>5. CASE CallRefused(s)
    BY <1>1, <2>1, <2>5, GoesEffect DEF CallRefused, ScreeningSteps
  <2> QED
    BY <2>2, <2>3, <2>4, <2>5
<1> QED
  BY <1>7, <1>8, <1>9

(* Polling, and Chainalysis' assessment.                                   *)
LEMMA PollingKeeps ==
    ASSUME ScreeningInv, NEW s \in Screenings,
           GetTransferRiskAssessment(s) \/ PollAgain(s) \/ GiveUpPolling(s) \/ Assess(s)
    PROVE  /\ ScreeningTypeOK' /\ ScreenedInv(s)'
           /\ \A t \in Screenings \ {s} : ScreenedInv(t)'
<1>1. ScreeningTypeOK /\ ScreenedInv(s) /\ UNCHANGED <<registered, results, audit>>
  BY DEF ScreeningInv, GetTransferRiskAssessment, PollAgain, GiveUpPolling, Assess, chainalysis
<1>2. CASE Assess(s)
  <2>1. PICK rating \in Ratings, raw \in RawScores :
           verdict' = [verdict EXCEPT ![s] = [rating |-> rating, riskScore |-> raw]]
    BY <1>2 DEF Assess
  <2>2. /\ verdict' \in [Screenings -> [rating : Ratings, riskScore : RawScores] \cup {None}]
        /\ \A t \in Screenings \ {s} : verdict'[t] = verdict[t]
    BY <1>1, <2>1, ScreeningTypeParts
  <2>3. ScreeningTypeOK' /\ \A t \in Screenings \ {s} : ScreenedInv(t)'
    BY <1>1, <1>2, <2>2, OthersStay DEF Assess, ScreeningTypeOK
  <2>4. screening' = screening /\ verdict[s] = None
    BY <1>2 DEF Assess
  <2>5. Row(s)' = Row(s)
    BY <2>4 DEF Row
  <2> QED
    BY <1>1, <2>3, <2>4, <2>5 DEF ScreenedInv
<1>3. CASE GetTransferRiskAssessment(s) \/ PollAgain(s) \/ GiveUpPolling(s)
  <2>1. verdict' = verdict /\ screening[s].step \in {"polling", "waiting"}
    BY <1>3 DEF GetTransferRiskAssessment, PollAgain, GiveUpPolling, chainalysis
  <2>2. audit[s] = None
    BY <1>1, <2>1 DEF ScreenedInv
  <2>3. screening[s].step = "polling" => screening[s].polls < MaxPolls
    BY <1>1 DEF ScreenedInv, BeforePollSteps
  <2>4. \/ /\ screening[s].step = "polling" /\ failures < MaxFailures /\ AttemptFails(s)
        \/ /\ failures' = failures
           /\ \/ \E late \in BOOLEAN, a \in Assessments :
                    Assessed(s, a, late) /\ (late \/ (verdict[s] # None /\ a = verdict[s]))
              \/ screening[s].polls < MaxPolls /\ (AfterUnrated(s) \/ Goes(s, "polling"))
    <3>1. TimeoutAssessment \in Assessments /\ (verdict[s] # None => verdict[s] \in Assessments)
      BY <1>1, ScreeningTypeParts DEF Assessments
    <3>2. CASE GetTransferRiskAssessment(s)
      BY <2>3, <3>1, <3>2 DEF GetTransferRiskAssessment
    <3>3. CASE PollAgain(s)
      BY <3>3 DEF PollAgain
    <3>4. CASE GiveUpPolling(s)
      BY <3>1, <3>4 DEF GiveUpPolling
    <3> QED
      BY <1>3, <3>2, <3>3, <3>4
  <2>5. ASSUME screening' \in [Screenings -> ScreeningRecord], OthersKept(s),
               failures' \in 0..MaxFailures
        PROVE  ScreeningTypeOK' /\ \A t \in Screenings \ {s} : ScreenedInv(t)'
    BY <1>1, <2>1, <2>5, OthersStay DEF ScreeningTypeOK, ScreeningRecord, OthersKept
  <2>6. CASE screening[s].step = "polling" /\ failures < MaxFailures /\ AttemptFails(s)
    <3>1. /\ screening'[s].step \in {"polling", "failed"}
          /\ screening'[s].polls = screening[s].polls
          /\ screening' \in [Screenings -> ScreeningRecord] /\ OthersKept(s)
          /\ failures' \in 0..MaxFailures
      BY <1>1, <2>6, AttemptEffect
    <3>2. ScreenedInv(s)'
      BY <1>1, <2>2, <2>3, <2>6, <3>1
         DEF ScreenedInv, AssessedSteps, SavedSteps, BeforePollSteps
    <3> QED
      BY <2>5, <3>1, <3>2
  <2>7. ASSUME NEW late \in BOOLEAN, NEW a \in Assessments, failures' = failures,
               Assessed(s, a, late), late \/ (verdict[s] # None /\ a = verdict[s])
        PROVE  /\ ScreeningTypeOK' /\ ScreenedInv(s)'
               /\ \A t \in Screenings \ {s} : ScreenedInv(t)'
    <3>1. /\ screening'[s].step \in {"saving", "asking-for-alerts"}
          /\ screening'[s].assessment = a /\ screening'[s].timedOut = late
          /\ screening' \in [Screenings -> ScreeningRecord] /\ OthersKept(s)
      BY <1>1, <2>7, AssessedEffect
    <3>2. ScreenedInv(s)'
      BY <1>1, <2>1, <2>2, <2>7, <3>1
         DEF ScreenedInv, AssessedSteps, SavedSteps, BeforePollSteps
    <3> QED
      BY <1>1, <2>5, <2>7, <3>1, <3>2, ScreeningTypeParts
  <2>8. CASE /\ failures' = failures /\ screening[s].polls < MaxPolls
             /\ AfterUnrated(s) \/ Goes(s, "polling")
    <3>1. /\ screening'[s].step = "waiting"
             \/ (screening'[s].step = "polling" /\ screening'[s].polls < MaxPolls)
          /\ screening' \in [Screenings -> ScreeningRecord] /\ OthersKept(s)
      BY <1>1, <2>8, UnratedEffect, GoesEffect DEF ScreeningSteps, ScreeningCalls
    <3>2. ScreenedInv(s)'
      BY <1>1, <2>2, <3>1 DEF ScreenedInv, AssessedSteps, SavedSteps, BeforePollSteps
    <3> QED
      BY <1>1, <2>5, <2>8, <3>1, <3>2, ScreeningTypeParts
  <2> QED
    BY <2>4, <2>6, <2>7, <2>8
<1> QED
  BY <1>2, <1>3

(* What follows the assessment.                                            *)
LEMMA SavingKeeps ==
    ASSUME ScreeningInv, NEW s \in Screenings,
           GetAlerts(s) \/ SaveResult(s) \/ AuditScreening(s) \/ TouchEntity(s)
    PROVE  /\ ScreeningTypeOK' /\ ScreenedInv(s)'
           /\ \A t \in Screenings \ {s} : ScreenedInv(t)'
<1>1. ScreeningTypeOK /\ ScreenedInv(s) /\ UNCHANGED <<registered, verdict>>
  BY DEF ScreeningInv, GetAlerts, SaveResult, AuditScreening, TouchEntity, chainalysis
<1>2. /\ screening[s].step \in AssessedSteps \ {"done"}
      /\ screening[s].assessment \in Assessments
      /\ screening[s].timedOut \/ (verdict[s] # None /\ screening[s].assessment = verdict[s])
      /\ audit[s] = None
  BY <1>1 DEF ScreenedInv, AssessedSteps, GetAlerts, SaveResult, AuditScreening, TouchEntity
<1>3. PICK step \in {"saving", "auditing", "touching-entity", "done", "failed"} : Goes(s, step)
  BY DEF GetAlerts, SaveResult, AuditScreening, TouchEntity
<1>4. /\ screening' \in [Screenings -> ScreeningRecord] /\ OthersKept(s)
      /\ screening'[s].step = step /\ KnowsTheSame(s)
  BY <1>1, <1>3, GoesEffect DEF ScreeningSteps
<1>5. Row(s)' = Row(s)
  BY <1>4 DEF Row, KnowsTheSame
<1>6. failures' \in 0..MaxFailures
  BY <1>1, ScreeningBounds, ScreeningTypeParts
     DEF GetAlerts, SaveResult, AuditScreening, TouchEntity, CallFails
<1>7. \/ results' = results
      \/ /\ screening[s].step = "saving" /\ Row(s).riskScore # NaN
         /\ results' = [results EXCEPT ![s] = Row(s)]
         /\ audit' = audit
  BY DEF GetAlerts, SaveResult, AuditScreening, TouchEntity
<1>8. \/ audit' = audit
      \/ /\ screening[s].step = "auditing" /\ screening'[s].step = "done"
         /\ results' = results
         /\ audit' = [audit EXCEPT ![s] = EventOf(results[s])]
  BY <1>1, GoesEffect DEF GetAlerts, SaveResult, AuditScreening, TouchEntity, ScreeningSteps
<1>9. /\ results' \in [Screenings ->
            [rating : Ratings \cup Approving, riskScore : 0..100] \cup {None}]
      /\ \A t \in Screenings \ {s} : results'[t] = results[t]
  BY <1>1, <1>2, <1>7, RowType, ScreeningTypeParts
<1>10. /\ audit' \in [Screenings -> {None, "screening.cleared", "screening.flagged"}]
       /\ \A t \in Screenings \ {s} : audit'[t] = audit[t]
  BY <1>1, <1>8, ScreeningTypeParts DEF EventOf
<1>11. ScreeningTypeOK'
  BY <1>1, <1>4, <1>6, <1>9, <1>10 DEF ScreeningTypeOK, ScreeningRecord
<1>12. \A t \in Screenings \ {s} : ScreenedInv(t)'
  BY <1>1, <1>4, <1>9, <1>10, OthersStay DEF OthersKept
<1>13. step \in SavedSteps => results'[s] = Row(s) /\ Row(s).riskScore # NaN
  <2>1. CASE GetAlerts(s)
    BY <1>1, <1>4, <2>1, GoesEffect DEF GetAlerts, SavedSteps, ScreeningSteps
  <2>2. CASE SaveResult(s) /\ step # "failed"
    <3>1. results' = [results EXCEPT ![s] = Row(s)] /\ Row(s).riskScore # NaN
      BY <1>1, <1>4, <2>2, GoesEffect DEF SaveResult, ScreeningSteps
    <3> QED
      BY <1>1, <3>1, ScreeningTypeParts
  <2>3. CASE AuditScreening(s) \/ TouchEntity(s)
    BY <1>1, <2>3 DEF AuditScreening, TouchEntity, ScreenedInv, SavedSteps
  <2> QED
    BY <2>1, <2>2, <2>3 DEF SavedSteps
<1>14. audit'[s] # None => step = "done" /\ audit'[s] = EventOf(results'[s])
  BY <1>2, <1>4, <1>8, <1>10, ScreeningTypeParts, <1>1
<1>15. ScreenedInv(s)'
  BY <1>1, <1>2, <1>4, <1>5, <1>13, <1>14
     DEF ScreenedInv, KnowsTheSame, BeforePollSteps, AssessedSteps
<1> QED
  BY <1>11, <1>12, <1>15

LEMMA ScreeningInitInv == ScreeningInit => ScreeningInv
<1> SUFFICES ASSUME ScreeningInit PROVE ScreeningInv
  OBVIOUS
<1>1. ScreeningTypeOK
  BY ScreeningBounds DEF ScreeningInit, ScreeningTypeOK, ScreeningSteps
<1>2. ASSUME NEW s \in Screenings PROVE ScreenedInv(s)
  BY ScreeningBounds
     DEF ScreeningInit, ScreenedInv, BeforePollSteps, AssessedSteps, SavedSteps
<1> QED
  BY <1>1, <1>2 DEF ScreeningInv

LEMMA ScreeningStepInv == ScreeningInv /\ [ScreeningNext]_screeningVars => ScreeningInv'
<1> SUFFICES ASSUME ScreeningInv, [ScreeningNext]_screeningVars PROVE ScreeningInv'
  OBVIOUS
<1>1. ASSUME NEW s \in Screenings,
             StartScreening(s) \/ Proceed(s) \/ CallRefused(s) \/ Assess(s)
      PROVE  ScreeningInv'
  BY <1>1, RegisteringKeeps, PollingKeeps, SavingKeeps DEF Proceed, ScreeningInv
<1>2. CASE UNCHANGED screeningVars
  <2>1. ScreeningTypeOK'
    BY <1>2 DEF screeningVars, ScreeningInv, ScreeningTypeOK
  <2>2. \A s \in Screenings : ScreenedInv(s)'
    BY <1>2, OthersStay DEF screeningVars
  <2> QED
    BY <2>1, <2>2 DEF ScreeningInv
<1> QED
  BY <1>1, <1>2 DEF ScreeningNext

LEMMA ScreeningInvariant == ScreeningSpec => []ScreeningInv
BY ScreeningInitInv, ScreeningStepInv, PTL DEF ScreeningSpec

(* What the invariant says of a cleared transfer.                          *)
LEMMA ClearedFollows == ScreeningInv => ClearedAgainstVerdictOnlyLate
<1> SUFFICES ASSUME ScreeningInv, NEW s \in TransferScreenings, audit[s] = "screening.cleared"
             PROVE  /\ screening[s].timedOut
                          \/ (verdict[s] # None /\ verdict[s].rating \in Approving)
                    /\ results[s].riskScore <= 50
  BY DEF ClearedAgainstVerdictOnlyLate
<1>1. s \in Screenings /\ ScreenedInv(s) /\ audit[s] # None
  BY ScreeningBounds DEF ScreeningInv, Screenings
<1>2. /\ screening[s].step = "done" /\ EventOf(results[s]) = "screening.cleared"
      /\ results[s] = Row(s) /\ Row(s).riskScore # NaN
      /\ screening[s].assessment \in Assessments
      /\ screening[s].timedOut \/ (verdict[s] # None /\ screening[s].assessment = verdict[s])
  BY <1>1 DEF ScreenedInv, AssessedSteps, SavedSteps
<1>3. Row(s).rating \in Approving
  BY <1>2 DEF EventOf, IsApproved
<1> QED
  BY <1>1, <1>2, <1>3, RowType

(* Attempts, polls and registrations keep to their bounds, and a stored    *)
(* score lies on the scale, whatever Chainalysis answers and when.         *)
THEOREM ScreeningTypeCorrect == ScreeningSpec => []ScreeningTypeOK
<1>1. ScreeningInv => ScreeningTypeOK
  BY DEF ScreeningInv
<1> QED
  BY <1>1, ScreeningInvariant, PTL

(* A transfer is cleared only on an approving verdict or after the         *)
(* deadline, with a score in the lower half, for any screenings, ratings,  *)
(* raw scores and failing calls.                                           *)
THEOREM ClearedCorrect == ScreeningSpec => []ClearedAgainstVerdictOnlyLate
BY ClearedFollows, ScreeningInvariant, PTL

-----------------------------------------------------------------------------
(* ReclaimProofs.                                                          *)

(* What StoredProofsWereValid asks of a row's proof.                       *)
WasValid(p) ==
    LET c == content[p]
    IN  /\ c.trusted /\ c.signed /\ c.claim.verificationStatus = "approved"
        /\ -ProofTtl <= c.timestampS /\ c.timestampS <= now + Skew

(* What a request holds between its look-up and its answer.                *)
SubmissionInv(c) ==
    LET me == submission[c]
    IN  /\ me.step # "idle" => me.proof \in Proofs
        /\ me.step = "storing" =>
              /\ me.row \in ZkProofRow
              /\ me.row.proofIdentifier = me.proof /\ me.row.storedBy = c
              /\ WasValid(me.proof)
        /\ me.step \in {"logging", "recorded"} =>
              \E row \in zkProofs : row.storedBy = c /\ row.proofIdentifier = me.proof

ReclaimInv ==
    /\ ReclaimTypeOK
    /\ \A c \in Submissions : SubmissionInv(c)
    /\ RecordedOnce
    /\ StoredProofsWereValid

-----------------------------------------------------------------------------
(* A valid proof is one the property calls so, now and at any later time.  *)
LEMMA ValidWas ==
    ASSUME ReclaimTypeOK, NEW p \in Proofs, ValidProof(content[p])
    PROVE  WasValid(p)
<1>1. content[p] \in Content
  BY ContentsAreProofs DEF ReclaimTypeOK
<1>2. content[p].timestampS \in Int /\ now \in Int /\ now >= 0
  BY <1>1, ReclaimBounds DEF Content, ReclaimTypeOK
<1> QED
  BY <1>2, ReclaimBounds DEF ValidProof, NotExpired, NotInFuture, AcceptedClaim, WasValid

(* The row of a valid proof is a row of the table.                         *)
LEMMA RowOfType ==
    ASSUME ReclaimTypeOK, NEW c \in Submissions, submission[c].proof \in Proofs,
           ValidProof(content[submission[c].proof])
    PROVE  /\ RowOf(c) \in ZkProofRow
           /\ RowOf(c).proofIdentifier = submission[c].proof /\ RowOf(c).storedBy = c
<1> DEFINE claim == content[submission[c].proof].claim
<1>1. content[submission[c].proof] \in Content
  BY ContentsAreProofs DEF ReclaimTypeOK
<1>2. /\ claim \in [kycProvider : STRING, kycLevel : STRING,
                    verificationStatus : STRING, verifiedAt : Int \cup {Missing}]
      /\ claim.kycProvider \in DOMAIN ProviderLevels
  BY <1>1 DEF ValidProof, AcceptedClaim, Content
<1>3. claim.verifiedAt \in Int \cup {Missing}
  BY <1>2
<1>4. MapReclaimKycLevel(claim.kycProvider, claim.kycLevel) \in 0..3
  BY <1>2, LevelsAreKycLevels DEF MapReclaimKycLevel
<1>5. (IF claim.verifiedAt = Missing THEN Missing ELSE claim.verifiedAt + RowLifetime)
        \in Int \cup {Missing}
  BY <1>3, ReclaimBounds
<1> QED
  BY <1>3, <1>4, <1>5 DEF RowOf, ZkProofRow

(* A step of a request leaves the others', the clock and the proofs alone, *)
(* and rows and events stay.                                               *)
LEMMA HandlerFrame ==
    ASSUME ReclaimTypeOK, NEW c \in Submissions,
           HandleSubmission(c) \/ \E p \in Proofs : SubmitProof(c, p)
    PROVE  /\ UNCHANGED <<now, content>>
           /\ \A d \in Submissions \ {c} : submission'[d] = submission[d]
           /\ zkProofs \subseteq zkProofs'
           /\ proofEvents \subseteq proofEvents'
BY DEF HandleSubmission, SubmitProof, LookUpAndVerify, StoreProof, LogVerified, Ends,
       ReclaimTypeOK

(* A request that ends, or another, stays a record of its type.            *)
LEMMA EndsType ==
    ASSUME ReclaimTypeOK, NEW c \in Submissions, NEW step \in VerifySteps, Ends(c, step)
    PROVE  /\ submission' \in [Submissions ->
                [step : VerifySteps, proof : Proofs \cup {Missing}, row : ZkProofRow \cup {Missing}]]
           /\ submission'[c].step = step /\ submission'[c].proof = submission[c].proof
BY DEF Ends, ReclaimTypeOK

(* A call that throws keeps to the bound on them.                          *)
LEMMA ErrorsType ==
    ASSUME ReclaimTypeOK, DbThrows \/ UNCHANGED dbErrors
    PROVE  dbErrors' \in 0..MaxErrors
BY ReclaimBounds DEF DbThrows, ReclaimTypeOK

-----------------------------------------------------------------------------
(* One lemma for each step: what it makes of the request, and of the rest. *)

LEMMA ReclaimTypeStep ==
    ASSUME ReclaimInv, [ReclaimNext]_reclaimVars
    PROVE  ReclaimTypeOK'
<1> USE DEF ReclaimInv
<1>1. CASE PassTime
  BY <1>1, ReclaimBounds DEF PassTime, ReclaimTypeOK
<1>2. ASSUME NEW c \in Submissions, NEW p \in Proofs, SubmitProof(c, p)
      PROVE  ReclaimTypeOK'
  BY <1>2 DEF SubmitProof, ReclaimTypeOK, VerifySteps
<1>3. ASSUME NEW c \in Submissions, LookUpAndVerify(c)
      PROVE  ReclaimTypeOK'
  <2>1. submission[c].proof \in Proofs
    BY <1>3 DEF LookUpAndVerify, SubmissionInv
  <2>2. CASE Ends(c, "duplicate") \/ Ends(c, "refused") \/ Ends(c, "error")
    <3>1. dbErrors' \in 0..MaxErrors
      BY <1>3, ErrorsType DEF LookUpAndVerify
    <3>2. submission' \in [Submissions ->
            [step : VerifySteps, proof : Proofs \cup {Missing}, row : ZkProofRow \cup {Missing}]]
      BY <2>2, EndsType DEF VerifySteps
    <3> QED
      BY <1>3, <3>1, <3>2 DEF LookUpAndVerify, ReclaimTypeOK
  <2>3. CASE /\ ValidProof(content[submission[c].proof])
             /\ submission' = [submission EXCEPT ![c].step = "storing", ![c].row = RowOf(c)]
             /\ UNCHANGED dbErrors
    <3>1. RowOf(c) \in ZkProofRow
      BY <2>1, <2>3, RowOfType
    <3> QED
      BY <1>3, <2>3, <3>1 DEF LookUpAndVerify, ReclaimTypeOK, VerifySteps
  <2> QED
    BY <1>3, <2>2, <2>3 DEF LookUpAndVerify
<1>4. ASSUME NEW c \in Submissions, StoreProof(c)
      PROVE  ReclaimTypeOK'
  <2>1. submission[c].row \in ZkProofRow
    BY <1>4 DEF StoreProof, SubmissionInv
  <2>2. zkProofs' \subseteq ZkProofRow /\ dbErrors' \in 0..MaxErrors
    BY <1>4, <2>1, ReclaimBounds DEF StoreProof, DbThrows, ReclaimTypeOK
  <2>3. submission' \in [Submissions ->
          [step : VerifySteps, proof : Proofs \cup {Missing}, row : ZkProofRow \cup {Missing}]]
    <3>1. CASE Ends(c, "error")
      BY <3>1, EndsType DEF VerifySteps
    <3>2. CASE submission' = [submission EXCEPT ![c].step = "logging", ![c].row = Missing]
      BY <3>2, EndsType DEF VerifySteps, Ends
    <3> QED
      BY <1>4, <3>1, <3>2 DEF StoreProof
  <2> QED
    BY <1>4, <2>2, <2>3 DEF StoreProof, ReclaimTypeOK
<1>5. ASSUME NEW c \in Submissions, LogVerified(c)
      PROVE  ReclaimTypeOK'
  <2>1. submission[c].proof \in Proofs
    BY <1>5 DEF LogVerified, SubmissionInv
  <2> QED
    <3>1. dbErrors' \in 0..MaxErrors
      BY <1>5, ErrorsType DEF LogVerified
    <3>2. submission' \in [Submissions ->
            [step : VerifySteps, proof : Proofs \cup {Missing}, row : ZkProofRow \cup {Missing}]]
      BY <1>5, EndsType DEF LogVerified, VerifySteps
    <3> QED
      BY <1>5, <2>1, <3>1, <3>2 DEF LogVerified, ReclaimTypeOK
<1>6. CASE UNCHANGED reclaimVars
  BY <1>6 DEF reclaimVars, ReclaimTypeOK
<1> QED
  BY <1>1, <1>2, <1>3, <1>4, <1>5, <1>6 DEF ReclaimNext, HandleSubmission

(* What a proof was valid for stays so while time passes.                  *)
LEMMA ValidStays ==
    ASSUME ReclaimInv, [ReclaimNext]_reclaimVars, NEW p \in Proofs, WasValid(p)
    PROVE  WasValid(p)'
<1>1. content' = content /\ (now' = now \/ now' = now + 1)
  BY DEF ReclaimNext, HandleSubmission, PassTime, SubmitProof, LookUpAndVerify,
         StoreProof, LogVerified, reclaimVars
<1>2. content[p].timestampS \in Int /\ now \in Int
  <2>1. content[p] \in Content
    BY ContentsAreProofs DEF ReclaimInv, ReclaimTypeOK
  <2> QED
    BY <2>1 DEF Content, ReclaimInv, ReclaimTypeOK
<1> QED
  BY <1>1, <1>2, ReclaimBounds DEF WasValid

(* Each request knows afterwards what its step found or wrote.             *)
LEMMA SubmissionStep ==
    ASSUME ReclaimInv, [ReclaimNext]_reclaimVars, NEW d \in Submissions
    PROVE  SubmissionInv(d)'
<1> USE DEF ReclaimInv
<1>1. SubmissionInv(d) /\ submission[d] \in
          [step : VerifySteps, proof : Proofs \cup {Missing}, row : ZkProofRow \cup {Missing}]
  BY DEF ReclaimTypeOK
<1>2. ASSUME submission'[d] = submission[d], zkProofs \subseteq zkProofs'
      PROVE  SubmissionInv(d)'
  <2>1. \A p \in Proofs : WasValid(p) => WasValid(p)'
    BY ValidStays
  <2>2. PICK p : p = submission[d].proof
    OBVIOUS
  <2>3. submission[d].step = "storing" => WasValid(p)'
    BY <1>1, <2>1, <2>2 DEF SubmissionInv
  <2>4. submission'[d].proof = p
    BY <1>2, <2>2
  <2> QED
    BY <1>1, <1>2, <2>3, <2>4 DEF SubmissionInv
<1>3. CASE PassTime \/ UNCHANGED reclaimVars
  BY <1>2, <1>3 DEF PassTime, reclaimVars
<1>4. ASSUME NEW c \in Submissions, c # d,
             HandleSubmission(c) \/ \E p \in Proofs : SubmitProof(c, p)
      PROVE  SubmissionInv(d)'
  BY <1>2, <1>4, HandlerFrame
<1>5. ASSUME NEW p \in Proofs, SubmitProof(d, p)
      PROVE  SubmissionInv(d)'
  <2>1. submission'[d].step = "looking-up" /\ submission'[d].proof = p
    BY <1>1, <1>5 DEF SubmitProof, ReclaimTypeOK
  <2> QED
    BY <2>1 DEF SubmissionInv
<1>6. ASSUME NEW step \in {"duplicate", "refused", "error"}, Ends(d, step),
             submission[d].step # "idle"
      PROVE  SubmissionInv(d)'
  <2>1. submission'[d].step = step /\ submission'[d].proof = submission[d].proof
    BY <1>6 DEF Ends, ReclaimTypeOK
  <2> QED
    BY <1>1, <1>6, <2>1 DEF SubmissionInv
<1>7. CASE LookUpAndVerify(d)
  <2>1. CASE Ends(d, "duplicate") \/ Ends(d, "refused") \/ Ends(d, "error")
    BY <1>6, <1>7, <2>1 DEF LookUpAndVerify
  <2>2. CASE /\ ValidProof(content[submission[d].proof])
             /\ submission' = [submission EXCEPT ![d].step = "storing", ![d].row = RowOf(d)]
    <3>1. PICK p \in Proofs : p = submission[d].proof
      BY <1>1, <1>7 DEF LookUpAndVerify, SubmissionInv
    <3>2. WasValid(p)'
      BY <2>2, <3>1, ValidWas, ValidStays
    <3>3. /\ submission'[d].step = "storing" /\ submission'[d].row = RowOf(d)
          /\ submission'[d].proof = submission[d].proof
      BY <2>2 DEF ReclaimTypeOK
    <3> QED
      BY <2>2, <3>1, <3>2, <3>3, RowOfType DEF SubmissionInv
  <2> QED
    BY <1>7, <2>1, <2>2 DEF LookUpAndVerify
<1>8. CASE StoreProof(d)
  <2>1. CASE Ends(d, "error")
    BY <1>6, <1>8, <2>1 DEF StoreProof
  <2>2. CASE /\ zkProofs' = zkProofs \cup {submission[d].row}
             /\ submission' = [submission EXCEPT ![d].step = "logging", ![d].row = Missing]
    <3>1. submission'[d].step = "logging" /\ submission'[d].proof = submission[d].proof
      BY <2>2 DEF ReclaimTypeOK
    <3> QED
      BY <1>1, <1>8, <2>2, <3>1 DEF StoreProof, SubmissionInv
  <2> QED
    BY <1>8, <2>1, <2>2 DEF StoreProof
<1>9. CASE LogVerified(d)
  <2>1. CASE Ends(d, "error")
    BY <1>6, <1>9, <2>1 DEF LogVerified
  <2>2. CASE Ends(d, "recorded")
    <3>1. submission'[d].step = "recorded" /\ submission'[d].proof = submission[d].proof
      BY <2>2 DEF Ends, ReclaimTypeOK
    <3> QED
      BY <1>1, <1>9, <3>1 DEF LogVerified, SubmissionInv
  <2> QED
    BY <1>9, <2>1, <2>2 DEF LogVerified
<1> QED
  BY <1>3, <1>4, <1>5, <1>7, <1>8, <1>9 DEF ReclaimNext, HandleSubmission

(* What is added to the table is one row, of a proof not yet in it.        *)
LEMMA RowsAdded ==
    ASSUME ReclaimInv, [ReclaimNext]_reclaimVars
    PROVE  \/ zkProofs' = zkProofs
           \/ \E c \in Submissions :
                /\ submission[c].step = "storing" /\ Storable(submission[c].row)
                /\ zkProofs' = zkProofs \cup {submission[c].row}
BY DEF ReclaimNext, HandleSubmission, PassTime, SubmitProof, LookUpAndVerify,
       StoreProof, LogVerified, reclaimVars

LEMMA RecordedStep ==
    ASSUME ReclaimInv, [ReclaimNext]_reclaimVars
    PROVE  RecordedOnce'
<1>1. \A r1, r2 \in zkProofs' : r1.proofIdentifier = r2.proofIdentifier => r1 = r2
  BY RowsAdded DEF ReclaimInv, RecordedOnce, Storable
<1>2. ASSUME NEW c \in Submissions, submission'[c].step = "recorded"
      PROVE  \E row \in zkProofs' : row.storedBy = c /\ row.proofIdentifier = submission'[c].proof
  BY <1>2, SubmissionStep DEF SubmissionInv
<1>3. ASSUME NEW c \in Submissions, submission'[c].step = "recorded"
      PROVE  submission'[c].proof \in proofEvents'
  <2>1. CASE submission[c].step = "recorded" /\ submission'[c] = submission[c]
             /\ proofEvents \subseteq proofEvents'
    BY <2>1 DEF ReclaimInv, RecordedOnce
  <2>2. CASE LogVerified(c)
    BY <1>3, <2>2 DEF LogVerified, Ends, ReclaimInv, ReclaimTypeOK
  <2>3. CASE PassTime \/ UNCHANGED reclaimVars
    BY <1>3, <2>1, <2>3 DEF PassTime, reclaimVars
  <2>4. ASSUME NEW d \in Submissions, d # c,
               HandleSubmission(d) \/ \E p \in Proofs : SubmitProof(d, p)
        PROVE  submission'[c].proof \in proofEvents'
    BY <1>3, <2>1, <2>4, HandlerFrame DEF ReclaimInv
  <2>5. CASE LookUpAndVerify(c) \/ StoreProof(c) \/ \E p \in Proofs : SubmitProof(c, p)
    BY <1>3, <2>5 DEF LookUpAndVerify, StoreProof, SubmitProof, Ends, ReclaimInv, ReclaimTypeOK
  <2> QED
    BY <2>2, <2>3, <2>4, <2>5 DEF ReclaimNext, HandleSubmission
<1> QED
  BY <1>1, <1>2, <1>3 DEF RecordedOnce

LEMMA ValidStep ==
    ASSUME ReclaimInv, [ReclaimNext]_reclaimVars
    PROVE  StoredProofsWereValid'
<1>1. ASSUME NEW row \in zkProofs' PROVE row.proofIdentifier \in Proofs /\ WasValid(row.proofIdentifier)
  <2>1. CASE row \in zkProofs
    BY <2>1 DEF ReclaimInv, ReclaimTypeOK, ZkProofRow, StoredProofsWereValid, WasValid
  <2>2. ASSUME NEW c \in Submissions, submission[c].step = "storing", row = submission[c].row
        PROVE  row.proofIdentifier \in Proofs /\ WasValid(row.proofIdentifier)
    BY <2>2 DEF ReclaimInv, SubmissionInv
  <2> QED
    BY <1>1, <2>1, <2>2, RowsAdded
<1>2. \A p \in Proofs : WasValid(p) => WasValid(p)'
  BY ValidStays
<1> QED
  BY <1>1, <1>2 DEF StoredProofsWereValid, WasValid

-----------------------------------------------------------------------------
(* The theorems.                                                           *)

LEMMA ReclaimInitInv == ReclaimInit => ReclaimInv
<1> SUFFICES ASSUME ReclaimInit PROVE ReclaimInv
  OBVIOUS
<1>1. ReclaimTypeOK
  BY ReclaimBounds DEF ReclaimInit, ReclaimTypeOK, VerifySteps
<1>2. ASSUME NEW c \in Submissions PROVE SubmissionInv(c)
  BY DEF ReclaimInit, SubmissionInv
<1>3. RecordedOnce /\ StoredProofsWereValid
  BY DEF ReclaimInit, RecordedOnce, StoredProofsWereValid
<1> QED
  BY <1>1, <1>2, <1>3 DEF ReclaimInv

LEMMA ReclaimStepInv == ReclaimInv /\ [ReclaimNext]_reclaimVars => ReclaimInv'
BY ReclaimTypeStep, SubmissionStep, RecordedStep, ValidStep DEF ReclaimInv

(* The inductive invariant holds of the specification.                     *)
LEMMA ReclaimInvariant == ReclaimSpec => []ReclaimInv
BY ReclaimInitInv, ReclaimStepInv, PTL DEF ReclaimSpec

(* The clock, the table and the requests keep their types; a stored level  *)
(* is one of the four.                                                     *)
THEOREM ReclaimTypeCorrect == ReclaimSpec => []ReclaimTypeOK
<1>1. ReclaimInv => ReclaimTypeOK
  BY DEF ReclaimInv
<1> QED
  BY <1>1, ReclaimInvariant, PTL

(* However many requests carry a proof, and however they interleave, it is *)
(* recorded once, and whoever is told so recorded it.                      *)
THEOREM RecordedOnceCorrect == ReclaimSpec => []RecordedOnce
<1>1. ReclaimInv => RecordedOnce
  BY DEF ReclaimInv
<1> QED
  BY <1>1, ReclaimInvariant, PTL

(* At whatever time a row is stored, its proof was valid when verified.    *)
THEOREM StoredProofsCorrect == ReclaimSpec => []StoredProofsWereValid
<1>1. ReclaimInv => StoredProofsWereValid
  BY DEF ReclaimInv
<1> QED
  BY <1>1, ReclaimInvariant, PTL

-----------------------------------------------------------------------------
(* ComplianceApi.                                                          *)

(* What a look-up of a wallet may have answered.                           *)
Seen == BOOLEAN \cup {Unreachable}

CallResults ==
    {Unset} \cup [status : {"verified", "rejected", "pending"}, kycLevel : 0..3]
            \cup [score : 0..100, passed : BOOLEAN]

CallRecord ==
    [step : CallSteps, kind : {Unset, "kyc", "kyt"}, amount : Nat,
     sender : KytWallets \cup {Unset}, receiver : KytWallets \cup {Unset},
     senderExists : Seen \cup {Unset}, receiverExists : Seen \cup {Unset},
     result : CallResults]

(* A call of each kind goes its own way; an answer is one Sumsub gave, or  *)
(* the score of what was seen; an answered call is in the log.             *)
CallInv(c) ==
    LET me == call[c]
    IN  /\ me.step \in {"creating-applicant", "getting-applicant"} => me.kind = "kyc"
        /\ me.step = "asking-the-chain" => me.kind = "kyt"
        /\ me.kind = "kyt" /\ me.step \in {"asking-the-chain", "logging", "answered"} =>
              me.amount \in Amounts /\ me.sender \in KytWallets
        /\ me.kind = "kyc" /\ deployment.sumsub /\ me.step \in {"logging", "answered"} =>
              (me.result.status = "verified" => reviews[c] = "GREEN")
        /\ me.kind = "kyt" /\ me.step \in {"logging", "answered"} =>
              /\ me.senderExists \in Seen /\ me.receiverExists \in Seen
              /\ me.result.score =
                    KytScore(me.amount, me.sender, me.senderExists, me.receiverExists)
              /\ (me.result.passed <=> me.result.score <= 70)
        /\ me.step = "answered" => c \in publicEvents /\ deployment.publicRow

ComplianceInv ==
    /\ call \in [Calls -> CallRecord]
    /\ reviews \in [Calls -> {Unset, "init", "GREEN", "RED", "ERROR"}]
    /\ \A c \in Calls : CallInv(c)

-----------------------------------------------------------------------------
(* The points of what is seen lie between those of a wallet known and of   *)
(* one unknown, and so does the score.                                     *)
LEMMA PointsBounded ==
    ASSUME NEW seen \in Seen
    PROVE  /\ WalletAgePoints(seen) \in 0..15 /\ CounterpartyPoints(seen) \in 0..25
           /\ WalletAgePoints(TRUE) = 0 /\ CounterpartyPoints(TRUE) = 0
           /\ WalletAgePoints(FALSE) = 15 /\ CounterpartyPoints(FALSE) = 25
BY UnreachableIsNoAnswer DEF Seen, WalletAgePoints, CounterpartyPoints

WithoutHistory(se, re) == se = FALSE /\ re = FALSE

LEMMA AmountBounded ==
    ASSUME NEW amount \in Amounts
    PROVE  /\ AmountPoints(amount) \in 0..40
           /\ Small(amount) => AmountPoints(amount) = 0
           /\ Large(amount) => AmountPoints(amount) = 40
BY AmountsArePositive DEF AmountPoints, Small, Large

LEMMA ScoreBounded ==
    ASSUME NEW amount \in Amounts, NEW w \in KytWallets, NEW se \in Seen, NEW re \in Seen
    PROVE  /\ KytScore(amount, w, TRUE, TRUE) <= KytScore(amount, w, se, re)
           /\ KytScore(amount, w, se, re) <= KytScore(amount, w, FALSE, FALSE)
<1>1. PICK a \in 0..40, v \in 0..20 : AmountPoints(amount) = a /\ VolumePoints[w] = v
  BY AmountBounded, VolumeIsSmall
<1>2. PICK x \in 0..15, y \in 0..25 : WalletAgePoints(se) = x /\ CounterpartyPoints(re) = y
  BY PointsBounded
<1>3. /\ WalletAgePoints(TRUE) = 0 /\ CounterpartyPoints(TRUE) = 0
      /\ WalletAgePoints(FALSE) = 15 /\ CounterpartyPoints(FALSE) = 25
  BY PointsBounded
<1>4. Min100(a + 0 + v + 0) <= Min100(a + x + v + y)
  BY DEF Min100
<1>5. Min100(a + x + v + y) <= Min100(a + 15 + v + 25)
  BY DEF Min100
<1>6. KytScore(amount, w, TRUE, TRUE) = Min100(a + 0 + v + 0)
  BY <1>1, <1>3, Zenon DEF KytScore
<1>7. KytScore(amount, w, FALSE, FALSE) = Min100(a + 15 + v + 25)
  BY <1>1, <1>3, Zenon DEF KytScore
<1>8. KytScore(amount, w, se, re) = Min100(a + x + v + y)
  BY <1>1, <1>2, Zenon DEF KytScore
<1>9. KytScore(amount, w, TRUE, TRUE) <= KytScore(amount, w, se, re)
  BY <1>4, <1>6, <1>8, Zenon
<1>10. KytScore(amount, w, se, re) <= KytScore(amount, w, FALSE, FALSE)
  BY <1>5, <1>7, <1>8, Zenon
<1> QED
  BY <1>9, <1>10, Zenon

(* A score is no more than 100; that of the least amounts passes, and that *)
(* of the greatest between wallets without history does not.               *)
LEMMA ScorePasses ==
    ASSUME NEW amount \in Amounts, NEW w \in KytWallets, NEW se \in Seen, NEW re \in Seen
    PROVE  /\ KytScore(amount, w, se, re) \in 0..100
           /\ Small(amount) => KytScore(amount, w, se, re) <= 70
           /\ Large(amount) /\ WithoutHistory(se, re) => KytScore(amount, w, se, re) > 70
<1>1. PICK a \in 0..40, v \in 0..20 : AmountPoints(amount) = a /\ VolumePoints[w] = v
  BY AmountBounded, VolumeIsSmall
<1>2. PICK x \in 0..15, y \in 0..25 : WalletAgePoints(se) = x /\ CounterpartyPoints(re) = y
  BY PointsBounded
<1>3. KytScore(amount, w, se, re) = Min100(a + x + v + y)
  BY <1>1, <1>2, Zenon DEF KytScore
<1>4. (Small(amount) => a = 0) /\ (Large(amount) => a = 40)
  BY <1>1, AmountBounded
<1>5. WithoutHistory(se, re) => x = 15 /\ y = 25
  BY <1>2, PointsBounded DEF WithoutHistory
<1> QED
  BY <1>3, <1>4, <1>5 DEF Min100

-----------------------------------------------------------------------------
(* How a step changes the record of a call.                                *)
OtherCallsKept(c) == \A d \in Calls \ {c} : call'[d] = call[d]

LEMMA ReachesEffect ==
    ASSUME ComplianceInv, NEW c \in Calls, NEW step \in CallSteps, Reaches(c, step)
    PROVE  /\ call' \in [Calls -> CallRecord] /\ OtherCallsKept(c)
           /\ call'[c].step = step /\ call'[c].kind = call[c].kind
           /\ call'[c].amount = call[c].amount /\ call'[c].sender = call[c].sender
           /\ call'[c].senderExists = call[c].senderExists
           /\ call'[c].receiverExists = call[c].receiverExists
           /\ call'[c].result = call[c].result
<1> DEFINE r == [call[c] EXCEPT !.step = step]
<1>1. call \in [Calls -> CallRecord]
  BY DEF ComplianceInv
<1>2. call' = [call EXCEPT ![c] = r]
  BY Zenon DEF Reaches
<1>3. r \in CallRecord
  BY <1>1 DEF CallRecord
<1>4. /\ r.step = step /\ r.kind = call[c].kind /\ r.amount = call[c].amount
      /\ r.sender = call[c].sender /\ r.senderExists = call[c].senderExists
      /\ r.receiverExists = call[c].receiverExists /\ r.result = call[c].result
  BY <1>1 DEF CallRecord
<1> HIDE DEF r
<1> QED
  BY <1>1, <1>2, <1>3, <1>4 DEF OtherCallsKept

SetsResult(c, step, result) ==
    call' = [call EXCEPT ![c].step = step, ![c].result = result]

LEMMA ResultEffect ==
    ASSUME ComplianceInv, NEW c \in Calls, NEW step \in CallSteps,
           NEW result \in CallResults, SetsResult(c, step, result)
    PROVE  /\ call' \in [Calls -> CallRecord] /\ OtherCallsKept(c)
           /\ call'[c].step = step /\ call'[c].kind = call[c].kind
           /\ call'[c].amount = call[c].amount /\ call'[c].sender = call[c].sender
           /\ call'[c].senderExists = call[c].senderExists
           /\ call'[c].receiverExists = call[c].receiverExists
           /\ call'[c].result = result
<1> DEFINE r1 == [call[c] EXCEPT !.step = step]
           r2 == [r1 EXCEPT !.result = result]
<1>1. call[c] \in CallRecord
  BY DEF ComplianceInv
<1>2. /\ r1 \in CallRecord /\ r1.step = step /\ r1.kind = call[c].kind
      /\ r1.amount = call[c].amount /\ r1.sender = call[c].sender
      /\ r1.senderExists = call[c].senderExists /\ r1.receiverExists = call[c].receiverExists
  BY <1>1 DEF CallRecord
<1>3. call \in [Calls -> CallRecord] /\ call' = [call EXCEPT ![c] = r2]
  BY Zenon DEF ComplianceInv, SetsResult
<1> HIDE DEF r1
<1>4. /\ r2 \in CallRecord /\ r2.step = step /\ r2.kind = call[c].kind
      /\ r2.amount = call[c].amount /\ r2.sender = call[c].sender
      /\ r2.senderExists = call[c].senderExists /\ r2.receiverExists = call[c].receiverExists
      /\ r2.result = result
  BY <1>2 DEF CallRecord
<1> HIDE DEF r2
<1> QED
  BY <1>3, <1>4 DEF OtherCallsKept

LEMMA StartKytEffect ==
    ASSUME ComplianceInv, NEW c \in Calls, NEW amount \in Amounts,
           NEW sender \in KytWallets, NEW other \in KytWallets, StartKyt(c, amount, sender, other)
    PROVE  /\ call' \in [Calls -> CallRecord] /\ OtherCallsKept(c)
           /\ call'[c].step = "asking-the-chain" /\ call'[c].kind = "kyt"
           /\ call'[c].amount = amount /\ call'[c].sender = sender
<1> DEFINE r1 == [call[c] EXCEPT !.kind = "kyt"]
           r2 == [r1 EXCEPT !.step = "asking-the-chain"]
           r3 == [r2 EXCEPT !.amount = amount]
           r4 == [r3 EXCEPT !.sender = sender]
           r5 == [r4 EXCEPT !.receiver = other]
<1>1. call \in [Calls -> CallRecord] /\ amount \in Nat
  BY AmountsArePositive DEF ComplianceInv
<1>2. call' = [call EXCEPT ![c] = r5]
  BY Zenon DEF StartKyt
<1>3. r1 \in CallRecord /\ r1.kind = "kyt"
  BY <1>1 DEF CallRecord
<1> HIDE DEF r1
<1>4. r2 \in CallRecord /\ r2.kind = "kyt" /\ r2.step = "asking-the-chain"
  BY <1>3 DEF CallRecord, CallSteps
<1> HIDE DEF r2
<1>5. /\ r3 \in CallRecord /\ r3.kind = "kyt" /\ r3.step = "asking-the-chain"
      /\ r3.amount = amount
  BY <1>1, <1>4 DEF CallRecord
<1> HIDE DEF r3
<1>6. /\ r4 \in CallRecord /\ r4.kind = "kyt" /\ r4.step = "asking-the-chain"
      /\ r4.amount = amount /\ r4.sender = sender
  BY <1>5 DEF CallRecord
<1> HIDE DEF r4
<1>7. /\ r5 \in CallRecord /\ r5.kind = "kyt" /\ r5.step = "asking-the-chain"
      /\ r5.amount = amount /\ r5.sender = sender
  BY <1>6 DEF CallRecord
<1> HIDE DEF r5
<1> QED
  BY <1>1, <1>2, <1>7 DEF OtherCallsKept

LEMMA StartKycEffect ==
    ASSUME ComplianceInv, NEW c \in Calls, StartKyc(c)
    PROVE  /\ call' \in [Calls -> CallRecord] /\ OtherCallsKept(c)
           /\ call'[c].kind = "kyc"
           /\ call'[c].step = IF deployment.sumsub THEN "creating-applicant" ELSE "logging"
<1> DEFINE step == IF deployment.sumsub THEN "creating-applicant" ELSE "logging"
           result == IF deployment.sumsub THEN Unset
                     ELSE [status |-> "verified", kycLevel |-> 3]
           r1 == [call[c] EXCEPT !.kind = "kyc"]
           r2 == [r1 EXCEPT !.step = step]
           r3 == [r2 EXCEPT !.result = result]
<1>1. call \in [Calls -> CallRecord]
  BY DEF ComplianceInv
<1>2. call' = [call EXCEPT ![c] = r3]
  BY Zenon DEF StartKyc
<1>3. step \in CallSteps
  BY DEF CallSteps
<1>4. result \in CallResults
  BY DEF CallResults
<1> HIDE DEF step, result
<1>5. r1 \in CallRecord /\ r1.kind = "kyc"
  BY <1>1 DEF CallRecord
<1> HIDE DEF r1
<1>6. r2 \in CallRecord /\ r2.kind = "kyc" /\ r2.step = step
  BY <1>3, <1>5 DEF CallRecord
<1> HIDE DEF r2
<1>7. r3 \in CallRecord /\ r3.kind = "kyc" /\ r3.step = step
  BY <1>4, <1>6 DEF CallRecord
<1> HIDE DEF r3
<1>8. call'[c].step = step /\ call'[c].kind = "kyc"
      /\ call' \in [Calls -> CallRecord] /\ OtherCallsKept(c)
  BY <1>1, <1>2, <1>7 DEF OtherCallsKept
<1> QED
  BY <1>8 DEF step

LEMMA SeenEffect ==
    ASSUME ComplianceInv, NEW c \in Calls, NEW seen \in Seen,
           NEW column \in {"senderExists", "receiverExists"},
           call' = [call EXCEPT ![c][column] = seen]
    PROVE  /\ call' \in [Calls -> CallRecord] /\ OtherCallsKept(c)
           /\ call'[c].step = call[c].step /\ call'[c].kind = call[c].kind
           /\ call'[c].amount = call[c].amount /\ call'[c].sender = call[c].sender
<1> DEFINE r == [call[c] EXCEPT ![column] = seen]
<1>1. call \in [Calls -> CallRecord]
  BY DEF ComplianceInv
<1>2. call' = [call EXCEPT ![c] = r]
  BY Zenon
<1>3. r \in {[call[c] EXCEPT !.senderExists = seen], [call[c] EXCEPT !.receiverExists = seen]}
  OBVIOUS
<1>4. r \in CallRecord
  BY <1>1, <1>3 DEF CallRecord
<1>5. /\ r.step = call[c].step /\ r.kind = call[c].kind
      /\ r.amount = call[c].amount /\ r.sender = call[c].sender
  BY <1>1, <1>3 DEF CallRecord
<1> HIDE DEF r
<1> QED
  BY <1>1, <1>2, <1>4, <1>5 DEF OtherCallsKept

-----------------------------------------------------------------------------
(* What holds of a call goes on holding while others take their steps.     *)
LEMMA CallStays ==
    ASSUME ComplianceInv, NEW d \in Calls,
           call'[d] = call[d], deployment' = deployment, publicEvents \subseteq publicEvents',
           reviews[d] = "GREEN" => reviews'[d] = "GREEN"
    PROVE  CallInv(d)'
<1>1. CallInv(d)
  BY DEF ComplianceInv
<1> QED
  BY <1>1 DEF CallInv

(* The steps of a call: its own record, and nothing of the others.         *)
LEMMA KycKeeps ==
    ASSUME ComplianceInv, NEW c \in Calls,
           StartKyc(c) \/ CreateKycApplicant(c) \/ GetKycApplicant(c) \/ PublicCallFails(c)
    PROVE  ComplianceInv'
<1>1. CallInv(c) /\ deployment' = deployment /\ publicEvents' = publicEvents
  BY DEF ComplianceInv, StartKyc, CreateKycApplicant, GetKycApplicant, PublicCallFails
<1>2. ASSUME call' \in [Calls -> CallRecord], OtherCallsKept(c), CallInv(c)',
             reviews' = reviews \/ reviews' = [reviews EXCEPT ![c] = "init"]
      PROVE  ComplianceInv'
  <2>1. /\ reviews' \in [Calls -> {Unset, "init", "GREEN", "RED", "ERROR"}]
        /\ \A d \in Calls \ {c} : reviews'[d] = reviews[d]
    BY <1>2 DEF ComplianceInv
  <2>2. \A d \in Calls \ {c} : CallInv(d)'
    BY <1>1, <1>2, <2>1, CallStays DEF OtherCallsKept
  <2> QED
    BY <1>2, <2>1, <2>2 DEF ComplianceInv
<1>3. CASE StartKyc(c)
  <2>1. /\ call'[c].kind = "kyc" /\ reviews' = reviews
        /\ call'[c].step = IF deployment.sumsub THEN "creating-applicant" ELSE "logging"
        /\ call' \in [Calls -> CallRecord] /\ OtherCallsKept(c)
    BY <1>3, StartKycEffect DEF StartKyc
  <2>2. CallInv(c)'
    BY <1>1, <2>1 DEF CallInv
  <2> QED
    BY <1>2, <2>1, <2>2
<1>4. CASE CreateKycApplicant(c)
  <2>1. /\ call'[c].step = "getting-applicant" /\ call'[c].kind = "kyc"
        /\ call' \in [Calls -> CallRecord] /\ OtherCallsKept(c)
    BY <1>1, <1>4, ReachesEffect DEF CreateKycApplicant, CallInv, CallSteps
  <2>2. CallInv(c)'
    BY <2>1 DEF CallInv
  <2> QED
    BY <1>2, <1>4, <2>1, <2>2 DEF CreateKycApplicant
<1>5. CASE GetKycApplicant(c)
  <2>1. /\ KycResult(reviews[c]) \in [status : {"verified", "rejected", "pending"}, kycLevel : 0..3]
        /\ KycResult(reviews[c]).status = "verified" => reviews[c] = "GREEN"
    <3>1. CASE reviews[c] = "GREEN"
      BY <3>1 DEF KycResult
    <3>2. CASE reviews[c] = "RED"
      BY <3>2 DEF KycResult
    <3>3. CASE reviews[c] \notin {"GREEN", "RED"}
      BY <3>3 DEF KycResult
    <3> QED
      BY <3>1, <3>2, <3>3
  <2>2. PICK result : result = KycResult(reviews[c])
    OBVIOUS
  <2>3. /\ SetsResult(c, "logging", result)
        /\ call[c].kind = "kyc" /\ reviews' = reviews
    BY <1>1, <1>5, <2>2 DEF GetKycApplicant, CallInv, SetsResult
  <2>4. /\ call'[c].step = "logging" /\ call'[c].kind = "kyc" /\ call'[c].result = result
        /\ call' \in [Calls -> CallRecord] /\ OtherCallsKept(c)
    BY <2>1, <2>2, <2>3, ResultEffect DEF CallSteps, CallResults
  <2>5. CallInv(c)'
    BY <2>1, <2>2, <2>3, <2>4 DEF CallInv
  <2> QED
    BY <1>2, <2>3, <2>4, <2>5
<1>6. CASE PublicCallFails(c)
  <2>1. /\ call'[c].step = "error" /\ reviews' = reviews
        /\ call' \in [Calls -> CallRecord] /\ OtherCallsKept(c)
    BY <1>6, ReachesEffect DEF PublicCallFails, CallSteps
  <2>2. CallInv(c)'
    BY <2>1 DEF CallInv
  <2> QED
    BY <1>2, <2>1, <2>2
<1> QED
  BY <1>3, <1>4, <1>5, <1>6

LEMMA KytKeeps ==
    ASSUME ComplianceInv, NEW c \in Calls,
           \/ \E amount \in Amounts, s, r \in KytWallets : StartKyt(c, amount, s, r)
           \/ CheckWalletExists(c, "senderExists", call[c].sender)
           \/ CheckWalletExists(c, "receiverExists", call[c].receiver)
           \/ ScoreTransaction(c) \/ LogPublicEvent(c)
    PROVE  ComplianceInv'
<1>1. CallInv(c) /\ call[c] \in CallRecord
  BY DEF ComplianceInv
<1>2. ASSUME call' \in [Calls -> CallRecord], OtherCallsKept(c), CallInv(c)',
             UNCHANGED <<deployment, reviews>>, publicEvents \subseteq publicEvents'
      PROVE  ComplianceInv'
  BY <1>2, CallStays DEF OtherCallsKept, ComplianceInv
<1>3. ASSUME NEW amount \in Amounts, NEW s \in KytWallets, NEW r \in KytWallets,
             StartKyt(c, amount, s, r)
      PROVE  ComplianceInv'
  <2>1. /\ call'[c].step = "asking-the-chain" /\ call'[c].kind = "kyt"
        /\ call'[c].amount = amount /\ call'[c].sender = s
        /\ call' \in [Calls -> CallRecord] /\ OtherCallsKept(c)
    BY <1>3, StartKytEffect
  <2>2. CallInv(c)'
    BY <1>3, <2>1 DEF CallInv
  <2> QED
    BY <1>2, <1>3, <2>1, <2>2 DEF StartKyt
<1>4. ASSUME NEW column \in {"senderExists", "receiverExists"}, NEW wallet,
             CheckWalletExists(c, column, wallet)
      PROVE  ComplianceInv'
  <2>1. PICK seen \in Seen : call' = [call EXCEPT ![c][column] = seen]
    <3>1. (wallet \in onChain) \in BOOLEAN
      OBVIOUS
    <3>2. {(wallet \in onChain), Unreachable} \subseteq Seen
      BY <3>1, Zenon DEF Seen
    <3> QED
      BY <1>4, <3>2, Zenon DEF CheckWalletExists
  <2>2. /\ call'[c].step = call[c].step /\ call'[c].kind = call[c].kind
        /\ call'[c].amount = call[c].amount /\ call'[c].sender = call[c].sender
        /\ call' \in [Calls -> CallRecord] /\ OtherCallsKept(c)
    BY <2>1, SeenEffect
  <2>3. call[c].step = "asking-the-chain"
    BY <1>4 DEF CheckWalletExists
  <2>4. CallInv(c)'
    BY <1>1, <2>2, <2>3 DEF CallInv
  <2> QED
    BY <1>2, <1>4, <2>2, <2>4 DEF CheckWalletExists
<1>5. CASE ScoreTransaction(c)
  <2> DEFINE me == call[c]
             score == KytScore(me.amount, me.sender, me.senderExists, me.receiverExists)
  <2>1. /\ me.kind = "kyt" /\ me.amount \in Amounts /\ me.sender \in KytWallets
        /\ me.senderExists \in Seen /\ me.receiverExists \in Seen
    BY <1>1, <1>5 DEF ScoreTransaction, CallInv, CallRecord
  <2>2. PICK n \in 0..100 : n = score
    BY <2>1, ScorePasses
  <2>3. PICK result \in [score : 0..100, passed : BOOLEAN] :
           /\ result = [score |-> n, passed |-> n <= 70]
           /\ result.score = n /\ (result.passed <=> n <= 70)
    <3>1. PICK passed \in BOOLEAN : passed = (n <= 70)
      <4>1. (n <= 70) \in BOOLEAN
        OBVIOUS
      <4> QED
        BY <4>1, Zenon
    <3>2. [score |-> n, passed |-> passed] \in [score : 0..100, passed : BOOLEAN]
      OBVIOUS
    <3> QED
      BY <3>1, <3>2, Zenon
  <2>6. SetsResult(c, "logging", result)
    BY <1>5, <2>2, <2>3, Zenon DEF ScoreTransaction, SetsResult
  <2>4. /\ call'[c].step = "logging" /\ call'[c].kind = "kyt"
        /\ call'[c].amount = me.amount /\ call'[c].sender = me.sender
        /\ call'[c].senderExists = me.senderExists /\ call'[c].receiverExists = me.receiverExists
        /\ call'[c].result = result
        /\ call' \in [Calls -> CallRecord] /\ OtherCallsKept(c)
    <3>1. /\ "logging" \in CallSteps
          /\ result \in CallResults
      BY <2>3 DEF CallSteps, CallResults
    <3> HIDE DEF me
    <3>2. /\ call'[c].step = "logging" /\ call'[c].kind = call[c].kind
          /\ call'[c].amount = call[c].amount /\ call'[c].sender = call[c].sender
          /\ call'[c].senderExists = call[c].senderExists
          /\ call'[c].receiverExists = call[c].receiverExists
          /\ call'[c].result = result
          /\ call' \in [Calls -> CallRecord] /\ OtherCallsKept(c)
      BY <2>6, <3>1, ResultEffect
    <3> QED
      BY <2>1, <3>2 DEF me
  <2>5. CallInv(c)'
    BY <2>1, <2>2, <2>3, <2>4 DEF CallInv
  <2> QED
    BY <1>2, <1>5, <2>4, <2>5 DEF ScoreTransaction
<1>6. CASE LogPublicEvent(c)
  <2>1. PICK step \in {"answered", "error"} :
           /\ Reaches(c, step) /\ publicEvents \subseteq publicEvents'
           /\ step = "answered" => c \in publicEvents' /\ deployment.publicRow
    BY <1>6 DEF LogPublicEvent
  <2>2. /\ call[c].step = "logging" /\ UNCHANGED <<deployment, reviews>>
    BY <1>6 DEF LogPublicEvent
  <2>3. /\ call'[c].step = step /\ call'[c].kind = call[c].kind
        /\ call'[c].amount = call[c].amount /\ call'[c].sender = call[c].sender
        /\ call'[c].senderExists = call[c].senderExists
        /\ call'[c].receiverExists = call[c].receiverExists
        /\ call'[c].result = call[c].result
        /\ call' \in [Calls -> CallRecord] /\ OtherCallsKept(c)
    BY <2>1, ReachesEffect DEF CallSteps
  <2>4. CallInv(c)'
    BY <1>1, <2>1, <2>2, <2>3 DEF CallInv
  <2> QED
    BY <1>2, <2>1, <2>2, <2>3, <2>4
<1> QED
  BY <1>3, <1>4, <1>5, <1>6

LEMMA ComplianceInitInv == ComplianceInit => ComplianceInv
BY DEF ComplianceInit, ComplianceInv, NoCall, CallInv, CallRecord, CallSteps, CallResults

LEMMA ComplianceStepInv == ComplianceInv /\ [ComplianceNext]_complianceVars => ComplianceInv'
<1> SUFFICES ASSUME ComplianceInv, [ComplianceNext]_complianceVars PROVE ComplianceInv'
  OBVIOUS
<1>1. ASSUME NEW c \in Calls, SumsubReviews(c)
      PROVE  ComplianceInv'
  <2>1. /\ reviews' \in [Calls -> {Unset, "init", "GREEN", "RED", "ERROR"}]
        /\ \A d \in Calls : reviews[d] = "GREEN" => reviews'[d] = "GREEN"
    BY <1>1 DEF SumsubReviews, ComplianceInv
  <2> QED
    BY <1>1, <2>1, CallStays DEF SumsubReviews, ComplianceInv
<1>2. CASE UNCHANGED complianceVars \/ \E w \in KytWallets : WalletAppears(w)
  BY <1>2, CallStays DEF complianceVars, WalletAppears, ComplianceInv
<1> QED
  BY <1>1, <1>2, KycKeeps, KytKeeps DEF ComplianceNext, HandleCall

LEMMA ComplianceInvariant == ComplianceSpec => []ComplianceInv
BY ComplianceInitInv, ComplianceStepInv, PTL DEF ComplianceSpec

-----------------------------------------------------------------------------
(* What the invariant says of an answered call.                            *)
LEMMA AnswersFollow == ComplianceInv => PublicAnswersHold
<1> SUFFICES ASSUME ComplianceInv, NEW c \in Calls, call[c].step = "answered"
             PROVE  /\ c \in publicEvents /\ deployment.publicRow
                    /\ call[c].kind = "kyc" /\ deployment.sumsub /\ call[c].result.status = "verified"
                          => reviews[c] = "GREEN"
                    /\ call[c].kind = "kyt" => ScoreHolds(c)
  BY Zenon DEF PublicAnswersHold
<1>1. CallInv(c)
  BY DEF ComplianceInv
<1>2. ASSUME call[c].kind = "kyt" PROVE ScoreHolds(c)
  <2> DEFINE me == call[c]
             score == KytScore(me.amount, me.sender, me.senderExists, me.receiverExists)
  <2>1. /\ me.amount \in Amounts /\ me.sender \in KytWallets
        /\ me.senderExists \in Seen /\ me.receiverExists \in Seen
        /\ me.result.score = score /\ (me.result.passed <=> me.result.score <= 70)
    BY <1>1, <1>2 DEF CallInv
  <2>2. /\ score \in 0..100 /\ (Small(me.amount) => score <= 70)
        /\ Large(me.amount) /\ WithoutHistory(me.senderExists, me.receiverExists) => score > 70
    BY <2>1, ScorePasses
  <2>3. /\ KytScore(me.amount, me.sender, TRUE, TRUE) <= score
        /\ score <= KytScore(me.amount, me.sender, FALSE, FALSE)
    BY <2>1, ScoreBounded, Zenon
  <2>4. /\ KytScore(me.amount, me.sender, TRUE, TRUE) <= me.result.score
        /\ me.result.score <= KytScore(me.amount, me.sender, FALSE, FALSE)
    BY <2>1, <2>3, Zenon
  <2>5. /\ Small(me.amount) => me.result.passed
        /\ Large(me.amount) /\ WithoutHistory(me.senderExists, me.receiverExists)
              => ~me.result.passed
    BY <2>1, <2>2
  <2> QED
    BY <2>4, <2>5, Zenon DEF ScoreHolds, WithoutHistory
<1> QED
  BY <1>1, <1>2 DEF CallInv

(* An answer of the public endpoints is in the log, a verified wallet is   *)
(* one Sumsub found GREEN, and a score lies where its amount and what was  *)
(* seen of the wallets put it, for any calls, wallets, amounts and hashes. *)
THEOREM PublicAnswersCorrect == ComplianceSpec => []PublicAnswersHold
BY AnswersFollow, ComplianceInvariant, PTL

-----------------------------------------------------------------------------
(* The composition.  Each of its steps is one of a single component, which *)
(* leaves the variables of the others alone.                               *)
ServicesInv == ScreeningInv /\ ReclaimInv /\ ComplianceInv /\ DeliveryInv

servicesVars == <<screeningVars, reclaimVars, complianceVars, deliveryVars>>

LEMMA ServicesInitInv == ServicesInit => ServicesInv
<1> SUFFICES ASSUME ServicesInit PROVE ServicesInv
  OBVIOUS
<1>1. ScreeningInit /\ ReclaimInit /\ ComplianceInit /\ DeliveryInit
  BY DEF ServicesInit, ReclaimStill, ComplianceStill
<1> QED
  BY <1>1, ScreeningInitInv, ReclaimInitInv, ComplianceInitInv, DeliveryInitInv DEF ServicesInv

LEMMA ServicesStepInv == ServicesInv /\ [ServicesNext]_servicesVars => ServicesInv'
<1> SUFFICES ASSUME ServicesInv, [ServicesNext]_servicesVars PROVE ServicesInv'
  OBVIOUS
<1>1. /\ [ScreeningNext]_screeningVars /\ [ReclaimNext]_reclaimVars
      /\ [ComplianceNext]_complianceVars /\ [DeliveryNext]_deliveryVars
  BY DEF ServicesNext, servicesVars
<1> QED
  BY <1>1, ScreeningStepInv, ReclaimStepInv, ComplianceStepInv, DeliveryStepInv DEF ServicesInv

LEMMA ServicesInvariant == ServicesSpec => []ServicesInv
<1>1. ServicesSpec => ServicesInit /\ [][ServicesNext]_servicesVars
  BY DEF ServicesSpec, servicesVars
<1> QED
  BY <1>1, ServicesInitInv, ServicesStepInv, PTL

(* The composition keeps the types of its components, in any instance.     *)
THEOREM ServicesTypeCorrect == ServicesSpec => []ServicesTypeOK
<1>1. ServicesInv => ServicesTypeOK
  BY DEF ServicesInv, ScreeningInv, ReclaimInv, DeliveryInv, ServicesTypeOK
<1> QED
  BY <1>1, ServicesInvariant, PTL

(* What each component promises by itself it promises in the composition,  *)
(* which is the specification that the run of the four checks.             *)
THEOREM ServicesCorrect ==
    ServicesSpec => [](/\ ClearedAgainstVerdictOnlyLate /\ RecordedOnce /\ StoredProofsWereValid
                       /\ PublicAnswersHold /\ DeletedIsNeverCalled /\ CallsAreRecorded)
<1>1. ServicesInv => /\ ClearedAgainstVerdictOnlyLate /\ RecordedOnce /\ StoredProofsWereValid
                     /\ PublicAnswersHold /\ DeletedIsNeverCalled /\ CallsAreRecorded
  BY ClearedFollows, AnswersFollow, DeletedFollows, CallsFollow DEF ServicesInv, ReclaimInv
<1> QED
  BY <1>1, ServicesInvariant, PTL
=============================================================================
