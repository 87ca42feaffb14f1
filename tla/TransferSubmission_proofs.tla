---------------------- MODULE TransferSubmission_proofs ----------------------
(***************************************************************************)
(* Theorems about TransferSubmission: for any number of submissions and of *)
(* oracle calls that race them, whatever fails and whenever the server     *)
(* stops, what is called completed has evidence on chain and what a client *)
(* was told stays true.                                                    *)
(***************************************************************************)
EXTENDS TransferSubmission, TLAPS

(* The steps before a row is stored, and the ends reached without one.     *)
BeforeRow ==
    {"idle", "auditing travel rule", "auditing package", "packaged",
     "screening", "persisting", "blocking", "storing", "rejected"}

(* The steps, and the answers, after the event transfer.submitted.         *)
AfterSubmitted ==
    {"sending", "confirming", "recording", "auditing completed", "failing",
     "auditing failed", "completed", "failed"}

HasRow(t) == rows[t] # None

(* What a call knows of the row, the log and the chain at each of its      *)
(* steps.                                                                  *)
CallInv(t) ==
    /\ call[t] \in BeforeRow => ~HasRow(t)
    /\ call[t] \in BeforeRow \cup {"auditing submitted", "sending"} => chain[t] = "absent"
    /\ call[t] \in AfterSubmitted \cup {"auditing submitted"} => HasRow(t)
    /\ call[t] \in AfterSubmitted => <<"transfer.submitted", t>> \in auditLog
    /\ call[t] \in {"recording", "auditing completed", "completed"} => chain[t] = "landed"
    /\ call[t] \in {"auditing completed", "completed"} => rows[t].status = COMPLETED
    /\ call[t] \in {"auditing failed", "failed"} => rows[t].status = FAILED \/ Attested(t)

(* What a call knows of the provider's verdict: nothing was screened       *)
(* before it, and what follows from it agrees with it.                     *)
VerdictInv(t) ==
    /\ call[t] \in {"idle", "auditing travel rule", "auditing package", "screening"} =>
          screening[t] = None
    /\ screening[t] = "cleared" => verdict[t] = "approved"
    /\ call[t] \in {"blocking", "rejected"} => verdict[t] = "rejected"

(* What the oracle knows at each of its own.                               *)
OracleInv(o) ==
    /\ attest[o] # "idle" => subject[o] # None
    /\ attest[o] \in {"idle", "finding travel rule", "sending"} => memos[o] = "absent"
    /\ attest[o] \in {"marking", "auditing"} => memos[o] = "landed"
    /\ attest[o] \in {"sending", "confirming", "marking", "auditing"} =>
          \A t \in Transfers : subject[o] = Subject("transfers", t) => HasRow(t)

SubmissionInv ==
    /\ SubmissionTypeOK
    /\ \A t \in Transfers : CallInv(t) /\ VerdictInv(t)
    /\ \A o \in Attests : OracleInv(o)
    /\ CompletedHasEvidence
    /\ AnswersHold

-----------------------------------------------------------------------------
(* Types.                                                                  *)

CallStates == SubmitSteps \cup Answers \cup {"idle", "lost"}

AttestStates == AttestSteps \cup AttestAnswers \cup {"idle", "lost"}

(* However a step of a call ends, the call is at a step or has ended.      *)
LEMMA Moves ==
    ASSUME SubmissionTypeOK, NEW t \in Transfers, NEW step \in CallStates,
           Advance(t, step) \/ Throw(t)
    PROVE  /\ call' \in [Transfers -> CallStates]
           /\ screening' \in [Transfers -> {None, "cleared", "pending"}]
<1>1. CaughtBy(call[t]) \in CallStates
  BY DEF CaughtBy, CallStates, SubmitSteps, Answers
<1>2. call \in [Transfers -> CallStates]
  BY DEF SubmissionTypeOK, CallStates
<1>3. screening \in [Transfers -> {None, "cleared", "pending"}]
  BY DEF SubmissionTypeOK
<1>4. CASE Advance(t, step)
  BY <1>2, <1>3, <1>4 DEF Advance
<1>5. CASE Throw(t)
  BY <1>1, <1>2, <1>3, <1>5 DEF Throw
<1> QED
  BY <1>4, <1>5

(* A marked row is a row.                                                  *)
LEMMA Marks ==
    ASSUME NEW row \in TransferRow, NEW status \in {COMPLETED, FAILED},
           NEW txSignature \in {None, "transfer", "memo"}
    PROVE  Marked(row, status, txSignature) \in TransferRow
BY DEF Marked, TransferRow

(* The rows of AuditTrail.                                                 *)
LEMMA TrailCases ==
    ASSUME NEW a \in AuditTrail
    PROVE  \/ /\ a.at = "auditing travel rule" /\ a.event = "travel_rule.created"
              /\ a.next \in {"screening", "storing"}
           \/ /\ a.at = "auditing package" /\ a.event = "travel_rule.created"
              /\ a.next = "packaged"
           \/ a.at = "blocking" /\ a.event = "transfer.blocked" /\ a.next = "rejected"
           \/ /\ a.at = "auditing submitted" /\ a.event = "transfer.submitted"
              /\ a.next = "sending"
           \/ /\ a.at = "auditing completed" /\ a.event = "transfer.completed"
              /\ a.next = "completed"
           \/ a.at = "auditing failed" /\ a.event = "transfer.failed" /\ a.next = "failed"
<1>1. \/ \E step \in {"screening", "storing"} :
            a = [at |-> "auditing travel rule", event |-> "travel_rule.created",
                 next |-> step]
      \/ a = [at |-> "auditing package", event |-> "travel_rule.created",
              next |-> "packaged"]
      \/ a = [at |-> "blocking", event |-> "transfer.blocked", next |-> "rejected"]
      \/ a = [at |-> "auditing submitted", event |-> "transfer.submitted",
              next |-> "sending"]
      \/ a = [at |-> "auditing completed", event |-> "transfer.completed",
              next |-> "completed"]
      \/ a = [at |-> "auditing failed", event |-> "transfer.failed", next |-> "failed"]
  BY Zenon DEF AuditTrail
<1>2. ASSUME NEW step \in {"screening", "storing"},
             a = [at |-> "auditing travel rule", event |-> "travel_rule.created",
                  next |-> step]
      PROVE  a.at = "auditing travel rule" /\ a.event = "travel_rule.created"
             /\ a.next \in {"screening", "storing"}
  BY <1>2
<1>3. CASE a = [at |-> "auditing package", event |-> "travel_rule.created",
                next |-> "packaged"]
  BY <1>3
<1>4. CASE a = [at |-> "blocking", event |-> "transfer.blocked",
                next |-> "rejected"]
  BY <1>4
<1>5. CASE a = [at |-> "auditing submitted", event |-> "transfer.submitted",
                next |-> "sending"]
  BY <1>5
<1>6. CASE a = [at |-> "auditing completed", event |-> "transfer.completed",
                next |-> "completed"]
  BY <1>6
<1>7. CASE a = [at |-> "auditing failed", event |-> "transfer.failed",
                next |-> "failed"]
  BY <1>7
<1> QED
  BY <1>1, <1>2, <1>3, <1>4, <1>5, <1>6, <1>7

(* Audited steps lead to steps or answers.                                 *)
LEMMA TrailTyped ==
    ASSUME NEW a \in AuditTrail
    PROVE  a.event \in EventTypes /\ a.next \in CallStates
BY TrailCases DEF EventTypes, CallStates, SubmitSteps, ScreeningTry, TransactionTry, Answers

(* A call that has stored its row holds one.                               *)
LEMMA HoldsRow ==
    ASSUME SubmissionInv, NEW t \in Transfers, call[t] \in {"recording", "failing"}
    PROVE  rows[t] \in TransferRow
<1>1. rows[t] \in TransferRow \cup {None}
  BY DEF SubmissionInv, SubmissionTypeOK
<1>2. CallInv(t)
  BY DEF SubmissionInv
<1>3. rows[t] # None
  BY <1>2 DEF CallInv, AfterSubmitted, HasRow
<1> QED
  BY <1>1, <1>3

(* The oracle has a subject once it has started, and a row of it when it   *)
(* found one.                                                              *)
LEMMA SubjectTyped ==
    ASSUME SubmissionInv, NEW o \in Attests, attest[o] # "idle"
    PROVE  /\ subject[o] \in AttestSubject
           /\ subject[o].nonce \in Transfers
<1>1. subject[o] \in AttestSubject
  BY DEF SubmissionInv, SubmissionTypeOK, OracleInv
<1> QED
  BY <1>1 DEF AttestSubject

(* Past the confirmation of its memo, the oracle has attested its subject. *)
LEMMA AttestedRow ==
    ASSUME SubmissionInv, NEW o \in Attests, attest[o] \in {"marking", "auditing"},
           subject[o].table = "transfers"
    PROVE  /\ subject[o] = Subject("transfers", subject[o].nonce)
           /\ HasRow(subject[o].nonce)
           /\ Attested(subject[o].nonce)
<1>1. subject[o] \in AttestSubject
  BY SubjectTyped
<1>2. subject[o] = Subject("transfers", subject[o].nonce)
  BY <1>1 DEF Subject, AttestSubject
<1>3. HasRow(subject[o].nonce)
  BY <1>1, <1>2, SubjectTyped DEF SubmissionInv, OracleInv
<1>4. memos[o] = "landed"
  BY DEF SubmissionInv, OracleInv
<1> QED
  BY <1>2, <1>3, <1>4 DEF Attested

(* Every step writes typed values.                                         *)
LEMMA TypeStep ==
    ASSUME SubmissionInv, [SubmissionNext]_submissionVars
    PROVE  SubmissionTypeOK'
<1> USE DEF SubmissionTypeOK
<1>a. SubmissionTypeOK
  BY DEF SubmissionInv
<1>1. ASSUME NEW t \in Transfers, SubmitWithoutTravelRule(t)
      PROVE  SubmissionTypeOK'
  <2>1. \E step \in CallStates : Advance(t, step) \/ Throw(t)
    BY <1>1 DEF SubmitWithoutTravelRule, CallStates, SubmitSteps, ScreeningTry,
       TransactionTry, Answers
  <2>2. /\ call' \in [Transfers -> CallStates]
        /\ screening' \in [Transfers -> {None, "cleared", "pending"}]
    BY <1>a, <2>1, Moves
  <2> QED
    BY <1>a, <1>1, <2>2 DEF SubmitWithoutTravelRule, CallStates, tables, oracleVars
<1>2. ASSUME NEW t \in Transfers, StoreTravelRule(t)
      PROVE  SubmissionTypeOK'
  <2>1. \E step \in CallStates : Advance(t, step) \/ Throw(t)
    BY <1>2 DEF StoreTravelRule, Written, CallStates, SubmitSteps, ScreeningTry,
       TransactionTry, Answers
  <2>2. /\ call' \in [Transfers -> CallStates]
        /\ screening' \in [Transfers -> {None, "cleared", "pending"}]
    BY <1>a, <2>1, Moves
  <2> QED
    BY <1>a, <1>2, <2>2 DEF StoreTravelRule, TRAVEL_RULE_STORED, CallStates, tables,
       oracleVars
<1>3. ASSUME NEW t \in Transfers, LogAuditEvent(t)
      PROVE  SubmissionTypeOK'
  <2>1. PICK a \in AuditTrail : Logged(a.event, t) /\ Written(t, a.next)
    BY <1>3 DEF LogAuditEvent
  <2>2. a.event \in EventTypes /\ a.next \in CallStates
    BY TrailTyped
  <2>3. /\ call' \in [Transfers -> CallStates]
        /\ screening' \in [Transfers -> {None, "cleared", "pending"}]
    BY <1>a, <2>1, <2>2, Moves DEF Written
  <2>4. auditLog' \subseteq EventTypes \X Transfers
    BY <1>a, <2>1, <2>2 DEF Logged
  <2> QED
    BY <1>a, <1>3, <2>3, <2>4 DEF LogAuditEvent, CallStates, oracleVars
<1>4. ASSUME NEW t \in Transfers, Assess(t)
      PROVE  SubmissionTypeOK'
  <2>1. \E step \in CallStates : Advance(t, step) \/ Throw(t)
    BY <1>4 DEF Assess, CallStates, SubmitSteps, ScreeningTry, TransactionTry, Answers
  <2>2. /\ call' \in [Transfers -> CallStates]
        /\ screening' \in [Transfers -> {None, "cleared", "pending"}]
    BY <1>a, <2>1, Moves
  <2>3. verdict' \in [Transfers -> {None, "approved", "rejected"}]
    BY <1>a, <1>4 DEF Assess
  <2> QED
    BY <1>a, <1>4, <2>2, <2>3 DEF Assess, CallStates, tables, oracleVars
<1>5. ASSUME NEW t \in Transfers, PersistScreening(t)
      PROVE  SubmissionTypeOK'
  BY <1>a, <1>5 DEF PersistScreening, Advance, tables, oracleVars, SubmitSteps, ScreeningTry
<1>6. ASSUME NEW t \in Transfers, StoreTransfer(t)
      PROVE  SubmissionTypeOK'
  <2>1. \E step \in CallStates : Advance(t, step) \/ Throw(t)
    BY <1>6 DEF StoreTransfer, Written, CallStates, SubmitSteps, ScreeningTry,
       TransactionTry, Answers
  <2>2. /\ call' \in [Transfers -> CallStates]
        /\ screening' \in [Transfers -> {None, "cleared", "pending"}]
    BY <1>a, <2>1, Moves
  <2> QED
    BY <1>a, <1>6, <2>2 DEF StoreTransfer, TransferRow, PENDING, CallStates, tables,
       oracleVars
<1>7. ASSUME NEW t \in Transfers, Send(t)
      PROVE  SubmissionTypeOK'
  <2>1. \E step \in CallStates : Advance(t, step) \/ Throw(t)
    BY <1>7 DEF Send, CallStates, SubmitSteps, ScreeningTry, TransactionTry, Answers
  <2>2. /\ call' \in [Transfers -> CallStates]
        /\ screening' \in [Transfers -> {None, "cleared", "pending"}]
    BY <1>a, <2>1, Moves
  <2> QED
    BY <1>a, <1>7, <2>2 DEF Send, TransactionStates, CallStates, tables, oracleVars
<1>8. ASSUME NEW t \in Transfers, Confirm(t)
      PROVE  SubmissionTypeOK'
  <2>1. \E step \in CallStates : Advance(t, step) \/ Throw(t)
    BY <1>8 DEF Confirm, CallStates, SubmitSteps, ScreeningTry, TransactionTry, Answers
  <2>2. /\ call' \in [Transfers -> CallStates]
        /\ screening' \in [Transfers -> {None, "cleared", "pending"}]
    BY <1>a, <2>1, Moves
  <2> QED
    BY <1>a, <1>8, <2>2 DEF Confirm, CallStates, tables, oracleVars
<1>9. ASSUME NEW t \in Transfers, RecordCompleted(t)
      PROVE  SubmissionTypeOK'
  <2>1. \E step \in CallStates : Advance(t, step) \/ Throw(t)
    BY <1>9 DEF RecordCompleted, Written, CallStates, SubmitSteps, ScreeningTry,
       TransactionTry, Answers
  <2>2. /\ call' \in [Transfers -> CallStates]
        /\ screening' \in [Transfers -> {None, "cleared", "pending"}]
    BY <1>a, <2>1, Moves
  <2>3. rows' \in [Transfers -> TransferRow \cup {None}]
    <3>1. rows[t] \in TransferRow
      BY <1>9, HoldsRow DEF RecordCompleted, At
    <3> QED
      BY <1>a, <3>1, <1>9, Marks DEF RecordCompleted
  <2> QED
    BY <1>a, <1>9, <2>2, <2>3 DEF RecordCompleted, CallStates, tables, oracleVars
<1>10. ASSUME NEW t \in Transfers, RecordFailed(t)
      PROVE  SubmissionTypeOK'
  <2>1. \E step \in CallStates : Advance(t, step) \/ Throw(t)
    BY <1>10 DEF RecordFailed, Written, CallStates, SubmitSteps, ScreeningTry,
       TransactionTry, Answers
  <2>2. /\ call' \in [Transfers -> CallStates]
        /\ screening' \in [Transfers -> {None, "cleared", "pending"}]
    BY <1>a, <2>1, Moves
  <2>3. rows' \in [Transfers -> TransferRow \cup {None}]
    <3>1. rows[t] \in TransferRow
      BY <1>10, HoldsRow DEF RecordFailed, At
    <3>2. rows[t].txSignature \in {None, "transfer", "memo"}
      BY <3>1 DEF TransferRow
    <3> QED
      BY <1>a, <3>1, <3>2, <1>10, Marks DEF RecordFailed
  <2> QED
    BY <1>a, <1>10, <2>2, <2>3 DEF RecordFailed, CallStates, tables, oracleVars
<1>11. ASSUME NEW t \in Transfers, StepFails(t)
      PROVE  SubmissionTypeOK'
  <2>1. \E step \in CallStates : Advance(t, step) \/ Throw(t)
    BY <1>11 DEF StepFails, CallStates, SubmitSteps, ScreeningTry, TransactionTry, Answers
  <2>2. /\ call' \in [Transfers -> CallStates]
        /\ screening' \in [Transfers -> {None, "cleared", "pending"}]
    BY <1>a, <2>1, Moves
  <2> QED
    BY <1>a, <1>11, <2>2 DEF StepFails, CallStates, tables, oracleVars
<1>12. ASSUME NEW t \in Transfers, Resolve(t)
      PROVE  SubmissionTypeOK'
  BY <1>a, <1>12 DEF Resolve, TransactionStates, tables, oracleVars, serverVars
<1>13. ASSUME NEW o \in Attests, NEW t \in Transfers, FindTransfer(o, t)
      PROVE  SubmissionTypeOK'
  BY <1>a, <1>13 DEF FindTransfer, Subject, AttestSubject, AttestAt, AttestSteps,
     AttestAnswers, tables, serverVars
<1>14. ASSUME NEW o \in Attests, FindTravelRule(o)
      PROVE  SubmissionTypeOK'
  <2>1. subject[o].nonce \in Transfers
    BY <1>a, <1>14, SubjectTyped DEF FindTravelRule
  <2> QED
    BY <1>a, <2>1, <1>14 DEF FindTravelRule, Subject, AttestSubject, AttestAt,
       AttestSteps, AttestAnswers, tables, serverVars
<1>15. ASSUME NEW o \in Attests, SubmitAttestation(o)
      PROVE  SubmissionTypeOK'
  BY <1>a, <1>15 DEF SubmitAttestation, AttestAt, AttestSteps, AttestAnswers, tables,
     serverVars, TransactionStates
<1>16. ASSUME NEW o \in Attests, ConfirmAttestation(o)
      PROVE  SubmissionTypeOK'
  BY <1>a, <1>16 DEF ConfirmAttestation, AttestAt, AttestSteps, AttestAnswers, tables,
     serverVars
<1>17. ASSUME NEW o \in Attests, MarkAttested(o)
      PROVE  SubmissionTypeOK'
  <2>1. subject[o].nonce \in Transfers
    BY <1>a, <1>17, SubjectTyped DEF MarkAttested
  <2>2. rows' \in [Transfers -> TransferRow \cup {None}]
    <3>1. CASE subject[o].table = "transfers"
      <4>1. rows[subject[o].nonce] \in TransferRow
        BY <1>a, <3>1, <2>1, <1>17, AttestedRow DEF MarkAttested, HasRow
      <4> QED
        BY <1>a, <3>1, <4>1, <2>1, <1>17, Marks DEF MarkAttested
    <3>2. CASE subject[o].table # "transfers"
      BY <1>a, <3>2, <1>17 DEF MarkAttested
    <3> QED
      BY <3>1, <3>2
  <2> QED
    BY <1>a, <2>1, <2>2, <1>17 DEF MarkAttested, TRAVEL_RULE_ATTESTED, AttestAt,
       AttestSteps, AttestAnswers, tables, serverVars
<1>18. ASSUME NEW o \in Attests, AuditAttested(o)
      PROVE  SubmissionTypeOK'
  <2>1. subject[o].nonce \in Transfers
    BY <1>a, <1>18, SubjectTyped DEF AuditAttested
  <2>2. auditLog' \subseteq EventTypes \X Transfers
    BY <1>a, <2>1, <1>18 DEF AuditAttested, Logged, EventTypes
  <2> QED
    BY <1>a, <2>2, <1>18 DEF AuditAttested, AttestAt, AttestSteps, AttestAnswers,
       tables, serverVars
<1>19. ASSUME NEW o \in Attests, AttestFails(o)
      PROVE  SubmissionTypeOK'
  BY <1>a, <1>19 DEF AttestFails, AttestAt, AttestSteps, AttestAnswers, tables, serverVars
<1>20. ASSUME NEW o \in Attests, ResolveMemo(o)
      PROVE  SubmissionTypeOK'
  BY <1>a, <1>20 DEF ResolveMemo, TransactionStates, tables, serverVars
<1>21. ASSUME Crash
      PROVE  SubmissionTypeOK'
  BY <1>a, <1>21 DEF Crash, tables
<1>22. ASSUME UNCHANGED submissionVars
      PROVE  SubmissionTypeOK'
  BY <1>a, <1>22 DEF submissionVars
<1> QED
  BY <1>1, <1>2, <1>3, <1>4, <1>5, <1>6, <1>7, <1>8, <1>9, <1>10, <1>11, <1>12, <1>13,
     <1>14, <1>15, <1>16, <1>17, <1>18, <1>19, <1>20, <1>21, <1>22
  DEF SubmissionNext, SubmitTransfer, AttestCompliance

-----------------------------------------------------------------------------
(* Who writes what.                                                        *)

(* The actions that write each part of the state.                          *)
LEMMA WhoWrites ==
    ASSUME [SubmissionNext]_submissionVars
    PROVE  /\ \/ UNCHANGED rows
              \/ \E t \in Transfers : StoreTransfer(t) \/ RecordCompleted(t) \/ RecordFailed(t)
              \/ \E o \in Attests : MarkAttested(o)
           /\ \/ UNCHANGED auditLog
              \/ \E t \in Transfers : LogAuditEvent(t)
              \/ \E o \in Attests : AuditAttested(o)
           /\ UNCHANGED chain \/ \E t \in Transfers : Send(t) \/ Resolve(t)
           /\ UNCHANGED memos \/ \E o \in Attests : SubmitAttestation(o) \/ ResolveMemo(o)
           /\ \/ UNCHANGED subject
              \/ \E o \in Attests, t \in Transfers : FindTransfer(o, t)
              \/ \E o \in Attests : FindTravelRule(o)
<1> USE DEF SubmissionNext, SubmitTransfer, AttestCompliance, submissionVars,
            SubmitWithoutTravelRule, StoreTravelRule, LogAuditEvent, Assess,
            PersistScreening, StoreTransfer, Send, Confirm, RecordCompleted, RecordFailed,
            StepFails, Resolve, FindTransfer, FindTravelRule, SubmitAttestation,
            ConfirmAttestation, MarkAttested, AuditAttested, AttestFails, ResolveMemo,
            Crash, tables, oracleVars, serverVars
<1>1. \/ UNCHANGED rows
      \/ \E t \in Transfers : StoreTransfer(t) \/ RecordCompleted(t) \/ RecordFailed(t)
      \/ \E o \in Attests : MarkAttested(o)
  OBVIOUS
<1>2. \/ UNCHANGED auditLog
      \/ \E t \in Transfers : LogAuditEvent(t)
      \/ \E o \in Attests : AuditAttested(o)
  OBVIOUS
<1>3. UNCHANGED chain \/ \E t \in Transfers : Send(t) \/ Resolve(t)
  OBVIOUS
<1>4. UNCHANGED memos \/ \E o \in Attests : SubmitAttestation(o) \/ ResolveMemo(o)
  OBVIOUS
<1>5. \/ UNCHANGED subject
      \/ \E o \in Attests, t \in Transfers : FindTransfer(o, t)
      \/ \E o \in Attests : FindTravelRule(o)
  OBVIOUS
<1> QED
  BY <1>1, <1>2, <1>3, <1>4, <1>5

(* A row a step writes belongs to a call about to store it or holding it,  *)
(* or to the oracle, which calls it completed on the strength of its memo. *)
LEMMA RowWrites ==
    ASSUME SubmissionInv, [SubmissionNext]_submissionVars, NEW t \in Transfers
    PROVE  \/ rows'[t] = rows[t]
           \/ StoreTransfer(t) /\ rows'[t] # None /\ rows'[t].status = PENDING
           \/ /\ RecordCompleted(t) /\ rows'[t] # None
              /\ rows'[t].status = COMPLETED /\ rows'[t].txSignature = "transfer"
           \/ RecordFailed(t) /\ rows'[t] # None /\ rows'[t].status = FAILED
           \/ /\ HasRow(t) /\ rows'[t] # None /\ Attested(t)
              /\ rows'[t].status = COMPLETED /\ rows'[t].txSignature = "memo"
              /\ \E o \in Attests : MarkAttested(o)
<1>a. rows \in [Transfers -> TransferRow \cup {None}]
  BY DEF SubmissionInv, SubmissionTypeOK
<1>b. SubmissionTypeOK'
  BY TypeStep
<1>c. None \notin TransferRow
  BY SubmissionNoneAssumption
<1>1. ASSUME NEW u \in Transfers, StoreTransfer(u), rows'[t] # rows[t]
      PROVE  StoreTransfer(t) /\ rows'[t] # None /\ rows'[t].status = PENDING
  <2>1. u = t
    BY <1>a, <1>1 DEF StoreTransfer
  <2>2. rows'[t] = [status |-> PENDING, screeningStatus |-> screening[t],
                    txSignature |-> None]
    BY <1>a, <1>1, <2>1 DEF StoreTransfer
  <2>3. rows'[t] \in TransferRow
    BY <2>2 DEF SubmissionInv, SubmissionTypeOK, TransferRow
  <2> QED
    BY <1>1, <1>c, <2>1, <2>2, <2>3
<1>2. ASSUME NEW u \in Transfers, RecordCompleted(u), rows'[t] # rows[t]
      PROVE  /\ RecordCompleted(t) /\ rows'[t] # None
             /\ rows'[t].status = COMPLETED /\ rows'[t].txSignature = "transfer"
  <2>1. u = t
    BY <1>a, <1>2 DEF RecordCompleted
  <2>2. rows'[t] = Marked(rows[t], COMPLETED, "transfer")
    BY <1>a, <1>2, <2>1 DEF RecordCompleted
  <2>3. rows[t] \in TransferRow
    BY <1>2, <2>1, HoldsRow DEF RecordCompleted, At
  <2>4. rows'[t] \in TransferRow
    BY <2>2, <2>3, Marks
  <2> QED
    BY <1>2, <1>c, <2>1, <2>2, <2>4 DEF Marked
<1>3. ASSUME NEW u \in Transfers, RecordFailed(u), rows'[t] # rows[t]
      PROVE  RecordFailed(t) /\ rows'[t] # None /\ rows'[t].status = FAILED
  <2>1. u = t
    BY <1>a, <1>3 DEF RecordFailed
  <2>2. rows'[t] = Marked(rows[t], FAILED, rows[t].txSignature)
    BY <1>a, <1>3, <2>1 DEF RecordFailed
  <2>3. rows[t] \in TransferRow
    BY <1>3, <2>1, HoldsRow DEF RecordFailed, At
  <2>4. rows[t].txSignature \in {None, "transfer", "memo"}
    BY <2>3 DEF TransferRow
  <2>5. rows'[t] \in TransferRow
    BY <2>2, <2>3, <2>4, Marks
  <2> QED
    BY <1>3, <1>c, <2>1, <2>2, <2>5 DEF Marked
<1>4. ASSUME NEW o \in Attests, MarkAttested(o), rows'[t] # rows[t]
      PROVE  /\ HasRow(t) /\ rows'[t] # None /\ Attested(t)
             /\ rows'[t].status = COMPLETED /\ rows'[t].txSignature = "memo"
             /\ \E p \in Attests : MarkAttested(p)
  <2>1. subject[o].table = "transfers"
    BY <1>4 DEF MarkAttested
  <2>2. rows' = [rows EXCEPT ![subject[o].nonce] =
                   Marked(rows[subject[o].nonce], COMPLETED, "memo")]
    BY <1>4, <2>1 DEF MarkAttested
  <2>3. t = subject[o].nonce
    BY <1>a, <1>4, <2>2
  <2>4. HasRow(t) /\ Attested(t)
    BY <1>4, <2>1, <2>3, AttestedRow DEF MarkAttested
  <2>5. rows'[t] = Marked(rows[t], COMPLETED, "memo")
    BY <1>a, <2>2, <2>3
  <2>6. rows'[t] \in TransferRow
    BY <1>a, <2>4, <2>5, Marks DEF HasRow
  <2> QED
    BY <1>4, <1>c, <2>4, <2>5, <2>6 DEF Marked
<1> QED
  BY <1>1, <1>2, <1>3, <1>4, WhoWrites

(* What no step takes back.                                                *)
LEMMA Persists ==
    ASSUME SubmissionInv, [SubmissionNext]_submissionVars, NEW t \in Transfers
    PROVE  /\ HasRow(t) => HasRow(t)'
           /\ auditLog \subseteq auditLog'
           /\ chain[t] = "landed" => chain'[t] = "landed"
           /\ Attested(t) => Attested(t)'
<1>a. SubmissionTypeOK
  BY DEF SubmissionInv
<1>1. HasRow(t) => HasRow(t)'
  BY RowWrites DEF HasRow
<1>2. auditLog \subseteq auditLog'
  BY WhoWrites DEF LogAuditEvent, AuditAttested, Logged
<1>3. chain[t] = "landed" => chain'[t] = "landed"
  <2>1. ASSUME NEW u \in Transfers, Send(u) PROVE u # t => chain'[t] = chain[t]
    BY <1>a, <2>1 DEF SubmissionTypeOK, Send
  <2>2. ASSUME Send(t) PROVE chain[t] # "landed"
    BY <2>2 DEF SubmissionInv, CallInv, Send, At
  <2>3. ASSUME NEW u \in Transfers, Resolve(u), chain[t] = "landed"
        PROVE  chain'[t] = chain[t]
    BY <1>a, <2>3 DEF SubmissionTypeOK, Resolve
  <2> QED
    BY <2>1, <2>2, <2>3, WhoWrites
<1>4. Attested(t) => Attested(t)'
  <2> SUFFICES ASSUME NEW o \in Attests, memos[o] = "landed",
                      subject[o] = Subject("transfers", t)
               PROVE  memos'[o] = "landed" /\ subject'[o] = Subject("transfers", t)'
    BY DEF Attested
  <2>1. attest[o] \notin {"idle", "finding travel rule", "sending"}
    BY DEF SubmissionInv, OracleInv
  <2>2. memos'[o] = "landed"
    BY <1>a, <2>1, WhoWrites DEF SubmissionTypeOK, SubmitAttestation, ResolveMemo
  <2>3. subject'[o] = subject[o]
    BY <1>a, <2>1, WhoWrites DEF SubmissionTypeOK, FindTransfer, FindTravelRule
  <2> QED
    BY <2>2, <2>3 DEF Subject
<1> QED
  BY <1>1, <1>2, <1>3, <1>4

-----------------------------------------------------------------------------
(* Steps of a call.                                                        *)

(* A step of a call moves that call only.                                  *)
LEMMA CallMoves ==
    ASSUME SubmissionTypeOK, NEW t \in Transfers, NEW u \in Transfers, NEW step,
           Advance(u, step) \/ Throw(u), call'[t] # call[t]
    PROVE  u = t /\ call'[t] \in {step, CaughtBy(call[t])}
BY DEF SubmissionTypeOK, Advance, Throw

(* A call moves by a step of its own, or is lost when the server stops.    *)
LEMMA WhoMoves ==
    ASSUME SubmissionInv, [SubmissionNext]_submissionVars, NEW t \in Transfers,
           call'[t] # call[t]
    PROVE  \/ SubmitWithoutTravelRule(t) \/ StoreTravelRule(t)
           \/ LogAuditEvent(t) \/ Assess(t) \/ PersistScreening(t)
           \/ StoreTransfer(t) \/ Send(t) \/ Confirm(t)
           \/ RecordCompleted(t) \/ RecordFailed(t) \/ StepFails(t)
           \/ call'[t] = "lost"
<1>a. call \in [Transfers -> CallStates]
  BY DEF SubmissionInv, SubmissionTypeOK, CallStates
<1>1. ASSUME NEW u \in Transfers,
             \/ SubmitWithoutTravelRule(u) \/ StoreTravelRule(u) \/ SubmitTransfer(u)
      PROVE  u = t
  <2>1. call' = [call EXCEPT ![u] = call'[u]]
    BY <1>a, <1>1 DEF SubmitTransfer, SubmitWithoutTravelRule, StoreTravelRule,
       LogAuditEvent, Assess, PersistScreening, StoreTransfer, Send, Confirm,
       RecordCompleted, RecordFailed, StepFails, Advance, Throw, Written
  <2> QED
    BY <1>a, <2>1
<1>2. ASSUME Crash PROVE call'[t] = "lost"
  BY <1>a, <1>2 DEF Crash
<1>3. ASSUME NEW u \in Transfers, NEW o \in Attests,
             Resolve(u) \/ FindTransfer(o, u) \/ AttestCompliance(o) \/ ResolveMemo(o)
      PROVE  UNCHANGED call
  BY <1>3 DEF Resolve, FindTransfer, AttestCompliance, FindTravelRule, SubmitAttestation,
     ConfirmAttestation, MarkAttested, AuditAttested, AttestFails, ResolveMemo, serverVars
<1>4. ASSUME NEW o \in Attests, AttestCompliance(o) \/ ResolveMemo(o)
      PROVE  UNCHANGED call
  BY <1>4 DEF AttestCompliance, FindTravelRule, SubmitAttestation,
     ConfirmAttestation, MarkAttested, AuditAttested, AttestFails, ResolveMemo, serverVars
<1>5. ASSUME NEW u \in Transfers, Resolve(u) PROVE UNCHANGED call
  BY <1>5 DEF Resolve, serverVars
<1> QED
  BY <1>1, <1>2, <1>3, <1>4, <1>5 DEF SubmissionNext, SubmitTransfer, submissionVars

(* Every step keeps what the calls know.                                   *)
LEMMA CallStep ==
    ASSUME SubmissionInv, [SubmissionNext]_submissionVars, NEW t \in Transfers
    PROVE  CallInv(t)'
<1>a. SubmissionTypeOK /\ CallInv(t)
  BY DEF SubmissionInv
<1>b. call \in [Transfers -> CallStates]
  BY <1>a DEF SubmissionTypeOK, CallStates
<1>c. /\ HasRow(t) => HasRow(t)'
      /\ auditLog \subseteq auditLog'
      /\ chain[t] = "landed" => chain'[t] = "landed"
      /\ Attested(t) => Attested(t)'
  BY Persists
<1> USE DEF CallInv, BeforeRow, AfterSubmitted, HasRow, PENDING, COMPLETED, FAILED
<1>1. CASE call'[t] = call[t]
  <2>1. call[t] \in BeforeRow \cup {"auditing submitted", "sending"} => chain'[t] = "absent"
    <3>1. ASSUME NEW u \in Transfers, Send(u), chain'[t] # chain[t] PROVE call'[t] # call[t]
      BY <1>a, <1>b, <3>1 DEF SubmissionTypeOK, Send, Advance, At
    <3>2. ASSUME NEW u \in Transfers, Resolve(u), chain'[t] # chain[t] PROVE chain[t] = "sent"
      BY <1>a, <3>2 DEF SubmissionTypeOK, Resolve
    <3> QED
      BY <1>1, <1>a, <3>1, <3>2, WhoWrites
  <2>2. \/ rows'[t] = rows[t]
        \/ HasRow(t) /\ rows'[t] # None /\ Attested(t) /\ rows'[t].status = COMPLETED
    <3>1. ASSUME StoreTransfer(t) \/ RecordCompleted(t) \/ RecordFailed(t)
          PROVE  call'[t] # call[t]
      BY <1>b, <3>1 DEF StoreTransfer, RecordCompleted, RecordFailed, Written, Advance,
         Throw, At, CaughtBy, ScreeningTry, TransactionTry
    <3> QED
      BY <1>1, <3>1, RowWrites
  <2>3. call[t] \in BeforeRow => rows'[t] = None
    BY <1>a, <2>2
  <2>4. call[t] \in {"auditing completed", "completed"} => rows'[t].status = COMPLETED
    BY <1>a, <2>2
  <2>5. call[t] \in {"auditing failed", "failed"} => rows'[t].status = FAILED \/ Attested(t)'
    BY <1>a, <1>c, <2>2
  <2> QED
    BY <1>1, <1>a, <1>c, <2>1, <2>3, <2>4, <2>5
<1>2. ASSUME SubmitWithoutTravelRule(t), call'[t] # call[t] PROVE CallInv(t)'
  <2>1. call[t] = "idle" /\ call'[t] \in {"screening", "storing"}
    BY <1>b, <1>2 DEF SubmitWithoutTravelRule, At, Advance, Throw, CaughtBy,
       ScreeningTry, TransactionTry
  <2> QED
    BY <1>a, <1>c, <1>2, <2>1 DEF SubmitWithoutTravelRule, tables
<1>3. ASSUME StoreTravelRule(t), call'[t] # call[t] PROVE CallInv(t)'
  <2>1. call[t] = "idle" /\ call'[t] \in {"auditing travel rule", "auditing package", "thrown"}
    BY <1>b, <1>3 DEF StoreTravelRule, Written, At, Advance, Throw, CaughtBy,
       ScreeningTry, TransactionTry
  <2> QED
    BY <1>a, <1>c, <1>3, <2>1 DEF StoreTravelRule, tables
<1>4. ASSUME Assess(t), call'[t] # call[t] PROVE CallInv(t)'
  <2>1. call[t] = "screening" /\ call'[t] \in {"persisting"}
    BY <1>b, <1>4 DEF Assess, At, Advance, Throw, CaughtBy, ScreeningTry, TransactionTry
  <2> QED
    BY <1>a, <1>c, <1>4, <2>1 DEF Assess, tables
<1>5. ASSUME PersistScreening(t), call'[t] # call[t] PROVE CallInv(t)'
  <2>1. call[t] = "persisting" /\ call'[t] \in {"storing", "blocking"}
    BY <1>b, <1>5 DEF PersistScreening, At, Advance, Throw, CaughtBy, ScreeningTry,
       TransactionTry
  <2> QED
    BY <1>a, <1>c, <1>5, <2>1 DEF PersistScreening, tables
<1>6. ASSUME StoreTransfer(t), call'[t] # call[t] PROVE CallInv(t)'
  <2>1. call[t] = "storing" /\ call'[t] \in {"auditing submitted", "thrown"}
    BY <1>b, <1>6 DEF StoreTransfer, Written, At, Advance, Throw, CaughtBy,
       ScreeningTry, TransactionTry
  <2>2. rows'[t] = [status |-> PENDING, screeningStatus |-> screening[t],
                    txSignature |-> None]
    BY <1>a, <1>6 DEF SubmissionTypeOK, StoreTransfer
  <2>3. rows'[t] # None
    <3>1. rows'[t] \in TransferRow
      <4>1. screening[t] \in {None, "cleared", "pending"}
        BY <1>a DEF SubmissionTypeOK
      <4> QED
        BY <2>2, <4>1 DEF TransferRow
    <3> QED
      BY <2>2, <3>1, SubmissionNoneAssumption DEF Marked
  <2> QED
    BY <1>a, <1>c, <1>6, <2>1, <2>3 DEF StoreTransfer, tables
<1>7. ASSUME Send(t), call'[t] # call[t] PROVE CallInv(t)'
  <2>1. call[t] = "sending" /\ call'[t] \in {"confirming"}
    BY <1>b, <1>7 DEF Send, At, Advance, Throw, CaughtBy, ScreeningTry, TransactionTry
  <2> QED
    BY <1>a, <1>c, <1>7, <2>1 DEF Send, tables
<1>8. ASSUME Confirm(t), call'[t] # call[t] PROVE CallInv(t)'
  <2>1. call[t] = "confirming" /\ call'[t] \in {"recording"}
    BY <1>b, <1>8 DEF Confirm, At, Advance, Throw, CaughtBy, ScreeningTry, TransactionTry
  <2> QED
    BY <1>a, <1>c, <1>8, <2>1 DEF Confirm, tables
<1>9. ASSUME RecordCompleted(t), call'[t] # call[t] PROVE CallInv(t)'
  <2>1. call[t] = "recording" /\ call'[t] \in {"auditing completed", "failing"}
    BY <1>b, <1>9 DEF RecordCompleted, Written, At, Advance, Throw, CaughtBy,
       ScreeningTry, TransactionTry
  <2>2. rows'[t] = Marked(rows[t], COMPLETED, "transfer")
    BY <1>a, <1>9 DEF SubmissionTypeOK, RecordCompleted
  <2>3. rows'[t] # None /\ rows'[t].status = COMPLETED
    <3>1. rows'[t] \in TransferRow
      <4>1. rows[t] \in TransferRow
        BY <1>a, <2>1 DEF SubmissionTypeOK
      <4>2. rows[t].txSignature \in {None, "transfer", "memo"}
        BY <4>1 DEF TransferRow
      <4> QED
        BY <2>2, <4>1, <4>2, Marks
    <3> QED
      BY <2>2, <3>1, SubmissionNoneAssumption DEF Marked
  <2> QED
    BY <1>a, <1>c, <1>9, <2>1, <2>3 DEF RecordCompleted, tables
<1>10. ASSUME RecordFailed(t), call'[t] # call[t] PROVE CallInv(t)'
  <2>1. call[t] = "failing" /\ call'[t] \in {"auditing failed", "thrown"}
    BY <1>b, <1>10 DEF RecordFailed, Written, At, Advance, Throw, CaughtBy,
       ScreeningTry, TransactionTry
  <2>2. rows'[t] = Marked(rows[t], FAILED, rows[t].txSignature)
    BY <1>a, <1>10 DEF SubmissionTypeOK, RecordFailed
  <2>3. rows'[t] # None /\ rows'[t].status = FAILED
    <3>1. rows'[t] \in TransferRow
      <4>1. rows[t] \in TransferRow
        BY <1>a, <2>1 DEF SubmissionTypeOK
      <4>2. rows[t].txSignature \in {None, "transfer", "memo"}
        BY <4>1 DEF TransferRow
      <4> QED
        BY <2>2, <4>1, <4>2, Marks
    <3> QED
      BY <2>2, <3>1, SubmissionNoneAssumption DEF Marked
  <2> QED
    BY <1>a, <1>c, <1>10, <2>1, <2>3 DEF RecordFailed, tables
<1>11. ASSUME LogAuditEvent(t), call'[t] # call[t] PROVE CallInv(t)'
  <2>1. PICK a \in AuditTrail : At(t, a.at) /\ Logged(a.event, t) /\ Written(t, a.next)
    BY <1>11 DEF LogAuditEvent
  <2>2. call'[t] \in {a.next, CaughtBy(call[t])}
    BY <1>a, <1>11, <2>1, CallMoves DEF Written
  <2>3. <<a.event, t>> \in auditLog'
    BY <2>1 DEF Logged
  <2>4. UNCHANGED <<rows, chain>>
    BY <1>11 DEF LogAuditEvent
  <2> QED
    BY <1>a, <1>c, <2>1, <2>2, <2>3, <2>4, TrailCases
    DEF At, CaughtBy, ScreeningTry, TransactionTry
<1>12. ASSUME StepFails(t), call'[t] # call[t] PROVE CallInv(t)'
  <2>1. call'[t] = CaughtBy(call[t]) /\ call[t] \in SubmitSteps
    BY <1>b, <1>12 DEF StepFails, Throw
  <2> QED
    BY <1>a, <1>c, <1>12, <2>1
    DEF StepFails, tables, CaughtBy, SubmitSteps, ScreeningTry, TransactionTry
<1>13. ASSUME call'[t] = "lost" PROVE CallInv(t)'
  BY <1>13
<1> QED
  BY <1>1, <1>2, <1>3, <1>4, <1>5, <1>6, <1>7, <1>8, <1>9, <1>10, <1>11, <1>12, <1>13,
     WhoMoves

(* The audit event that goes with an answer is in the log.                 *)
LEMMA AnswersAudited ==
    ASSUME SubmissionInv, [SubmissionNext]_submissionVars, NEW t \in Transfers
    PROVE  /\ call'[t] = "completed" => <<"transfer.completed", t>> \in auditLog'
           /\ call'[t] = "failed" => <<"transfer.failed", t>> \in auditLog'
           /\ call'[t] = "rejected" => <<"transfer.blocked", t>> \in auditLog'
<1>a. SubmissionTypeOK
  BY DEF SubmissionInv
<1>b. call \in [Transfers -> CallStates]
  BY <1>a DEF SubmissionTypeOK, CallStates
<1>1. CASE call'[t] = call[t]
  BY <1>1, Persists DEF SubmissionInv, AnswersHold
<1>2. ASSUME LogAuditEvent(t), call'[t] # call[t]
      PROVE  /\ call'[t] = "completed" => <<"transfer.completed", t>> \in auditLog'
             /\ call'[t] = "failed" => <<"transfer.failed", t>> \in auditLog'
             /\ call'[t] = "rejected" => <<"transfer.blocked", t>> \in auditLog'
  <2>1. PICK a \in AuditTrail : At(t, a.at) /\ Logged(a.event, t) /\ Written(t, a.next)
    BY <1>2 DEF LogAuditEvent
  <2>2. call'[t] \in {a.next, CaughtBy(call[t])}
    BY <1>a, <1>2, <2>1, CallMoves DEF Written
  <2>3. <<a.event, t>> \in auditLog'
    BY <2>1 DEF Logged
  <2> QED
    BY <2>2, <2>3, TrailCases DEF CaughtBy
<1>3. ASSUME \/ SubmitWithoutTravelRule(t) \/ StoreTravelRule(t)
             \/ Assess(t) \/ PersistScreening(t) \/ StoreTransfer(t) \/ Send(t)
             \/ Confirm(t) \/ RecordCompleted(t) \/ RecordFailed(t) \/ StepFails(t)
      PROVE  call'[t] \notin {"completed", "failed", "rejected"}
  BY <1>b, <1>3 DEF SubmitWithoutTravelRule, StoreTravelRule, Assess, PersistScreening,
     StoreTransfer, Send, Confirm, RecordCompleted, RecordFailed, StepFails, Written,
     Advance, Throw, CaughtBy
<1> QED
  BY <1>1, <1>2, <1>3, WhoMoves

(* Only a call that moves writes its screening status and its verdict, and *)
(* it changes the verdict in one step.                                     *)
LEMMA VerdictWrites ==
    ASSUME SubmissionInv, [SubmissionNext]_submissionVars, NEW t \in Transfers
    PROVE  /\ verdict'[t] # verdict[t] => Assess(t) /\ call'[t] = "persisting"
           /\ call'[t] \in {call[t], "lost"} => screening'[t] = screening[t]
<1>a. /\ call \in [Transfers -> CallStates]
      /\ screening \in [Transfers -> {None, "cleared", "pending"}]
      /\ verdict \in [Transfers -> {None, "approved", "rejected"}]
  BY DEF SubmissionInv, SubmissionTypeOK, CallStates
<1>1. ASSUME NEW u \in Transfers, Assess(u)
      PROVE  /\ verdict'[t] # verdict[t] => Assess(t) /\ call'[t] = "persisting"
             /\ screening'[t] = screening[t]
  BY <1>a, <1>1 DEF Assess, Advance
<1>2. ASSUME NEW u \in Transfers, PersistScreening(u)
      PROVE  /\ verdict'[t] = verdict[t]
             /\ call'[t] \in {call[t], "lost"} => screening'[t] = screening[t]
  BY <1>a, <1>2 DEF PersistScreening, Advance, At
<1>3. ASSUME NEW u \in Transfers, NEW step, Advance(u, step) \/ Throw(u),
             call[u] \in SubmitSteps \cup {"idle"}
      PROVE  call'[t] \in {call[t], "lost"} => screening'[t] = screening[t]
  <2>1. CaughtBy(call[u]) \notin {call[u], "lost"}
    BY <1>3 DEF CaughtBy, SubmitSteps, ScreeningTry, TransactionTry
  <2> QED
    BY <1>a, <1>3, <2>1 DEF Advance, Throw
<1>4. ASSUME NEW u \in Transfers,
             \/ SubmitWithoutTravelRule(u) \/ StoreTravelRule(u) \/ LogAuditEvent(u)
             \/ StoreTransfer(u) \/ Send(u) \/ Confirm(u)
             \/ RecordCompleted(u) \/ RecordFailed(u) \/ StepFails(u)
      PROVE  /\ verdict'[t] = verdict[t]
             /\ call'[t] \in {call[t], "lost"} => screening'[t] = screening[t]
  <2>1. \E step : Advance(u, step) \/ Throw(u)
    BY <1>4 DEF SubmitWithoutTravelRule, StoreTravelRule, LogAuditEvent, StoreTransfer,
       Send, Confirm, RecordCompleted, RecordFailed, StepFails, Written
  <2>2. call[u] \in SubmitSteps \cup {"idle"}
    <3>1. ASSUME LogAuditEvent(u) PROVE call[u] \in SubmitSteps
      <4>1. PICK a \in AuditTrail : At(u, a.at)
        BY <3>1 DEF LogAuditEvent
      <4> QED
        BY <4>1, TrailCases DEF At, SubmitSteps, ScreeningTry, TransactionTry
    <3> QED
      BY <1>4, <3>1 DEF SubmitWithoutTravelRule, StoreTravelRule, StoreTransfer, Send,
         Confirm, RecordCompleted, RecordFailed, StepFails, At, SubmitSteps, TransactionTry
  <2>3. UNCHANGED verdict
    BY <1>4 DEF SubmitWithoutTravelRule, StoreTravelRule, LogAuditEvent, StoreTransfer,
       Send, Confirm, RecordCompleted, RecordFailed, StepFails
  <2> QED
    BY <1>3, <2>1, <2>2, <2>3
<1>5. ASSUME NEW u \in Transfers, NEW o \in Attests, Resolve(u) \/ FindTransfer(o, u)
      PROVE  UNCHANGED <<screening, verdict>>
  BY <1>5 DEF Resolve, FindTransfer, serverVars
<1>6. ASSUME NEW u \in Transfers, Resolve(u) PROVE UNCHANGED <<screening, verdict>>
  BY <1>6 DEF Resolve, serverVars
<1>7. ASSUME NEW o \in Attests, AttestCompliance(o) \/ ResolveMemo(o)
      PROVE  UNCHANGED <<screening, verdict>>
  BY <1>7 DEF AttestCompliance, FindTravelRule, SubmitAttestation, ConfirmAttestation,
     MarkAttested, AuditAttested, AttestFails, ResolveMemo, serverVars
<1>8. ASSUME Crash PROVE UNCHANGED <<screening, verdict>>
  BY <1>8 DEF Crash
<1>9. ASSUME UNCHANGED submissionVars PROVE UNCHANGED <<screening, verdict>>
  BY <1>9 DEF submissionVars
<1> QED
  BY <1>1, <1>2, <1>4, <1>5, <1>6, <1>7, <1>8, <1>9 DEF SubmissionNext, SubmitTransfer

(* Every step keeps what the calls know of the verdict.                    *)
LEMMA VerdictStep ==
    ASSUME SubmissionInv, [SubmissionNext]_submissionVars, NEW t \in Transfers
    PROVE  VerdictInv(t)'
<1>a. /\ call \in [Transfers -> CallStates]
      /\ screening \in [Transfers -> {None, "cleared", "pending"}]
      /\ verdict \in [Transfers -> {None, "approved", "rejected"}]
  BY DEF SubmissionInv, SubmissionTypeOK, CallStates
<1>b. VerdictInv(t)
  BY DEF SubmissionInv
<1>c. None # "cleared"
  BY SubmissionNoneAssumption
<1>1. CASE call'[t] = call[t]
  <2>1. screening'[t] = screening[t]
    BY <1>1, VerdictWrites
  <2>2. verdict'[t] = verdict[t]
    BY <1>1, VerdictWrites DEF Assess, At
  <2> QED
    BY <1>1, <1>b, <2>1, <2>2 DEF VerdictInv
<1>2. ASSUME Assess(t), call'[t] # call[t] PROVE VerdictInv(t)'
  <2>1. call[t] = "screening" /\ call'[t] = "persisting" /\ screening'[t] = screening[t]
    BY <1>a, <1>2 DEF Assess, Advance, At
  <2> QED
    BY <1>b, <1>c, <2>1 DEF VerdictInv
<1>3. ASSUME PersistScreening(t), call'[t] # call[t] PROVE VerdictInv(t)'
  <2>1. /\ call[t] = "persisting"
        /\ \/ call'[t] = "storing" /\ verdict'[t] = "approved"
           \/ call'[t] = "blocking" /\ verdict'[t] = "rejected" /\ screening'[t] = screening[t]
    BY <1>a, <1>3 DEF PersistScreening, Advance, At
  <2>2. verdict'[t] = verdict[t]
    BY <1>3 DEF PersistScreening
  <2> QED
    BY <1>b, <2>1, <2>2 DEF VerdictInv
<1>4. ASSUME NEW step, Advance(t, step) \/ Throw(t), call[t] \in SubmitSteps \cup {"idle"},
             UNCHANGED verdict,
             step \in {"auditing travel rule", "auditing package", "screening"} =>
                call[t] \in {"idle", "auditing travel rule"},
             step \in {"blocking", "rejected"} => call[t] = "blocking",
             step # "idle"
      PROVE  VerdictInv(t)'
  <2>1. CASE Advance(t, step)
    <3>1. call'[t] = step /\ screening'[t] = screening[t]
      BY <1>a, <2>1 DEF Advance
    <3> QED
      BY <1>4, <1>b, <1>c, <3>1 DEF VerdictInv
  <2>2. CASE Throw(t)
    <3>1. call'[t] = CaughtBy(call[t])
      BY <1>a, <2>2 DEF Throw
    <3>2. call'[t] \in {"storing", "failing", "thrown"}
      BY <3>1 DEF CaughtBy
    <3>3. screening'[t] \in {screening[t], "pending"}
      BY <1>a, <2>2 DEF Throw
    <3> QED
      BY <1>4, <1>b, <3>2, <3>3 DEF VerdictInv
  <2> QED
    BY <1>4, <2>1, <2>2
<1>5. ASSUME LogAuditEvent(t) PROVE VerdictInv(t)'
  <2>1. PICK a \in AuditTrail : At(t, a.at) /\ Written(t, a.next)
    BY <1>5 DEF LogAuditEvent
  <2>2. /\ call[t] = a.at /\ call[t] \in SubmitSteps
        /\ a.next \in {"auditing travel rule", "auditing package", "screening"} =>
              a.at = "auditing travel rule"
        /\ a.next \in {"blocking", "rejected"} => a.at = "blocking"
        /\ a.next # "idle"
    BY <2>1, TrailCases DEF At, SubmitSteps, ScreeningTry, TransactionTry
  <2>3. UNCHANGED verdict
    BY <1>5 DEF LogAuditEvent
  <2> QED
    BY <2>1, <2>2, <2>3, <1>4 DEF Written
<1>6. ASSUME \/ SubmitWithoutTravelRule(t) \/ StoreTravelRule(t) \/ StoreTransfer(t)
             \/ Send(t) \/ Confirm(t) \/ RecordCompleted(t) \/ RecordFailed(t)
             \/ StepFails(t)
      PROVE  VerdictInv(t)'
  <2>1. \/ /\ call[t] = "idle"
           /\ \E step \in {"screening", "storing", "auditing travel rule",
                           "auditing package"} : Advance(t, step) \/ Throw(t)
        \/ \E step \in {"auditing submitted", "confirming", "recording",
                         "auditing completed", "auditing failed"} :
              Advance(t, step) \/ Throw(t)
    BY <1>6 DEF SubmitWithoutTravelRule, StoreTravelRule, StoreTransfer, Send, Confirm,
       RecordCompleted, RecordFailed, StepFails, Written, At
  <2>2. call[t] \in SubmitSteps \cup {"idle"} /\ UNCHANGED verdict
    BY <1>6 DEF SubmitWithoutTravelRule, StoreTravelRule, StoreTransfer, Send, Confirm,
       RecordCompleted, RecordFailed, StepFails, At, SubmitSteps, ScreeningTry,
       TransactionTry
  <2> QED
    BY <2>1, <2>2, <1>4
<1>7. ASSUME call'[t] = "lost", ~Assess(t), ~PersistScreening(t), call'[t] # call[t]
      PROVE  VerdictInv(t)'
  <2>1. verdict'[t] = verdict[t]
    BY <1>7, VerdictWrites
  <2>2. screening'[t] = screening[t]
    BY <1>7, VerdictWrites
  <2> QED
    BY <1>7, <1>b, <2>1, <2>2 DEF VerdictInv
<1> QED
  BY <1>1, <1>2, <1>3, <1>5, <1>6, <1>7, WhoMoves

(* A cleared row is of an approved transfer: it is stored from the call's  *)
(* own status, and no update changes that column.                          *)
LEMMA RowsCleared ==
    ASSUME SubmissionInv, [SubmissionNext]_submissionVars, NEW t \in Transfers,
           rows'[t] # None, rows'[t].screeningStatus = "cleared"
    PROVE  verdict'[t] = "approved"
<1>a. /\ rows \in [Transfers -> TransferRow \cup {None}]
      /\ SubmissionTypeOK /\ VerdictInv(t) /\ CallInv(t)
      /\ rows[t] # None /\ rows[t].screeningStatus = "cleared" => verdict[t] = "approved"
  BY DEF SubmissionInv, SubmissionTypeOK, AnswersHold
<1>1. CASE StoreTransfer(t)
  <2>1. rows'[t].screeningStatus = screening[t] /\ UNCHANGED verdict
    BY <1>a, <1>1 DEF StoreTransfer
  <2> QED
    BY <1>a, <2>1 DEF VerdictInv
<1>2. CASE ~StoreTransfer(t)
  <2>1. rows[t] # None /\ rows'[t].screeningStatus = rows[t].screeningStatus
    <3>1. CASE rows'[t] = rows[t]
      BY <3>1
    <3>2. CASE RecordCompleted(t) \/ RecordFailed(t)
      <4>1. call[t] \in {"recording", "failing"}
        BY <3>2 DEF RecordCompleted, RecordFailed, At
      <4>2. rows[t] # None
        BY <4>1, <1>a DEF CallInv, AfterSubmitted, HasRow
      <4>3. \E status, txSignature : rows'[t] = Marked(rows[t], status, txSignature)
        BY <1>a, <3>2 DEF RecordCompleted, RecordFailed
      <4> QED
        BY <4>2, <4>3 DEF Marked
    <3>3. ASSUME NEW o \in Attests, MarkAttested(o), HasRow(t), rows'[t] # rows[t]
          PROVE  rows[t] # None /\ rows'[t].screeningStatus = rows[t].screeningStatus
      BY <3>3, <1>a DEF MarkAttested, Marked, HasRow
    <3> QED
      BY <1>2, <3>1, <3>2, <3>3, RowWrites
  <2>2. ASSUME verdict'[t] # verdict[t] PROVE FALSE
    <3>1. call[t] = "screening"
      BY <2>2, VerdictWrites DEF Assess, At
    <3> QED
      BY <3>1, <2>1, <1>a DEF CallInv, BeforeRow, HasRow
  <2> QED
    BY <1>a, <2>1, <2>2
<1> QED
  BY <1>1, <1>2

(* Every step keeps the answers true.                                      *)
LEMMA AnswersStep ==
    ASSUME SubmissionInv, [SubmissionNext]_submissionVars
    PROVE  AnswersHold'
<1> SUFFICES ASSUME NEW t \in Transfers
    PROVE /\ call'[t] = "completed" =>
                /\ chain'[t] = "landed"
                /\ rows'[t].status = COMPLETED
                /\ {<<"transfer.submitted", t>>, <<"transfer.completed", t>>} \subseteq auditLog'
          /\ call'[t] = "failed" =>
                /\ rows'[t].status = FAILED \/ Attested(t)'
                /\ {<<"transfer.submitted", t>>, <<"transfer.failed", t>>} \subseteq auditLog'
          /\ call'[t] = "rejected" =>
                /\ verdict'[t] = "rejected"
                /\ rows'[t] = None
                /\ chain'[t] = "absent"
                /\ <<"transfer.blocked", t>> \in auditLog'
          /\ rows'[t] # None /\ rows'[t].screeningStatus = "cleared" =>
                verdict'[t] = "approved"
  BY DEF AnswersHold, COMPLETED, FAILED
<1>1. CallInv(t)'
  BY CallStep
<1>2. VerdictInv(t)'
  BY VerdictStep
<1>3. rows'[t] # None /\ rows'[t].screeningStatus = "cleared" => verdict'[t] = "approved"
  BY RowsCleared
<1> QED
  BY <1>1, <1>2, <1>3, AnswersAudited
  DEF CallInv, VerdictInv, BeforeRow, AfterSubmitted, HasRow, COMPLETED, FAILED

-----------------------------------------------------------------------------
(* Steps of the oracle, and the evidence.                                  *)

(* A call of the oracle moves by a step of its own, or is lost.            *)
LEMMA WhoAttests ==
    ASSUME SubmissionInv, [SubmissionNext]_submissionVars, NEW o \in Attests,
           attest'[o] # attest[o]
    PROVE  \/ \E t \in Transfers : FindTransfer(o, t)
           \/ FindTravelRule(o) \/ SubmitAttestation(o) \/ ConfirmAttestation(o)
           \/ MarkAttested(o) \/ AuditAttested(o)
           \/ AttestFails(o) \/ Crash
<1>a. attest \in [Attests -> AttestStates]
  BY DEF SubmissionInv, SubmissionTypeOK, AttestStates
<1>1. ASSUME NEW p \in Attests,
             (\E t \in Transfers : FindTransfer(p, t)) \/ AttestCompliance(p)
      PROVE  p = o
  <2>1. attest' = [attest EXCEPT ![p] = attest'[p]]
    BY <1>a, <1>1 DEF FindTransfer, AttestCompliance, FindTravelRule, SubmitAttestation,
       ConfirmAttestation, MarkAttested, AuditAttested, AttestFails, AttestAt
  <2> QED
    BY <1>a, <2>1
<1>2. ASSUME NEW t \in Transfers,
             \/ SubmitWithoutTravelRule(t) \/ StoreTravelRule(t) \/ SubmitTransfer(t)
             \/ Resolve(t)
      PROVE  UNCHANGED attest
  BY <1>2 DEF SubmitTransfer, SubmitWithoutTravelRule, StoreTravelRule, LogAuditEvent,
     Assess, PersistScreening, StoreTransfer, Send, Confirm, RecordCompleted, RecordFailed,
     StepFails, Resolve, oracleVars
<1>3. ASSUME NEW p \in Attests, ResolveMemo(p) PROVE UNCHANGED attest
  BY <1>3 DEF ResolveMemo
<1> QED
  BY <1>1, <1>2, <1>3 DEF SubmissionNext, AttestCompliance, submissionVars

(* Every step keeps what the oracle knows.                                 *)
LEMMA OracleStep ==
    ASSUME SubmissionInv, [SubmissionNext]_submissionVars, NEW o \in Attests
    PROVE  OracleInv(o)'
<1>a. SubmissionTypeOK /\ OracleInv(o)
  BY DEF SubmissionInv
<1>b. attest \in [Attests -> AttestStates]
  BY <1>a DEF SubmissionTypeOK, AttestStates
<1>c. \A t \in Transfers : HasRow(t) => HasRow(t)'
  BY Persists
<1>d. memos \in [Attests -> TransactionStates]
  BY <1>a DEF SubmissionTypeOK
<1>e. subject \in [Attests -> AttestSubject \cup {None}]
  BY <1>a DEF SubmissionTypeOK
<1> USE DEF OracleInv, Subject
<1>1. CASE attest'[o] = attest[o]
  <2>1. subject'[o] = subject[o]
    <3>1. ASSUME NEW p \in Attests, NEW t \in Transfers, FindTransfer(p, t) PROVE p # o
      BY <1>1, <1>b, <3>1 DEF FindTransfer, AttestAt
    <3>2. ASSUME NEW p \in Attests, FindTravelRule(p) PROVE p # o
      BY <1>1, <1>b, <3>2 DEF FindTravelRule, AttestAt
    <3> QED
      BY <1>e, <3>1, <3>2, WhoWrites DEF FindTransfer, FindTravelRule
  <2>2. memos'[o] = memos[o] \/ memos[o] = "sent"
    <3>1. ASSUME NEW p \in Attests, SubmitAttestation(p) PROVE p # o
      BY <1>1, <1>b, <3>1 DEF SubmitAttestation, AttestAt
    <3> QED
      BY <1>d, <3>1, WhoWrites DEF SubmitAttestation, ResolveMemo
  <2> QED
    BY <1>1, <1>a, <1>c, <2>1, <2>2
<1>2. ASSUME NEW t \in Transfers, FindTransfer(o, t) PROVE OracleInv(o)'
  <2>1. subject'[o] = [table |-> "transfers", nonce |-> t]
    BY <1>e, <1>2 DEF FindTransfer
  <2>2. subject'[o] # None
    BY <2>1, SubmissionNoneAssumption DEF AttestSubject
  <2>3. memos'[o] = "absent"
    BY <1>a, <1>2 DEF FindTransfer
  <2>4. attest'[o] \in {"finding travel rule", "already_attested", "sending"}
    BY <1>b, <1>2 DEF FindTransfer, AttestAt
  <2>5. attest'[o] = "sending" => HasRow(t)
    BY <1>b, <1>2 DEF FindTransfer, AttestAt, HasRow
  <2>6. \A u \in Transfers : subject'[o] = [table |-> "transfers", nonce |-> u] => u = t
    BY <2>1
  <2> QED
    BY <1>c, <2>2, <2>3, <2>4, <2>5, <2>6
<1>3. ASSUME FindTravelRule(o) PROVE OracleInv(o)'
  <2>1. subject[o].nonce \in Transfers
    BY <1>3, SubjectTyped DEF FindTravelRule
  <2>2. subject'[o] = [table |-> "travel_rule_data", nonce |-> subject[o].nonce]
    BY <1>e, <1>3 DEF FindTravelRule
  <2>3. subject'[o] # None
    BY <2>1, <2>2, SubmissionNoneAssumption DEF AttestSubject
  <2>4. memos'[o] = "absent"
    BY <1>a, <1>3 DEF FindTravelRule
  <2>5. attest'[o] \in {"thrown", "already_attested", "sending"}
    BY <1>b, <1>3 DEF FindTravelRule, AttestAt
  <2>6. \A u \in Transfers : subject'[o] # [table |-> "transfers", nonce |-> u]
    BY <2>2
  <2> QED
    BY <2>3, <2>4, <2>5, <2>6
<1>4. ASSUME SubmitAttestation(o) PROVE OracleInv(o)'
  <2>1. attest[o] = "sending" /\ attest'[o] = "confirming" /\ UNCHANGED subject
    BY <1>b, <1>4 DEF SubmitAttestation, AttestAt
  <2> QED
    BY <1>a, <1>c, <2>1
<1>5. ASSUME ConfirmAttestation(o) PROVE OracleInv(o)'
  <2>1. /\ attest[o] = "confirming" /\ attest'[o] = "marking"
        /\ memos'[o] = "landed" /\ UNCHANGED subject
    BY <1>b, <1>5 DEF ConfirmAttestation, AttestAt
  <2> QED
    BY <1>a, <1>c, <2>1
<1>6. ASSUME MarkAttested(o) \/ AuditAttested(o) PROVE OracleInv(o)'
  <2>1. /\ attest[o] \in {"marking", "auditing"}
        /\ attest'[o] \in {"auditing", "attested", "thrown"}
        /\ UNCHANGED <<memos, subject>>
    BY <1>b, <1>6 DEF MarkAttested, AuditAttested, AttestAt
  <2> QED
    BY <1>a, <1>c, <2>1
<1>7. ASSUME AttestFails(o) \/ Crash, attest'[o] # attest[o] PROVE OracleInv(o)'
  <2>1. /\ attest[o] \in AttestSteps /\ attest'[o] \in {"thrown", "lost"}
        /\ UNCHANGED <<memos, subject>>
    BY <1>b, <1>7 DEF AttestFails, Crash, AttestAt
  <2> QED
    BY <1>a, <2>1 DEF AttestSteps
<1> QED
  BY <1>1, <1>2, <1>3, <1>4, <1>5, <1>6, <1>7, WhoAttests

(* Every step keeps the evidence for what is called completed.             *)
LEMMA EvidenceStep ==
    ASSUME SubmissionInv, [SubmissionNext]_submissionVars
    PROVE  CompletedHasEvidence'
<1> USE DEF PENDING, COMPLETED, FAILED
<1> SUFFICES ASSUME NEW t \in Transfers
    PROVE  /\ rows'[t] # None /\ rows'[t].status = COMPLETED =>
                 \/ rows'[t].txSignature = "transfer" /\ chain'[t] = "landed"
                 \/ rows'[t].txSignature = "memo" /\ Attested(t)'
           /\ <<"transfer.completed", t>> \in auditLog' =>
                 chain'[t] = "landed" \/ Attested(t)'
  BY DEF CompletedHasEvidence
<1>a. SubmissionTypeOK /\ CallInv(t) /\ CompletedHasEvidence
  BY DEF SubmissionInv
<1>b. /\ chain[t] = "landed" => chain'[t] = "landed"
      /\ Attested(t) => Attested(t)'
  BY Persists
<1>1. rows'[t] # None /\ rows'[t].status = COMPLETED =>
         \/ rows'[t].txSignature = "transfer" /\ chain'[t] = "landed"
         \/ rows'[t].txSignature = "memo" /\ Attested(t)'
  <2>1. RecordCompleted(t) => chain[t] = "landed"
    BY <1>a DEF CallInv, RecordCompleted, At
  <2>2. rows[t] # None /\ rows[t].status = COMPLETED =>
           \/ rows[t].txSignature = "transfer" /\ chain[t] = "landed"
           \/ rows[t].txSignature = "memo" /\ Attested(t)
    BY <1>a DEF CompletedHasEvidence
  <2>3. CASE rows'[t] = rows[t]
    BY <1>b, <2>2, <2>3
  <2>4. CASE rows'[t] # rows[t]
    BY <1>b, <2>1, <2>4, RowWrites
  <2> QED
    BY <2>3, <2>4
<1>2. ASSUME <<"transfer.completed", t>> \in auditLog', <<"transfer.completed", t>> \notin auditLog
      PROVE  chain[t] = "landed" \/ Attested(t)
  <2>1. ASSUME NEW u \in Transfers, LogAuditEvent(u) PROVE chain[t] = "landed"
    <3>1. PICK a \in AuditTrail : At(u, a.at) /\ Logged(a.event, u)
      BY <2>1 DEF LogAuditEvent
    <3>2. u = t /\ a.event = "transfer.completed"
      BY <1>2, <3>1 DEF Logged
    <3>3. call[t] = "auditing completed"
      BY <3>1, <3>2, TrailCases DEF At
    <3> QED
      BY <1>a, <3>3 DEF CallInv
  <2>2. ASSUME NEW o \in Attests, AuditAttested(o) PROVE Attested(t)
    <3>1. attest[o] = "auditing" /\ t = subject[o].nonce /\ subject[o].table = "transfers"
      BY <1>2, <2>2 DEF AuditAttested, Logged
    <3> QED
      BY <3>1, AttestedRow
  <2> QED
    BY <1>2, <2>1, <2>2, WhoWrites
<1> QED
  BY <1>1, <1>2, <1>a, <1>b DEF CompletedHasEvidence

-----------------------------------------------------------------------------
(* The theorems.                                                           *)

(* The inductive invariant holds of the specification.                     *)
LEMMA SubmissionInvariant == SubmissionSpec => []SubmissionInv
<1>1. SubmissionInit => SubmissionInv
  <2> SUFFICES ASSUME SubmissionInit PROVE SubmissionInv
    OBVIOUS
  <2>1. SubmissionTypeOK
    BY DEF SubmissionInit, SubmissionTypeOK, TransactionStates
  <2>2. ASSUME NEW t \in Transfers PROVE CallInv(t)
    BY DEF SubmissionInit, CallInv, BeforeRow, AfterSubmitted, HasRow
  <2>6. ASSUME NEW t \in Transfers PROVE VerdictInv(t)
    BY SubmissionNoneAssumption DEF SubmissionInit, VerdictInv
  <2>3. ASSUME NEW o \in Attests PROVE OracleInv(o)
    BY DEF SubmissionInit, OracleInv
  <2>4. CompletedHasEvidence
    BY DEF SubmissionInit, CompletedHasEvidence
  <2>5. AnswersHold
    BY DEF SubmissionInit, AnswersHold
  <2> QED
    BY <2>1, <2>2, <2>3, <2>4, <2>5, <2>6 DEF SubmissionInv
<1>2. SubmissionInv /\ [SubmissionNext]_submissionVars => SubmissionInv'
  <2> SUFFICES ASSUME SubmissionInv, [SubmissionNext]_submissionVars
               PROVE  SubmissionInv'
    OBVIOUS
  <2> QED
    BY TypeStep, CallStep, VerdictStep, OracleStep, EvidenceStep, AnswersStep DEF SubmissionInv
<1> QED
  BY <1>1, <1>2, PTL DEF SubmissionSpec

(* The tables, the chain and the calls in flight keep their types.         *)
THEOREM SubmissionTypeCorrect == SubmissionSpec => []SubmissionTypeOK
<1>1. SubmissionInv => SubmissionTypeOK
  BY DEF SubmissionInv
<1> QED
  BY <1>1, SubmissionInvariant, PTL

(* Whatever fails, and however the oracle's calls interleave with each     *)
(* other and with the submission, completed means evidence on chain.       *)
THEOREM EvidenceCorrect == SubmissionSpec => []CompletedHasEvidence
<1>1. SubmissionInv => CompletedHasEvidence
  BY DEF SubmissionInv
<1> QED
  BY <1>1, SubmissionInvariant, PTL

(* What submitTransfer answers agrees with verdict, row, audit log and     *)
(* chain, and only what the provider approved is recorded as cleared.      *)
THEOREM AnswersCorrect == SubmissionSpec => []AnswersHold
<1>1. SubmissionInv => AnswersHold
  BY DEF SubmissionInv
<1> QED
  BY <1>1, SubmissionInvariant, PTL
=============================================================================
