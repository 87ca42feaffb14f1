------------------------- MODULE TransferSubmission -------------------------
(***************************************************************************)
(* The API's transfers: submitTransfer stores travel rule data, screens,   *)
(* stores a row, sends the on-chain transfer and records how it ended;     *)
(* packageTravelRule stores travel rule data alone; attestCompliance, the  *)
(* oracle, writes a memo on chain for a nonce and marks its row.  The      *)
(* steps of a call are the stretches of code between two awaits.  Any      *)
(* await can throw, a write's answer can be lost, and the server can stop. *)
(*                                                                         *)
(* The chain is seen from outside: a transaction once sent is in flight    *)
(* until it lands or is dropped, whatever the server hears of it.  What    *)
(* landing does is ExecuteCompliantTransfer of CompliantTransfers.         *)
(***************************************************************************)
EXTENDS Integers, FiniteSets

CONSTANTS
    Transfers,      \* nonces, one drawn by each call that stores something
    Attests,        \* calls of the oracle
    None            \* no row, null, or no nonce yet

PENDING == 0
COMPLETED == 1
FAILED == 2

TRAVEL_RULE_STORED == 0
TRAVEL_RULE_ATTESTED == 2

(* Rows of the transfers table; of the signature only whose it is.         *)
TransferRow ==
    [status : {PENDING, COMPLETED, FAILED},
     screeningStatus : {None, "cleared", "pending"},
     txSignature : {None, "transfer", "memo"}]

EventTypes ==
    {"travel_rule.created", "transfer.submitted", "transfer.completed",
     "transfer.failed", "transfer.blocked", "travel_rule.approved"}

(* Where a submitTransfer or packageTravelRule call is, and how it ended.  *)
ScreeningTry == {"screening", "persisting", "blocking"}

TransactionTry == {"sending", "confirming", "recording", "auditing completed"}

SubmitSteps ==
    ScreeningTry \cup TransactionTry \cup
    {"auditing travel rule", "auditing package", "storing", "auditing submitted",
     "failing", "auditing failed"}

Answers == {"completed", "failed", "rejected", "packaged", "thrown"}

AttestSteps ==
    {"finding travel rule", "sending", "confirming", "marking", "auditing"}

AttestAnswers == {"attested", "already_attested", "thrown"}

(* What a call of the oracle is about: a nonce and the table it is read in.*)
AttestSubject == [table : {"transfers", "travel_rule_data"}, nonce : Transfers]

ASSUME SubmissionNoneAssumption ==
    None \notin TransferRow /\ None \notin AttestSubject /\ None # "cleared"

VARIABLES
    rows,           \* rows[t]: the transfers table, by nonce
    travelRules,    \* travelRules[t]: status in travel_rule_data, by nonce
    auditLog,       \* the <<event type, nonce>> written
    chain,          \* chain[t]: the transfer's transaction
    memos,          \* memos[o]: the memo transaction of attest call o
    call,           \* call[t]: the step of the call that drew t
    screening,      \* screening[t]: its local screeningStatus
    verdict,        \* verdict[t]: the provider's assessment, once it is known
    attest,         \* attest[o]: the step of attest call o
    subject         \* subject[o]: its nonce and the table it found it in

serverVars == <<call, screening, verdict>>
tables == <<rows, travelRules, auditLog>>
oracleVars == <<memos, attest, subject>>
submissionVars == <<rows, travelRules, auditLog, chain, memos, call, screening,
                    verdict, attest, subject>>

TransactionStates == {"absent", "sent", "landed", "dropped"}

SubmissionInit ==
    /\ rows = [t \in Transfers |-> None]
    /\ travelRules = [t \in Transfers |-> None]
    /\ auditLog = {}
    /\ chain = [t \in Transfers |-> "absent"]
    /\ memos = [o \in Attests |-> "absent"]
    /\ call = [t \in Transfers |-> "idle"]
    /\ screening = [t \in Transfers |-> None]
    /\ verdict = [t \in Transfers |-> None]
    /\ attest = [o \in Attests |-> "idle"]
    /\ subject = [o \in Attests |-> None]

-----------------------------------------------------------------------------
(* submitTransfer.                                                         *)

(* Mutant of CaughtBy: an error of the last audit write is swallowed.      *)
CaughtUnlessAudit(step) ==
    IF step \in ScreeningTry THEN "storing"
    ELSE IF step = "auditing completed" THEN "completed"
    ELSE IF step \in TransactionTry THEN "failing"
    ELSE "thrown"

(* Where an exception thrown in a step takes the call: to the catch around *)
(* the screening, to the one around the transaction, or out of the handler.*)
CaughtBy(step) ==
    IF step \in ScreeningTry THEN "storing"
    ELSE IF step \in TransactionTry THEN "failing"
    ELSE "thrown"

(* An update of a row's status and signature.                              *)
Marked(row, status, txSignature) ==
    [status |-> status, screeningStatus |-> row.screeningStatus,
     txSignature |-> txSignature]

Advance(t, step) ==
    /\ call' = [call EXCEPT ![t] = step]
    /\ UNCHANGED screening

(* The screening's catch proceeds with status "pending".                   *)
Throw(t) ==
    /\ call' = [call EXCEPT ![t] = CaughtBy(call[t])]
    /\ screening' = [screening EXCEPT ![t] =
                       IF call[t] \in ScreeningTry THEN "pending" ELSE @]

(* A write took place and returned, or its answer was lost on the way.     *)
Written(t, step) == Advance(t, step) \/ Throw(t)

At(t, step) == call[t] = step

Logged(event, t) == auditLog' = auditLog \cup {<<event, t>>}

(* The optional travel rule is followed by the screening where a key for   *)
(* the provider is configured, by the insert of the row where none is.     *)
SubmitWithoutTravelRule(t) ==
    /\ At(t, "idle")
    /\ \E step \in {"screening", "storing"} : Advance(t, step)
    /\ UNCHANGED <<tables, chain, oracleVars, verdict>>

(* The same insert in submitTransfer and in packageTravelRule.             *)
StoreTravelRule(t) ==
    /\ At(t, "idle")
    /\ travelRules' = [travelRules EXCEPT ![t] = TRAVEL_RULE_STORED]
    /\ \E step \in {"auditing travel rule", "auditing package"} : Written(t, step)
    /\ UNCHANGED <<rows, auditLog, chain, oracleVars, verdict>>

(* The steps that write an audit event, and where each leads; the event of *)
(* a blocked transfer is followed by the 403 thrown.                       *)
AuditTrail ==
    {[at |-> "auditing travel rule", event |-> "travel_rule.created", next |-> "screening"],
     [at |-> "auditing travel rule", event |-> "travel_rule.created", next |-> "storing"],
     [at |-> "auditing package", event |-> "travel_rule.created", next |-> "packaged"],
     [at |-> "blocking", event |-> "transfer.blocked", next |-> "rejected"],
     [at |-> "auditing submitted", event |-> "transfer.submitted", next |-> "sending"],
     [at |-> "auditing completed", event |-> "transfer.completed", next |-> "completed"],
     [at |-> "auditing failed", event |-> "transfer.failed", next |-> "failed"]}

LogAuditEvent(t) ==
    /\ \E a \in AuditTrail : At(t, a.at) /\ Logged(a.event, t) /\ Written(t, a.next)
    /\ UNCHANGED <<rows, travelRules, chain, oracleVars, verdict>>

(* The provider's answer, or medium risk when it takes too long.           *)
Assess(t) ==
    /\ At(t, "screening")
    /\ \E v \in {"approved", "rejected"} : verdict' = [verdict EXCEPT ![t] = v]
    /\ Advance(t, "persisting")
    /\ UNCHANGED <<tables, chain, oracleVars>>

(* Mutant of PersistScreening: the verdict is kept as the status.          *)
PersistVerdict(t) ==
    /\ At(t, "persisting")
    /\ \/ /\ verdict[t] = "approved"
          /\ call' = [call EXCEPT ![t] = "storing"]
          /\ screening' = [screening EXCEPT ![t] = verdict[t]]
       \/ verdict[t] = "rejected" /\ Advance(t, "blocking")
    /\ UNCHANGED <<tables, chain, oracleVars, verdict>>

(* The screening's own row and audit event are written before it returns;  *)
(* they are not read by the code modelled here.                            *)
PersistScreening(t) ==
    /\ At(t, "persisting")
    /\ \/ /\ verdict[t] = "approved"
          /\ call' = [call EXCEPT ![t] = "storing"]
          /\ screening' = [screening EXCEPT ![t] = "cleared"]
       \/ verdict[t] = "rejected" /\ Advance(t, "blocking")
    /\ UNCHANGED <<tables, chain, oracleVars, verdict>>

StoreTransfer(t) ==
    /\ At(t, "storing")
    /\ rows' = [rows EXCEPT ![t] =
           [status |-> PENDING, screeningStatus |-> screening[t], txSignature |-> None]]
    /\ Written(t, "auditing submitted")
    /\ UNCHANGED <<travelRules, auditLog, chain, oracleVars, verdict>>

Send(t) ==
    /\ At(t, "sending")
    /\ chain' = [chain EXCEPT ![t] = "sent"]
    /\ Advance(t, "confirming")
    /\ UNCHANGED <<tables, oracleVars, verdict>>

(* Mutant of Confirm: sending is taken for landing.                        *)
ConfirmWhenSent(t) ==
    /\ At(t, "confirming")
    /\ Advance(t, "recording")
    /\ UNCHANGED <<tables, chain, oracleVars, verdict>>

Confirm(t) ==
    /\ At(t, "confirming")
    /\ chain[t] = "landed"
    /\ Advance(t, "recording")
    /\ UNCHANGED <<tables, chain, oracleVars, verdict>>

RecordCompleted(t) ==
    /\ At(t, "recording")
    /\ rows' = [rows EXCEPT ![t] = Marked(@, COMPLETED, "transfer")]
    /\ Written(t, "auditing completed")
    /\ UNCHANGED <<travelRules, auditLog, chain, oracleVars, verdict>>

(* The catch around the transaction: any error in it, before or after the  *)
(* transaction was sent, landed or recorded.                               *)
RecordFailed(t) ==
    /\ At(t, "failing")
    /\ rows' = [rows EXCEPT ![t] = Marked(@, FAILED, @.txSignature)]
    /\ Written(t, "auditing failed")
    /\ UNCHANGED <<travelRules, auditLog, chain, oracleVars, verdict>>

(* Mutant of StepFails: nobody gives up on a confirmation that never comes.*)
StepFailsUnlessWaiting(t) ==
    /\ call[t] \in SubmitSteps \ {"confirming"}
    /\ Throw(t)
    /\ UNCHANGED <<tables, chain, oracleVars, verdict>>

(* Provider, database or RPC node out of reach, a transaction the node     *)
(* refuses, a confirmation that does not come in time.                     *)
StepFails(t) ==
    /\ call[t] \in SubmitSteps
    /\ Throw(t)
    /\ UNCHANGED <<tables, chain, oracleVars, verdict>>

SubmitTransfer(t) ==
    \/ LogAuditEvent(t)
    \/ Assess(t) \/ PersistScreening(t)
    \/ StoreTransfer(t)
    \/ Send(t) \/ Confirm(t) \/ RecordCompleted(t) \/ RecordFailed(t)
    \/ StepFails(t)

-----------------------------------------------------------------------------
(* attestCompliance.                                                       *)

(* Nonces are random: the oracle learns one from a row or an audit event.  *)
Known(t) == rows[t] # None \/ \E event \in EventTypes : <<event, t>> \in auditLog

AttestAt(o, step) == attest' = [attest EXCEPT ![o] = step]

Subject(table, t) == [table |-> table, nonce |-> t]

(* The first lookup: a transfer that is not completed will be attested.    *)
FindTransfer(o, t) ==
    /\ attest[o] = "idle"
    /\ Known(t)
    /\ subject' = [subject EXCEPT ![o] = Subject("transfers", t)]
    /\ IF rows[t] = None THEN AttestAt(o, "finding travel rule")
       ELSE IF rows[t].status = COMPLETED THEN AttestAt(o, "already_attested")
       ELSE AttestAt(o, "sending")
    /\ UNCHANGED <<tables, chain, memos, serverVars>>

(* The fallback, read after another await.                                 *)
FindTravelRule(o) ==
    LET t == subject[o].nonce IN
    /\ attest[o] = "finding travel rule"
    /\ subject' = [subject EXCEPT ![o] = Subject("travel_rule_data", t)]
    /\ IF travelRules[t] = None THEN AttestAt(o, "thrown")
       ELSE IF travelRules[t] = TRAVEL_RULE_ATTESTED THEN AttestAt(o, "already_attested")
       ELSE AttestAt(o, "sending")
    /\ UNCHANGED <<tables, chain, memos, serverVars>>

SubmitAttestation(o) ==
    /\ attest[o] = "sending"
    /\ memos' = [memos EXCEPT ![o] = "sent"]
    /\ AttestAt(o, "confirming")
    /\ UNCHANGED <<tables, chain, subject, serverVars>>

ConfirmAttestation(o) ==
    /\ attest[o] = "confirming"
    /\ memos[o] = "landed"
    /\ AttestAt(o, "marking")
    /\ UNCHANGED <<tables, chain, memos, subject, serverVars>>

(* The row's status by now is not looked at.                               *)
MarkAttested(o) ==
    LET t == subject[o].nonce IN
    /\ attest[o] = "marking"
    /\ \/ /\ subject[o].table = "transfers"
          /\ rows' = [rows EXCEPT ![t] = Marked(@, COMPLETED, "memo")]
          /\ UNCHANGED travelRules
       \/ /\ subject[o].table = "travel_rule_data"
          /\ travelRules' = [travelRules EXCEPT ![t] = TRAVEL_RULE_ATTESTED]
          /\ UNCHANGED rows
    /\ AttestAt(o, "auditing") \/ AttestAt(o, "thrown")
    /\ UNCHANGED <<auditLog, chain, memos, subject, serverVars>>

AuditAttested(o) ==
    /\ attest[o] = "auditing"
    /\ Logged(IF subject[o].table = "transfers" THEN "transfer.completed"
                                                ELSE "travel_rule.approved",
              subject[o].nonce)
    /\ AttestAt(o, "attested") \/ AttestAt(o, "thrown")
    /\ UNCHANGED <<rows, travelRules, chain, memos, subject, serverVars>>

AttestFails(o) ==
    /\ attest[o] \in AttestSteps
    /\ AttestAt(o, "thrown")
    /\ UNCHANGED <<tables, chain, memos, subject, serverVars>>

AttestCompliance(o) ==
    \/ FindTravelRule(o)
    \/ SubmitAttestation(o) \/ ConfirmAttestation(o)
    \/ MarkAttested(o) \/ AuditAttested(o)
    \/ AttestFails(o)

-----------------------------------------------------------------------------
(* The chain and the server's process.                                     *)

Resolve(t) ==
    /\ chain[t] = "sent"
    /\ \E outcome \in {"landed", "dropped"} : chain' = [chain EXCEPT ![t] = outcome]
    /\ UNCHANGED <<tables, oracleVars, serverVars>>

ResolveMemo(o) ==
    /\ memos[o] = "sent"
    /\ \E outcome \in {"landed", "dropped"} : memos' = [memos EXCEPT ![o] = outcome]
    /\ UNCHANGED <<tables, chain, attest, subject, serverVars>>

(* Calls in flight are gone; the tables and the chain are not.             *)
Crash ==
    /\ \/ \E t \in Transfers : call[t] \in SubmitSteps
       \/ \E o \in Attests : attest[o] \in AttestSteps
    /\ call' = [t \in Transfers |-> IF call[t] \in SubmitSteps THEN "lost" ELSE call[t]]
    /\ attest' = [o \in Attests |-> IF attest[o] \in AttestSteps THEN "lost" ELSE attest[o]]
    /\ UNCHANGED <<tables, chain, memos, subject, screening, verdict>>

SubmissionNext ==
    \/ \E t \in Transfers :
          \/ SubmitWithoutTravelRule(t)
          \/ StoreTravelRule(t)
          \/ SubmitTransfer(t)
          \/ Resolve(t)
          \/ \E o \in Attests : FindTransfer(o, t)
    \/ \E o \in Attests : AttestCompliance(o) \/ ResolveMemo(o)
    \/ Crash

(* While the server runs it takes the next step of every call; nothing     *)
(* makes a client call, the chain decide or the server stop.               *)
Fairness == \A t \in Transfers : WF_submissionVars(SubmitTransfer(t))

SubmissionSpec == SubmissionInit /\ [][SubmissionNext]_submissionVars /\ Fairness

-----------------------------------------------------------------------------
(* Properties.                                                             *)

(* Rows, calls and transactions hold what the code puts there.             *)
SubmissionTypeOK ==
    /\ rows \in [Transfers -> TransferRow \cup {None}]
    /\ travelRules \in [Transfers -> {None, TRAVEL_RULE_STORED, TRAVEL_RULE_ATTESTED}]
    /\ auditLog \subseteq EventTypes \X Transfers
    /\ chain \in [Transfers -> TransactionStates]
    /\ memos \in [Attests -> TransactionStates]
    /\ call \in [Transfers -> SubmitSteps \cup Answers \cup {"idle", "lost"}]
    /\ screening \in [Transfers -> {None, "cleared", "pending"}]
    /\ verdict \in [Transfers -> {None, "approved", "rejected"}]
    /\ attest \in [Attests -> AttestSteps \cup AttestAnswers \cup {"idle", "lost"}]
    /\ subject \in [Attests -> AttestSubject \cup {None}]

Attested(t) ==
    \E o \in Attests : memos[o] = "landed" /\ subject[o] = Subject("transfers", t)

(* A transfer is called completed, in its row or in the audit log, only    *)
(* when the chain holds the transaction: the transfer's own, or a memo of  *)
(* the oracle for this transfer, the one the row's signature is of.        *)
CompletedHasEvidence ==
    \A t \in Transfers :
        /\ rows[t] # None /\ rows[t].status = COMPLETED =>
              \/ rows[t].txSignature = "transfer" /\ chain[t] = "landed"
              \/ rows[t].txSignature = "memo" /\ Attested(t)
        /\ <<"transfer.completed", t>> \in auditLog => chain[t] = "landed" \/ Attested(t)

(* What a client is told agrees with the row, the audit log and the chain, *)
(* then and for ever after: completed is landed, recorded and audited;     *)
(* failed is audited and stands unless the oracle attests the transfer; a  *)
(* rejected transfer was rejected by the provider, has no row, is on no    *)
(* chain and was audited as blocked.  A row that is cleared is of a        *)
(* transfer the provider approved: a rejected one that a failed write lets *)
(* through the catch keeps the status pending.                             *)
AnswersHold ==
    \A t \in Transfers :
        /\ call[t] = "completed" =>
              /\ chain[t] = "landed"
              /\ rows[t].status = COMPLETED
              /\ {<<"transfer.submitted", t>>, <<"transfer.completed", t>>} \subseteq auditLog
        /\ call[t] = "failed" =>
              /\ rows[t].status = FAILED \/ Attested(t)
              /\ {<<"transfer.submitted", t>>, <<"transfer.failed", t>>} \subseteq auditLog
        /\ call[t] = "rejected" =>
              /\ verdict[t] = "rejected"
              /\ rows[t] = None
              /\ chain[t] = "absent"
              /\ <<"transfer.blocked", t>> \in auditLog
        /\ rows[t] # None /\ rows[t].screeningStatus = "cleared" => verdict[t] = "approved"

IsPending(t) == rows[t] # None /\ rows[t].status = PENDING

(* A transfer does not stay pending: unless its call is cut short, by a    *)
(* failure no catch records or by the end of the server, the row is marked *)
(* one way or the other, even when the chain never answers.                *)
PendingIsResolved ==
    \A t \in Transfers :
        IsPending(t) ~> (~IsPending(t) \/ call[t] \in {"thrown", "lost"})
=============================================================================
