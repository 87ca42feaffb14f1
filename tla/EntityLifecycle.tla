----------------------------- MODULE EntityLifecycle -----------------------------
(***************************************************************************)
(* The API's entities: an institution's verified wallets, and everything   *)
(* that changes their rows while others do: the institution's own calls,   *)
(* Sumsub's review results, Chainalysis' alerts, and acceptance of another *)
(* institution's entity along the off-chain trust network.                 *)
(*                                                                         *)
(* A handler's steps are the stretches between its awaits.  Any await can  *)
(* throw; a sender that gets no 200 delivers again, so a crash of the      *)
(* server is the failure of every handler at once.  The encrypted columns  *)
(* are KeyManager's; SAS is the Solana Attestation Service, of which only  *)
(* the accounts written are kept.                                          *)
(***************************************************************************)
EXTENDS Integers, FiniteSets

CONSTANTS
    Institutions, Wallets,
    Jurisdiction,   \* Jurisdiction[i]: fixed when i is created
    TrustTerms,     \* [minKycLevel, requireSameJurisdiction] records on offer
    Grants,         \* [kycLevel, riskScore] records POST /v1/entities sends
    Patches,        \* <<column, value>> pairs PATCH /v1/entities sends
    LevelNames,     \* names of the Sumsub levels in use
    Answers,        \* review answers: GREEN, or RED by its reject type
    Ratings,        \* ratings of alerts
    Reviews,        \* review results Sumsub may produce
    Alerts,         \* alerts Chainalysis may produce
    Requests,       \* concurrent slow requests of institutions
    MaxFailures,    \* deliveries that fail, in one behaviour
    None

PENDING == 0
ACTIVE == 1
REVOKED == 3

\* The score of a verified user, and those of an alert by its rating.
ReviewedScore == 10
AlertScore == [medium |-> 50, severe |-> 100]

ASSUME EntityAssumption ==
    /\ None \notin Institutions
    /\ Grants \subseteq [kycLevel : 0..3, riskScore : 0..100]
    /\ Patches \subseteq ({"kycLevel", "status"} \X (0..3)) \cup ({"riskScore"} \X (0..100))
    /\ Ratings \subseteq DOMAIN AlertScore
    /\ MaxFailures \in Nat

Keys == Institutions \X Wallets

\* An applicant is known by the request that had it created.
Applicants == Institutions \X Wallets \X Requests

EntityRow ==
    [kycLevel : 0..3, riskScore : 0..100, status : 0..3,
     sumsubApplicantId : Applicants \cup {None},
     sumsubReviewStatus : {None, "completed", "retry", "rejected"},
     kycProvider : {"self", "sumsub"},
     kycHash : Institutions \cup {None},        \* whose fields it commits to
     sasAttestationAddress : BOOLEAN,
     originalInstitutionId : Institutions \cup {None}]

ASSUME NoneIsNoEntity == None \notin EntityRow

NewRow ==
    [kycLevel |-> 0, riskScore |-> 0, status |-> PENDING, sumsubApplicantId |-> None,
     sumsubReviewStatus |-> None, kycProvider |-> "self", kycHash |-> None,
     sasAttestationAddress |-> FALSE, originalInstitutionId |-> None]

ReviewSteps == {"none", "sent", "found", "syncing", "attesting", "storing",
                "auditing", "acknowledged"}

AlertSteps == {"none", "sent", "updating", "auditing", "scoring", "acknowledged"}

RequestSteps == {"idle", "creating-applicant", "recording-applicant",
                 "reading-source", "accepting"}

Attested == [kycLevel : 0..3, riskScore : 0..100]

ReviewRecord ==
    [step : ReviewSteps, applicant : Applicants \cup {None}, answer : Answers \cup {None},
     level : 0..3, entity : Keys \cup {None}, attested : Attested \cup {None},
     applied : BOOLEAN]

AlertRecord ==
    [step : AlertSteps, institution : Institutions \cup {None}, rating : Ratings \cup {None},
     todo : SUBSET Keys, entity : Keys \cup {None}, revoked : SUBSET Keys]

RequestRecord ==
    [step : RequestSteps, key : Keys \cup {None}, existed : BOOLEAN,
     source : Institutions \cup {None}, terms : TrustTerms \cup {None},
     found : EntityRow \cup {None}]

VARIABLES
    entities,       \* entities[<<i, w>>]: the entities table
    active,         \* active[i]: institutions.active
    trustNetwork,   \* trustNetwork[<<i, j>>]: the terms i trusts j on
    applicants,     \* applicants that exist at Sumsub
    attestations,   \* attestations[w]: the wallet's SAS account
    review,         \* review[r]: a result, and its delivery in progress
    alert,          \* alert[a]: an alert, and its delivery in progress
    request,        \* request[q]: a verification or an acceptance
    failures        \* deliveries that have failed

entityVars == <<entities, active, trustNetwork, applicants, attestations,
                review, alert, request, failures>>
handlers == <<review, alert, request>>
tables == <<entities, active, trustNetwork>>
outside == <<applicants, attestations>>

IdleRequest == [step |-> "idle", key |-> None, existed |-> FALSE, source |-> None,
                terms |-> None, found |-> None]

EntityInit ==
    /\ entities = [e \in Keys |-> None]
    /\ active = [i \in Institutions |-> TRUE]
    /\ trustNetwork = [p \in Institutions \X Institutions |-> None]
    /\ applicants = {}
    /\ attestations = [w \in Wallets |-> None]
    /\ review = [r \in Reviews |-> [step |-> "none", applicant |-> None, answer |-> None,
                    level |-> 0, entity |-> None, attested |-> None, applied |-> FALSE]]
    /\ alert = [a \in Alerts |-> [step |-> "none", institution |-> None, rating |-> None,
                    todo |-> {}, entity |-> None, revoked |-> {}]]
    /\ request = [q \in Requests |-> IdleRequest]
    /\ failures = 0
-----------------------------------------------------------------------------
(* The institution's own calls.                                            *)

\* Only an active institution's API key is let in.
Authenticated(i) == active[i]

\* A mutant of Insert: a row that is not revoked is replaced.
Upsert(e, row) ==
    /\ entities[e] # None => entities[e].status # REVOKED
    /\ entities' = [entities EXCEPT ![e] = row]

\* A unique constraint refuses a second row for a wallet.
Insert(e, row) == entities[e] = None /\ entities' = [entities EXCEPT ![e] = row]

CreateEntity(i, w, grant) ==
    /\ Authenticated(i)
    /\ Insert(<<i, w>>, [NewRow EXCEPT !.kycLevel = grant.kycLevel,
            !.riskScore = grant.riskScore, !.status = ACTIVE, !.kycHash = i])
    /\ UNCHANGED <<active, trustNetwork, outside, handlers, failures>>

\* PATCH sets any of three columns to anything; DELETE is status 3.
UpdateEntity(i, w, patch) ==
    /\ Authenticated(i)
    /\ entities[<<i, w>>] # None
    /\ entities' = [entities EXCEPT ![<<i, w>>][patch[1]] = patch[2]]
    /\ UNCHANGED <<active, trustNetwork, outside, handlers, failures>>

\* The route takes the institution to change from its path.
UpdateInstitution(i, j, on) ==
    /\ Authenticated(i)
    /\ active' = [active EXCEPT ![j] = on]
    /\ UNCHANGED <<entities, trustNetwork, outside, handlers, failures>>

AddTrustedInstitution(i, j, terms) ==
    /\ Authenticated(i) /\ i # j /\ active[j]
    /\ trustNetwork[<<i, j>>] = None
    /\ trustNetwork' = [trustNetwork EXCEPT ![<<i, j>>] = terms]
    /\ UNCHANGED <<entities, active, outside, handlers, failures>>

RemoveTrustedInstitution(i, j) ==
    /\ Authenticated(i)
    /\ trustNetwork[<<i, j>>] # None
    /\ trustNetwork' = [trustNetwork EXCEPT ![<<i, j>>] = None]
    /\ UNCHANGED <<entities, active, outside, handlers, failures>>
-----------------------------------------------------------------------------
(* acceptExternalAttestation: trust, source, existing row, insert.         *)

At(q, step) == request[q].step = step

Steps(q, new) == request' = [request EXCEPT ![q] = new]

CheckTrust(q, i, j, w) ==
    /\ Authenticated(i) /\ At(q, "idle")
    /\ trustNetwork[<<i, j>>] # None
    /\ Steps(q, [IdleRequest EXCEPT !.step = "reading-source", !.key = <<i, w>>,
                    !.source = j, !.terms = trustNetwork[<<i, j>>]])
    /\ UNCHANGED <<tables, outside, review, alert, failures>>

Acceptable(row, i, j, terms) ==
    /\ row # None
    /\ row.status = ACTIVE
    /\ row.kycLevel >= terms.minKycLevel
    /\ terms.requireSameJurisdiction => Jurisdiction[i] = Jurisdiction[j]

\* A mutant of AcceptedRow: a copy, having no fields, has no hash.
AcceptedUnhashed(row, j) ==
    [NewRow EXCEPT !.kycLevel = row.kycLevel, !.riskScore = row.riskScore,
        !.status = ACTIVE, !.originalInstitutionId = j]

\* No column with personal data is taken over.
AcceptedRow(row, j) ==
    [NewRow EXCEPT !.kycLevel = row.kycLevel, !.riskScore = row.riskScore,
        !.status = ACTIVE, !.kycHash = row.kycHash, !.originalInstitutionId = j]

ReadSource(q) ==
    LET me == request[q]
        row == entities[<<me.source, me.key[2]>>]
    IN  /\ At(q, "reading-source")
        /\ Steps(q, IF Acceptable(row, me.key[1], me.source, me.terms)
                    THEN [me EXCEPT !.step = "accepting", !.found = AcceptedRow(row, me.source)]
                    ELSE IdleRequest)
        /\ UNCHANGED <<tables, outside, review, alert, failures>>

\* A row that came meanwhile is refused, by the check or by the constraint.
AcceptExternalAttestation(q) ==
    /\ At(q, "accepting")
    /\ \/ Insert(request[q].key, request[q].found)
       \/ entities[request[q].key] # None /\ UNCHANGED entities
    /\ Steps(q, IdleRequest)
    /\ UNCHANGED <<active, trustNetwork, outside, review, alert, failures>>
-----------------------------------------------------------------------------
(* initiateVerification.  With an applicant on the row nothing is written. *)

InitiateVerification(q, i, w) ==
    LET row == entities[<<i, w>>]
    IN  /\ Authenticated(i) /\ At(q, "idle")
        /\ ~(row # None /\ row.sumsubApplicantId # None)
        /\ Steps(q, [IdleRequest EXCEPT !.step = "creating-applicant", !.key = <<i, w>>,
                        !.existed = (row # None)])
        /\ UNCHANGED <<tables, outside, review, alert, failures>>

CreateApplicant(q) ==
    /\ At(q, "creating-applicant")
    /\ applicants' = applicants \cup {<<request[q].key[1], request[q].key[2], q>>}
    /\ Steps(q, [request[q] EXCEPT !.step = "recording-applicant"])
    /\ UNCHANGED <<tables, attestations, review, alert, failures>>

RecordApplicant(q) ==
    LET e == request[q].key
        a == <<e[1], e[2], q>>
    IN  /\ At(q, "recording-applicant")
        /\ \/ /\ request[q].existed
              /\ entities' = [entities EXCEPT ![e].sumsubApplicantId = a,
                                              ![e].kycProvider = "sumsub"]
           \/ /\ ~request[q].existed
              /\ Insert(e, [NewRow EXCEPT !.sumsubApplicantId = a, !.kycProvider = "sumsub"])
           \/ /\ ~request[q].existed /\ entities[e] # None
              /\ UNCHANGED entities
        /\ Steps(q, IdleRequest)
        /\ UNCHANGED <<active, trustNetwork, outside, review, alert, failures>>

RequestFails(q) ==
    /\ ~At(q, "idle")
    /\ Steps(q, IdleRequest)
    /\ UNCHANGED <<tables, outside, review, alert, failures>>
-----------------------------------------------------------------------------
(* processVerificationResult and its webhook.                              *)

ReviewStep(r, step) == review' = [review EXCEPT ![r].step = step]

\* What a handler knew ends with it, or with its attempt to attest.
ReviewLeaves(r, step) ==
    review' = [review EXCEPT ![r] = [review[r] EXCEPT !.step = step, !.attested = None,
                  !.entity = IF step = "auditing" THEN review[r].entity ELSE None]]

\* Any name that says neither enhanced nor full counts as basic.
KycLevelOf(name) ==
    CASE name = "full" -> 3 [] name = "enhanced" -> 2 [] OTHER -> 1

\* Sumsub decides about an applicant, at the level it was created for.
SendReview(r, a, answer, level) ==
    /\ review[r].step = "none"
    /\ a \in applicants
    /\ review' = [review EXCEPT ![r].step = "sent", ![r].applicant = a,
                                ![r].answer = answer, ![r].level = level]
    /\ UNCHANGED <<tables, outside, alert, request, failures>>

\* Found by wallet alone, the first row of whichever institution.
Matching(r) == {e \in Keys : e[2] = review[r].applicant[2] /\ entities[e] # None}

FindEntity(r) ==
    /\ review[r].step = "sent"
    /\ \E e \in Matching(r) : review' = [review EXCEPT ![r].step = "found", ![r].entity = e]
    /\ UNCHANGED <<tables, outside, alert, request, failures>>

ReviewedRow(row, answer, level) ==
    IF answer = "GREEN"
    THEN [row EXCEPT !.status = ACTIVE, !.kycLevel = level, !.riskScore = ReviewedScore,
            !.sumsubReviewStatus = "completed", !.kycProvider = "sumsub"]
    ELSE [row EXCEPT !.status = REVOKED, !.kycProvider = "sumsub",
            !.sumsubReviewStatus = IF answer = "RETRY" THEN "retry" ELSE "rejected"]

\* A mutant of AfterReview: what is attested is left to the status.
AlwaysSyncing(answer) == "syncing"

AfterReview(answer) == IF answer = "GREEN" THEN "syncing" ELSE "auditing"

ApplyReview(r) ==
    LET me == review[r]
    IN  /\ me.step = "found"
        /\ entities' = [entities EXCEPT ![me.entity] = ReviewedRow(@, me.answer, me.level)]
        /\ review' = [review EXCEPT ![r].applied = TRUE, ![r].step = AfterReview(me.answer)]
        /\ UNCHANGED <<active, trustNetwork, outside, alert, request, failures>>

\* syncAttestationOnChain reads the row again, and stops unless active.
ReadForAttestation(r) ==
    LET row == entities[review[r].entity]
    IN  /\ review[r].step = "syncing"
        /\ review' = [review EXCEPT
              ![r].step = IF row.status = ACTIVE THEN "attesting" ELSE "auditing",
              ![r].attested = IF row.status = ACTIVE
                              THEN [kycLevel |-> row.kycLevel, riskScore |-> row.riskScore]
                              ELSE None]
        /\ UNCHANGED <<tables, outside, alert, request, failures>>

\* One account per wallet: schema and attester are the server's own.  That
\* the transaction ran into an error, its confirmation says in a value
\* nobody reads.
CreateAttestation(r) ==
    /\ review[r].step = "attesting"
    /\ \/ attestations' = [attestations EXCEPT ![review[r].entity[2]] = review[r].attested]
       \/ UNCHANGED attestations
    /\ ReviewStep(r, "storing")
    /\ UNCHANGED <<tables, applicants, alert, request, failures>>

\* A mutant of StoreAttestationAddress: the row read before is saved whole.
StoreActiveRow(r) ==
    /\ review[r].step = "storing"
    /\ entities' = [entities EXCEPT ![review[r].entity].sasAttestationAddress = TRUE,
                                    ![review[r].entity].status = ACTIVE]
    /\ ReviewLeaves(r, "auditing")
    /\ UNCHANGED <<active, trustNetwork, outside, alert, request, failures>>

StoreAttestationAddress(r) ==
    /\ review[r].step = "storing"
    /\ entities' = [entities EXCEPT ![review[r].entity].sasAttestationAddress = TRUE]
    /\ ReviewLeaves(r, "auditing")
    /\ UNCHANGED <<active, trustNetwork, outside, alert, request, failures>>

AcknowledgeReview(r) ==
    /\ review[r].step = "auditing"
    /\ ReviewLeaves(r, "acknowledged")
    /\ UNCHANGED <<tables, outside, alert, request, failures>>

\* A mutant of AfterReviewError: the webhook answers 200 all the same.
AcknowledgedAnyway(r) ==
    IF review[r].step \in {"syncing", "attesting", "storing"} THEN "auditing" ELSE "acknowledged"

\* Where a review that throws goes on: the attestation's errors are caught,
\* any other is answered 500 and delivered again.
AfterReviewError(r) ==
    IF review[r].step \in {"syncing", "attesting", "storing"} THEN "auditing" ELSE "sent"

ReviewFails(r) ==
    /\ review[r].step \notin {"none", "sent", "acknowledged"}
    /\ failures < MaxFailures
    /\ failures' = failures + 1
    /\ ReviewLeaves(r, AfterReviewError(r)) \/ ReviewLeaves(r, "sent")
    /\ UNCHANGED <<tables, outside, alert, request>>
-----------------------------------------------------------------------------
(* processAlert and its webhook.                                           *)

SendAlert(a, i, rating) ==
    /\ alert[a].step = "none"
    /\ alert' = [alert EXCEPT ![a].step = "sent", ![a].institution = i, ![a].rating = rating]
    /\ UNCHANGED <<tables, outside, review, request, failures>>

\* A mutant of Resume: the loop returns after its first entity.
ResumeNever(todo) == "acknowledged"

Resume(todo) == IF todo = {} THEN "acknowledged" ELSE "updating"

\* All entities of the institution the alert names.
SelectAffected(a) ==
    LET affected == {e \in Keys : e[1] = alert[a].institution /\ entities[e] # None}
    IN  /\ alert[a].step = "sent"
        /\ alert' = [alert EXCEPT ![a].todo = affected, ![a].step = Resume(affected)]
        /\ UNCHANGED <<tables, outside, review, request, failures>>

AlertedRow(row, rating) ==
    [row EXCEPT !.riskScore = AlertScore[rating],
                !.status = IF rating = "severe" THEN REVOKED ELSE @]

UpdateAffected(a) ==
    /\ alert[a].step = "updating"
    /\ \E e \in alert[a].todo :
        /\ entities' = [entities EXCEPT ![e] = AlertedRow(@, alert[a].rating)]
        /\ alert' = [alert EXCEPT ![a].step = "auditing", ![a].entity = e]
    /\ UNCHANGED <<active, trustNetwork, outside, review, request, failures>>

AuditAffected(a) ==
    /\ alert[a].step = "auditing"
    /\ alert' = [alert EXCEPT ![a].step = "scoring",
            ![a].revoked = IF alert[a].rating = "severe" THEN @ \cup {alert[a].entity} ELSE @]
    /\ UNCHANGED <<tables, outside, review, request, failures>>

\* The score goes to the wallet's rows under every institution, and to the
\* chain at best effort; no error of this step stops the loop.
UpdateRiskScoreOnChain(a) ==
    LET me == alert[a]
        todo == me.todo \ {me.entity}
    IN  /\ me.step = "scoring"
        /\ \/ entities' = [e \in Keys |->
                IF e[2] = me.entity[2] /\ entities[e] # None
                THEN [entities[e] EXCEPT !.riskScore = AlertScore[me.rating]]
                ELSE entities[e]]
           \/ UNCHANGED entities
        /\ alert' = [alert EXCEPT ![a].todo = todo, ![a].entity = None, ![a].step = Resume(todo)]
        /\ UNCHANGED <<active, trustNetwork, outside, review, request, failures>>

AlertFails(a) ==
    /\ alert[a].step \in {"updating", "auditing"}
    /\ failures < MaxFailures
    /\ failures' = failures + 1
    /\ alert' = [alert EXCEPT ![a].step = "sent", ![a].todo = {}, ![a].entity = None]
    /\ UNCHANGED <<tables, outside, review, request>>
-----------------------------------------------------------------------------
HandleReview(r) ==
    \/ FindEntity(r) \/ ApplyReview(r) \/ ReadForAttestation(r)
    \/ CreateAttestation(r) \/ StoreAttestationAddress(r) \/ AcknowledgeReview(r)

HandleAlert(a) ==
    \/ SelectAffected(a) \/ UpdateAffected(a) \/ AuditAffected(a)
    \/ UpdateRiskScoreOnChain(a)

EntityNext ==
    \/ \E i \in Institutions :
        \/ \E w \in Wallets, g \in Grants : CreateEntity(i, w, g)
        \/ \E w \in Wallets, p \in Patches : UpdateEntity(i, w, p)
        \/ \E j \in Institutions, on \in BOOLEAN : UpdateInstitution(i, j, on)
        \/ \E j \in Institutions, t \in TrustTerms : AddTrustedInstitution(i, j, t)
        \/ \E j \in Institutions : RemoveTrustedInstitution(i, j)
    \/ \E q \in Requests :
        \/ \E i, j \in Institutions, w \in Wallets : CheckTrust(q, i, j, w)
        \/ ReadSource(q) \/ AcceptExternalAttestation(q)
        \/ \E i \in Institutions, w \in Wallets : InitiateVerification(q, i, w)
        \/ CreateApplicant(q) \/ RecordApplicant(q) \/ RequestFails(q)
    \/ \E r \in Reviews :
        \/ \E a \in applicants, answer \in Answers, n \in LevelNames :
              SendReview(r, a, answer, KycLevelOf(n))
        \/ HandleReview(r) \/ ReviewFails(r)
    \/ \E a \in Alerts :
        \/ \E i \in Institutions, rating \in Ratings : SendAlert(a, i, rating)
        \/ HandleAlert(a) \/ AlertFails(a)

EntityFairness ==
    /\ \A r \in Reviews : WF_entityVars(HandleReview(r))
    /\ \A a \in Alerts : WF_entityVars(HandleAlert(a))

EntitySpec == EntityInit /\ [][EntityNext]_entityVars /\ EntityFairness
-----------------------------------------------------------------------------
(* Rows, records of deliveries and requests keep to their types.           *)
EntityTypeOK ==
    /\ entities \in [Keys -> EntityRow \cup {None}]
    /\ active \in [Institutions -> BOOLEAN]
    /\ trustNetwork \in [Institutions \X Institutions -> TrustTerms \cup {None}]
    /\ applicants \subseteq Applicants
    /\ attestations \in [Wallets -> Attested \cup {None}]
    /\ review \in [Reviews -> ReviewRecord]
    /\ alert \in [Alerts -> AlertRecord]
    /\ request \in [Requests -> RequestRecord]
    /\ failures \in 0..MaxFailures

(* A copy carries its source's KYC hash, along chains of acceptances and   *)
(* whatever happens to either row afterwards: rows are never replaced.     *)
CopiesShareTheHash ==
    \A e \in Keys : entities[e] # None /\ entities[e].originalInstitutionId # None =>
        LET source == entities[<<entities[e].originalInstitutionId, e[2]>>]
        IN  source # None /\ source.kycHash = entities[e].kycHash

(* No group of institutions holds a wallet's entity only by acceptance     *)
(* from each other, however acceptances, trust and insertions interleave.  *)
OriginsWellFounded ==
    \A w \in Wallets, group \in (SUBSET Institutions) \ {{}} :
        (\A i \in group : entities[<<i, w>>] # None) =>
        \E i \in group : entities[<<i, w>>].originalInstitutionId \notin group

(* A wallet is attested on chain, and a row says so, only after a review   *)
(* that approved it was applied: that its row is active, which is all that *)
(* syncAttestationOnChain looks at, the institution can also bring about   *)
(* itself, while a review is being processed.                              *)
AttestedOnApproval ==
    \A w \in Wallets :
        \/ attestations[w] # None
        \/ \E i \in Institutions :
              entities[<<i, w>>] # None /\ entities[<<i, w>>].sasAttestationAddress
        => \E r \in Reviews : /\ review[r].applied /\ review[r].answer = "GREEN"
                              /\ review[r].applicant[2] = w

(* A revoked entity becomes active again by the institution's own request  *)
(* or by an approved review, never as a side effect of scoring, syncing,   *)
(* an applicant being recorded or a redelivered alert.                     *)
ReactivatedOnPurpose ==
    [][\A e \in Keys :
        entities[e] # None /\ entities[e].status = REVOKED /\ entities'[e].status # REVOKED =>
            \/ UNCHANGED <<outside, handlers, failures>>
            \/ \E r \in Reviews : /\ ~review[r].applied \/ review[r].step = "found"
                                  /\ review[r].entity = e /\ review[r].answer = "GREEN"
                                  /\ review'[r].step = "syncing"]_entityVars

(* A review of a wallet that has a row is applied and then acknowledged,   *)
(* however often processing throws on the way.                             *)
ReviewIsApplied ==
    \A r \in Reviews : review[r].step = "sent" /\ Matching(r) # {} ~>
        review[r].applied /\ review[r].step = "acknowledged"

(* A severe alert revokes, and records in the audit log, every entity that *)
(* its institution had when the alert came, also when the loop breaks off. *)
SevereAlertRevokesAll ==
    \A a \in Alerts, e \in Keys :
        /\ alert[a].step = "sent" /\ alert[a].rating = "severe"
        /\ alert[a].institution = e[1] /\ entities[e] # None
        ~> e \in alert[a].revoked /\ alert[a].step = "acknowledged"
=============================================================================
