------------------------- MODULE EntityLifecycle_proofs -------------------------
(***************************************************************************)
(* Theorems about EntityLifecycle, for any institutions, wallets, reviews, *)
(* alerts and requests.  No step removes a row or replaces its KYC hash or *)
(* its origin; a step inserts one row at most, where none is, and a copy   *)
(* names a row that is there.  The safety properties follow from that.     *)
(***************************************************************************)
EXTENDS EntityLifecycle, TLAPS

Row == EntityRow \cup {None}

(* What an update leaves of a row.                                         *)
Kept(row, new) ==
    /\ new \in EntityRow
    /\ new.kycHash = row.kycHash
    /\ new.originalInstitutionId = row.originalInstitutionId

RowsKept ==
    /\ entities' \in [Keys -> Row]
    /\ \A e \in Keys : IF entities[e] = None THEN entities'[e] = None
                       ELSE Kept(entities[e], entities'[e])

(* A row of one's own, or a copy of a row that is there.                   *)
Origin(e, row) ==
    LET i == row.originalInstitutionId
        source == entities[<<i, e[2]>>]
    IN  i # None => i \in Institutions \ {e[1]} /\ source # None
                       /\ source.kycHash = row.kycHash

RowInserted ==
    \E e \in Keys, row \in EntityRow :
        /\ entities[e] = None
        /\ entities' = [entities EXCEPT ![e] = row]
        /\ ~row.sasAttestationAddress
        /\ Origin(e, row)

AttestedRow(e) == entities[e] # None /\ entities[e].sasAttestationAddress

(* A row's attestation is recorded by a review that is about to.           *)
RecordedByReview ==
    \A e \in Keys : AttestedRow(e)' =>
        AttestedRow(e) \/ \E r \in Reviews : review[r].step = "storing" /\ review[r].entity = e

RequestInv(q) ==
    LET me == request[q]
    IN  /\ me.step # "idle" => me.key \in Keys
        /\ me.step \in {"creating-applicant", "recording-applicant"} /\ me.existed =>
              entities[me.key] # None
        /\ me.step \in {"reading-source", "accepting"} =>
              me.source \in Institutions /\ me.source # me.key[1]
        /\ me.step = "accepting" =>
              /\ me.found \in EntityRow
              /\ me.found.originalInstitutionId = me.source
              /\ ~me.found.sasAttestationAddress
              /\ entities[<<me.source, me.key[2]>>] # None
              /\ entities[<<me.source, me.key[2]>>].kycHash = me.found.kycHash

ReviewInv(r) ==
    LET me == review[r]
    IN  /\ me.step = "none" => ~me.applied
        /\ me.step # "none" => me.applicant \in Applicants /\ me.answer \in Answers
        /\ me.step \in {"found", "syncing", "attesting", "storing"} =>
              me.entity \in Keys /\ me.entity[2] = me.applicant[2] /\ entities[me.entity] # None
        /\ me.step \in {"syncing", "attesting", "storing"} => me.applied /\ me.answer = "GREEN"
        /\ me.step = "attesting" => me.attested \in Attested

AlertInv(a) ==
    LET me == alert[a]
    IN  /\ me.step # "none" => me.rating \in Ratings
        /\ \A e \in me.todo : entities[e] # None
        /\ me.step \in {"auditing", "scoring"} => me.entity \in Keys

EntityInv ==
    /\ EntityTypeOK
    /\ \A q \in Requests : RequestInv(q)
    /\ \A r \in Reviews : ReviewInv(r)
    /\ \A a \in Alerts : AlertInv(a)
    /\ \A i \in Institutions : trustNetwork[<<i, i>>] = None
    /\ CopiesShareTheHash
    /\ OriginsWellFounded
    /\ AttestedOnApproval
-----------------------------------------------------------------------------
(* Rows.                                                                   *)

(* One column at a time.                                                   *)
LEMMA ColumnTypes ==
    ASSUME NEW row \in EntityRow
    PROVE  /\ \A v \in 0..3 : [row EXCEPT !.kycLevel = v] \in EntityRow
           /\ \A v \in 0..100 : [row EXCEPT !.riskScore = v] \in EntityRow
           /\ \A v \in 0..3 : [row EXCEPT !.status = v] \in EntityRow
           /\ \A v \in {"completed", "retry", "rejected"} :
                 [row EXCEPT !.sumsubReviewStatus = v] \in EntityRow
           /\ \A v \in {"self", "sumsub"} : [row EXCEPT !.kycProvider = v] \in EntityRow
           /\ \A v \in Institutions \cup {None} : [row EXCEPT !.kycHash = v] \in EntityRow
           /\ \A v \in Institutions \cup {None} :
                 [row EXCEPT !.originalInstitutionId = v] \in EntityRow
           /\ \A v \in Applicants : [row EXCEPT !.sumsubApplicantId = v] \in EntityRow
BY DEF EntityRow

LEMMA NewRowType == NewRow \in EntityRow
BY DEF NewRow, EntityRow, PENDING

LEMMA GrantedRowType ==
    ASSUME NEW grant \in Grants, NEW i \in Institutions
    PROVE  [NewRow EXCEPT !.kycLevel = grant.kycLevel, !.riskScore = grant.riskScore,
               !.status = ACTIVE, !.kycHash = i] \in EntityRow
<1>1. grant.kycLevel \in 0..3 /\ grant.riskScore \in 0..100 /\ ACTIVE \in 0..3
  BY EntityAssumption DEF ACTIVE
<1> DEFINE r1 == [NewRow EXCEPT !.kycLevel = grant.kycLevel]
           r2 == [r1 EXCEPT !.riskScore = grant.riskScore]
           r3 == [r2 EXCEPT !.status = ACTIVE]
           r4 == [r3 EXCEPT !.kycHash = i]
<1>2. r1 \in EntityRow
  BY <1>1, NewRowType, ColumnTypes
<1>3. r2 \in EntityRow
  <2> HIDE DEF r1
  <2> QED BY <1>1, <1>2, ColumnTypes
<1>4. r3 \in EntityRow
  <2> HIDE DEF r2
  <2> QED BY <1>1, <1>3, ColumnTypes
<1>5. r4 \in EntityRow
  <2> HIDE DEF r3
  <2> QED BY <1>4, ColumnTypes
<1> QED
  BY <1>5

LEMMA ApplicantRowType ==
    ASSUME NEW row \in EntityRow, NEW a \in Applicants
    PROVE  [row EXCEPT !.sumsubApplicantId = a, !.kycProvider = "sumsub"] \in EntityRow
<1> DEFINE r1 == [row EXCEPT !.sumsubApplicantId = a]
<1>1. r1 \in EntityRow
  BY ColumnTypes
<1> HIDE DEF r1
<1>2. [r1 EXCEPT !.kycProvider = "sumsub"] \in EntityRow
  BY <1>1, ColumnTypes
<1> QED
  BY <1>2 DEF r1

LEMMA ReviewedRowType ==
    ASSUME NEW row \in EntityRow, NEW answer, NEW level \in 0..3
    PROVE  ReviewedRow(row, answer, level) \in EntityRow
<1>1. CASE answer = "GREEN"
  <2> DEFINE r1 == [row EXCEPT !.status = ACTIVE]
             r2 == [r1 EXCEPT !.kycLevel = level]
             r3 == [r2 EXCEPT !.riskScore = ReviewedScore]
             r4 == [r3 EXCEPT !.sumsubReviewStatus = "completed"]
             r5 == [r4 EXCEPT !.kycProvider = "sumsub"]
  <2>1. ReviewedRow(row, answer, level) = r5
    BY <1>1 DEF ReviewedRow
  <2>2. ACTIVE \in 0..3 /\ ReviewedScore \in 0..100
    BY DEF ACTIVE, ReviewedScore
  <2>3. r1 \in EntityRow
    BY <2>2, ColumnTypes
  <2>4. r2 \in EntityRow
    <3> HIDE DEF r1
    <3> QED BY <2>3, ColumnTypes
  <2>5. r3 \in EntityRow
    <3> HIDE DEF r2
    <3> QED BY <2>2, <2>4, ColumnTypes
  <2>6. r4 \in EntityRow
    <3> HIDE DEF r3
    <3> QED BY <2>5, ColumnTypes
  <2>7. r5 \in EntityRow
    <3> HIDE DEF r4
    <3> QED BY <2>6, ColumnTypes
  <2> QED
    BY <2>1, <2>7
<1>2. CASE answer # "GREEN"
  <2> DEFINE status == IF answer = "RETRY" THEN "retry" ELSE "rejected"
             r1 == [row EXCEPT !.status = REVOKED]
             r2 == [r1 EXCEPT !.kycProvider = "sumsub"]
             r3 == [r2 EXCEPT !.sumsubReviewStatus = status]
  <2>1. ReviewedRow(row, answer, level) = r3
    BY <1>2 DEF ReviewedRow
  <2>2. REVOKED \in 0..3 /\ status \in {"completed", "retry", "rejected"}
    BY DEF REVOKED
  <2> HIDE DEF status
  <2>3. r1 \in EntityRow
    BY <2>2, ColumnTypes
  <2>4. r2 \in EntityRow
    <3> HIDE DEF r1
    <3> QED BY <2>3, ColumnTypes
  <2>5. r3 \in EntityRow
    <3> HIDE DEF r2
    <3> QED BY <2>2, <2>4, ColumnTypes
  <2> QED
    BY <2>1, <2>5
<1> QED
  BY <1>1, <1>2

LEMMA AcceptedRowType ==
    ASSUME NEW row \in EntityRow, NEW j \in Institutions
    PROVE  AcceptedRow(row, j) \in EntityRow
<1> DEFINE r1 == [NewRow EXCEPT !.kycLevel = row.kycLevel]
           r2 == [r1 EXCEPT !.riskScore = row.riskScore]
           r3 == [r2 EXCEPT !.status = ACTIVE]
           r4 == [r3 EXCEPT !.kycHash = row.kycHash]
           r5 == [r4 EXCEPT !.originalInstitutionId = j]
<1>1. AcceptedRow(row, j) = r5
  BY DEF AcceptedRow
<1>2. /\ row.kycLevel \in 0..3 /\ row.riskScore \in 0..100 /\ ACTIVE \in 0..3
      /\ row.kycHash \in Institutions \cup {None}
  BY DEF EntityRow, ACTIVE
<1>3. r1 \in EntityRow
  BY <1>2, NewRowType, ColumnTypes
<1>4. r2 \in EntityRow
  <2> HIDE DEF r1
  <2> QED BY <1>2, <1>3, ColumnTypes
<1>5. r3 \in EntityRow
  <2> HIDE DEF r2
  <2> QED BY <1>2, <1>4, ColumnTypes
<1>6. r4 \in EntityRow
  <2> HIDE DEF r3
  <2> QED BY <1>2, <1>5, ColumnTypes
<1>7. r5 \in EntityRow
  <2> HIDE DEF r4
  <2> QED BY <1>6, ColumnTypes
<1> QED
  BY <1>1, <1>7

LEMMA AlertedRowType ==
    ASSUME NEW row \in EntityRow, NEW rating, AlertScore[rating] \in 0..100
    PROVE  AlertedRow(row, rating) \in EntityRow
<1> DEFINE status == IF rating = "severe" THEN REVOKED ELSE row.status
           r1 == [row EXCEPT !.riskScore = AlertScore[rating]]
           r2 == [r1 EXCEPT !.status = status]
<1>1. AlertedRow(row, rating) = r2
  BY DEF AlertedRow, EntityRow
<1>2. status \in 0..3
  BY DEF EntityRow, REVOKED
<1>3. r1 \in EntityRow
  BY ColumnTypes
<1> HIDE DEF r1, status
<1>4. r2 \in EntityRow
  BY <1>2, <1>3, ColumnTypes
<1> QED
  BY <1>1, <1>4

LEMMA PatchKeeps ==
    ASSUME NEW row \in EntityRow, NEW p \in Patches
    PROVE  LET new == [row EXCEPT ![p[1]] = p[2]]
           IN  Kept(row, new) /\ new.sasAttestationAddress = row.sasAttestationAddress
<1>1. \/ p[1] = "kycLevel" /\ p[2] \in 0..3
      \/ p[1] = "status" /\ p[2] \in 0..3
      \/ p[1] = "riskScore" /\ p[2] \in 0..100
  BY EntityAssumption
<1>2. ASSUME p[1] = "kycLevel", p[2] \in 0..3
      PROVE  LET new == [row EXCEPT !["kycLevel"] = p[2]]
             IN  Kept(row, new) /\ new.sasAttestationAddress = row.sasAttestationAddress
  BY <1>2 DEF Kept, EntityRow
<1>3. ASSUME p[1] = "status", p[2] \in 0..3
      PROVE  LET new == [row EXCEPT !["status"] = p[2]]
             IN  Kept(row, new) /\ new.sasAttestationAddress = row.sasAttestationAddress
  BY <1>3 DEF Kept, EntityRow
<1>4. ASSUME p[1] = "riskScore", p[2] \in 0..100
      PROVE  LET new == [row EXCEPT !["riskScore"] = p[2]]
             IN  Kept(row, new) /\ new.sasAttestationAddress = row.sasAttestationAddress
  BY <1>4 DEF Kept, EntityRow
<1> QED
  BY <1>1, <1>2, <1>3, <1>4

LEMMA UpdatesKeep ==
    ASSUME NEW row \in EntityRow
    PROVE  /\ \A a \in Applicants :
                 LET new == [row EXCEPT !.sumsubApplicantId = a, !.kycProvider = "sumsub"]
                 IN  Kept(row, new) /\ new.sasAttestationAddress = row.sasAttestationAddress
           /\ \A answer \in Answers, level \in 0..3 :
                 LET new == ReviewedRow(row, answer, level)
                 IN  Kept(row, new) /\ new.sasAttestationAddress = row.sasAttestationAddress
           /\ \A rating \in Ratings :
                 LET new == AlertedRow(row, rating)
                 IN  Kept(row, new) /\ new.sasAttestationAddress = row.sasAttestationAddress
           /\ \A rating \in Ratings :
                 LET new == [row EXCEPT !.riskScore = AlertScore[rating]]
                 IN  Kept(row, new) /\ new.sasAttestationAddress = row.sasAttestationAddress
           /\ Kept(row, [row EXCEPT !.sasAttestationAddress = TRUE])
<1>1. \A rating \in Ratings : AlertScore[rating] \in 0..100
  BY EntityAssumption DEF AlertScore
<1>2. \A a \in Applicants :
         LET new == [row EXCEPT !.sumsubApplicantId = a, !.kycProvider = "sumsub"]
         IN  Kept(row, new) /\ new.sasAttestationAddress = row.sasAttestationAddress
  BY DEF Kept, EntityRow
<1>3. \A answer \in Answers, level \in 0..3 :
         LET new == ReviewedRow(row, answer, level)
         IN  Kept(row, new) /\ new.sasAttestationAddress = row.sasAttestationAddress
  <2> SUFFICES ASSUME NEW answer \in Answers, NEW level \in 0..3
               PROVE  LET new == ReviewedRow(row, answer, level)
                      IN  /\ Kept(row, new)
                          /\ new.sasAttestationAddress = row.sasAttestationAddress
    OBVIOUS
  <2>1. ReviewedRow(row, answer, level) \in EntityRow
    BY ReviewedRowType
  <2>2. LET new == ReviewedRow(row, answer, level)
        IN  /\ new.kycHash = row.kycHash
            /\ new.originalInstitutionId = row.originalInstitutionId
            /\ new.sasAttestationAddress = row.sasAttestationAddress
    BY DEF ReviewedRow, EntityRow
  <2> QED
    BY <2>1, <2>2 DEF Kept
<1>4. \A rating \in Ratings :
         LET new == AlertedRow(row, rating)
         IN  Kept(row, new) /\ new.sasAttestationAddress = row.sasAttestationAddress
  <2> SUFFICES ASSUME NEW rating \in Ratings
               PROVE  LET new == AlertedRow(row, rating)
                      IN  /\ Kept(row, new)
                          /\ new.sasAttestationAddress = row.sasAttestationAddress
    OBVIOUS
  <2>1. AlertScore[rating] \in 0..100
    BY <1>1
  <2>2. AlertedRow(row, rating) \in EntityRow
    BY <2>1, AlertedRowType
  <2>3. LET new == AlertedRow(row, rating)
        IN  /\ new.kycHash = row.kycHash
            /\ new.originalInstitutionId = row.originalInstitutionId
            /\ new.sasAttestationAddress = row.sasAttestationAddress
    BY DEF AlertedRow, EntityRow
  <2> QED
    BY <2>2, <2>3 DEF Kept
<1>5. \A rating \in Ratings :
         LET new == [row EXCEPT !.riskScore = AlertScore[rating]]
         IN  Kept(row, new) /\ new.sasAttestationAddress = row.sasAttestationAddress
  BY <1>1 DEF Kept, EntityRow
<1>6. Kept(row, [row EXCEPT !.sasAttestationAddress = TRUE])
  BY DEF Kept, EntityRow
<1> QED
  BY <1>2, <1>3, <1>4, <1>5, <1>6

(* One row updated, every other as it was.                                 *)
LEMMA OneUpdate ==
    ASSUME entities \in [Keys -> Row], NEW e \in Keys, NEW new,
           entities[e] # None, Kept(entities[e], new),
           entities' = [entities EXCEPT ![e] = new]
    PROVE  /\ RowsKept
           /\ new.sasAttestationAddress = entities[e].sasAttestationAddress
                  => \A f \in Keys : AttestedRow(f)' => AttestedRow(f)
<1>1. /\ new \in EntityRow /\ entities'[e] = new
      /\ \A f \in Keys \ {e} : entities'[f] = entities[f]
  BY DEF Kept
<1>2. \A f \in Keys \ {e} : entities[f] # None => Kept(entities[f], entities'[f])
  BY <1>1 DEF Kept, Row
<1>3. RowsKept
  BY <1>1, <1>2 DEF RowsKept, Row
<1>4. ASSUME new.sasAttestationAddress = entities[e].sasAttestationAddress
      PROVE  \A f \in Keys : AttestedRow(f)' => AttestedRow(f)
  BY <1>1, <1>4 DEF AttestedRow
<1> QED
  BY <1>3, <1>4

LEMMA NoUpdate ==
    ASSUME entities \in [Keys -> Row], UNCHANGED entities
    PROVE  RowsKept /\ RecordedByReview
BY DEF RowsKept, Row, Kept, RecordedByReview, AttestedRow
-----------------------------------------------------------------------------
(* The steps that write rows.                                              *)

Effect == (RowsKept \/ RowInserted) /\ RecordedByReview

(* Inserting a row that is not attested.                                   *)
LEMMA OneInsertion ==
    ASSUME entities \in [Keys -> Row], NEW e \in Keys, NEW row \in EntityRow,
           Insert(e, row), ~row.sasAttestationAddress, Origin(e, row)
    PROVE  Effect
<1>1. entities[e] = None /\ entities' = [entities EXCEPT ![e] = row]
  BY DEF Insert
<1>2. RowInserted
  BY <1>1 DEF RowInserted
<1>3. entities'[e] = row /\ \A f \in Keys \ {e} : entities'[f] = entities[f]
  BY <1>1
<1>4. RecordedByReview
  BY <1>3 DEF RecordedByReview, AttestedRow
<1> QED
  BY <1>2, <1>4 DEF Effect

LEMMA OriginOfNew ==
    ASSUME NEW e, NEW row, row.originalInstitutionId = None
    PROVE  Origin(e, row)
BY DEF Origin

LEMMA CreateEntityEffect ==
    ASSUME EntityInv, NEW i \in Institutions, NEW w \in Wallets, NEW grant \in Grants,
           CreateEntity(i, w, grant)
    PROVE  Effect
<1> DEFINE row == [NewRow EXCEPT !.kycLevel = grant.kycLevel, !.riskScore = grant.riskScore,
                      !.status = ACTIVE, !.kycHash = i]
<1>1. entities \in [Keys -> Row] /\ <<i, w>> \in Keys
  BY DEF EntityInv, EntityTypeOK, Row, Keys
<1>2. row \in EntityRow
  BY GrantedRowType
<1>3. ~row.sasAttestationAddress /\ row.originalInstitutionId = None
  BY DEF NewRow
<1>4. Insert(<<i, w>>, row)
  BY DEF CreateEntity
<1> HIDE DEF row
<1> QED
  BY <1>1, <1>2, <1>3, <1>4, OneInsertion, OriginOfNew

LEMMA UpdateEntityEffect ==
    ASSUME EntityInv, NEW i \in Institutions, NEW w \in Wallets, NEW p \in Patches,
           UpdateEntity(i, w, p)
    PROVE  Effect
<1> DEFINE e == <<i, w>>
           new == [entities[e] EXCEPT ![p[1]] = p[2]]
<1>1. entities \in [Keys -> Row] /\ e \in Keys /\ entities[e] # None
  BY DEF EntityInv, EntityTypeOK, Row, Keys, UpdateEntity
<1>2. entities' = [entities EXCEPT ![e] = new]
  BY <1>1 DEF UpdateEntity
<1>3. Kept(entities[e], new) /\ new.sasAttestationAddress = entities[e].sasAttestationAddress
  BY <1>1, PatchKeeps DEF Row
<1> HIDE DEF e, new
<1> QED
  BY <1>1, <1>2, <1>3, OneUpdate DEF Effect, RecordedByReview

LEMMA AcceptEffect ==
    ASSUME EntityInv, NEW q \in Requests, AcceptExternalAttestation(q)
    PROVE  Effect
<1>1. entities \in [Keys -> Row] /\ At(q, "accepting") /\ RequestInv(q)
  BY DEF EntityInv, EntityTypeOK, Row, AcceptExternalAttestation
<1>2. CASE UNCHANGED entities
  BY <1>1, <1>2, NoUpdate DEF Effect
<1>3. CASE Insert(request[q].key, request[q].found)
  <2>1. /\ request[q].key \in Keys /\ request[q].found \in EntityRow
        /\ ~request[q].found.sasAttestationAddress
        /\ Origin(request[q].key, request[q].found)
    BY <1>1 DEF At, RequestInv, Origin
  <2> QED
    BY <1>1, <1>3, <2>1, OneInsertion
<1> QED
  BY <1>2, <1>3 DEF AcceptExternalAttestation

LEMMA RecordApplicantEffect ==
    ASSUME EntityInv, NEW q \in Requests, RecordApplicant(q)
    PROVE  Effect
<1> DEFINE e == request[q].key
           a == <<e[1], e[2], q>>
           new == [entities[e] EXCEPT !.sumsubApplicantId = a, !.kycProvider = "sumsub"]
           row == [NewRow EXCEPT !.sumsubApplicantId = a, !.kycProvider = "sumsub"]
<1>1. /\ entities \in [Keys -> Row] /\ At(q, "recording-applicant") /\ RequestInv(q)
      /\ e \in Keys
  BY DEF EntityInv, EntityTypeOK, Row, RecordApplicant, RequestInv, At
<1>2. a \in Applicants
  BY <1>1 DEF Keys, Applicants
<1>3. CASE UNCHANGED entities
  BY <1>1, <1>3, NoUpdate DEF Effect
<1>4. CASE Insert(e, row)
  <2>1. row \in EntityRow
    BY <1>2, NewRowType, ApplicantRowType
  <2>2. ~row.sasAttestationAddress /\ row.originalInstitutionId = None
    BY DEF NewRow
  <2> HIDE DEF row, e
  <2> QED
    BY <1>1, <1>4, <2>1, <2>2, OneInsertion, OriginOfNew
<1>5. CASE /\ request[q].existed
           /\ entities' = [entities EXCEPT ![e].sumsubApplicantId = a, ![e].kycProvider = "sumsub"]
  <2>1. entities[e] # None
    BY <1>1, <1>5 DEF RequestInv, At
  <2>2. entities' = [entities EXCEPT ![e] = new]
    BY <1>1, <1>5
  <2>3. Kept(entities[e], new) /\ new.sasAttestationAddress = entities[e].sasAttestationAddress
    BY <1>1, <1>2, <2>1, UpdatesKeep DEF Row
  <2> HIDE DEF new, e
  <2> QED
    BY <1>1, <2>1, <2>2, <2>3, OneUpdate DEF Effect, RecordedByReview
<1> QED
  BY <1>3, <1>4, <1>5 DEF RecordApplicant

LEMMA ApplyReviewEffect ==
    ASSUME EntityInv, NEW r \in Reviews, ApplyReview(r)
    PROVE  Effect
<1> DEFINE e == review[r].entity
           new == ReviewedRow(entities[e], review[r].answer, review[r].level)
<1>1. entities \in [Keys -> Row] /\ ReviewInv(r) /\ review[r] \in ReviewRecord
  BY DEF EntityInv, EntityTypeOK, Row
<1>2. /\ e \in Keys /\ entities[e] # None
      /\ review[r].answer \in Answers /\ review[r].level \in 0..3
  BY <1>1 DEF ReviewInv, ApplyReview, ReviewRecord
<1>3. entities' = [entities EXCEPT ![e] = new]
  BY <1>1, <1>2 DEF ApplyReview
<1>4. Kept(entities[e], new) /\ new.sasAttestationAddress = entities[e].sasAttestationAddress
  BY <1>1, <1>2, UpdatesKeep DEF Row
<1> HIDE DEF e, new
<1> QED
  BY <1>1, <1>2, <1>3, <1>4, OneUpdate DEF Effect, RecordedByReview

LEMMA StoreAddressEffect ==
    ASSUME EntityInv, NEW r \in Reviews, StoreAttestationAddress(r)
    PROVE  Effect
<1> DEFINE e == review[r].entity
           new == [entities[e] EXCEPT !.sasAttestationAddress = TRUE]
<1>1. /\ entities \in [Keys -> Row] /\ ReviewInv(r)
      /\ review[r].step = "storing"
  BY DEF EntityInv, EntityTypeOK, Row, StoreAttestationAddress
<1>2. e \in Keys /\ entities[e] # None
  BY <1>1 DEF ReviewInv
<1>3. entities' = [entities EXCEPT ![e] = new]
  BY <1>1, <1>2 DEF StoreAttestationAddress
<1>4. Kept(entities[e], new)
  BY <1>1, <1>2, UpdatesKeep DEF Row
<1>5. RowsKept
  BY <1>1, <1>2, <1>3, <1>4, OneUpdate
<1>6. \A f \in Keys \ {e} : entities'[f] = entities[f]
  BY <1>1, <1>2, <1>3
<1>7. RecordedByReview
  BY <1>1, <1>6 DEF RecordedByReview, AttestedRow
<1> QED
  BY <1>5, <1>7 DEF Effect

LEMMA UpdateAffectedEffect ==
    ASSUME EntityInv, NEW a \in Alerts, UpdateAffected(a)
    PROVE  Effect
<1>1. /\ entities \in [Keys -> Row] /\ AlertInv(a) /\ alert[a] \in AlertRecord
      /\ alert[a].rating \in Ratings
  BY DEF EntityInv, EntityTypeOK, Row, AlertInv, UpdateAffected
<1>2. PICK e \in alert[a].todo : entities' = [entities EXCEPT ![e] = AlertedRow(@, alert[a].rating)]
  BY DEF UpdateAffected
<1> DEFINE new == AlertedRow(entities[e], alert[a].rating)
<1>3. e \in Keys /\ entities[e] # None
  BY <1>1 DEF AlertInv, AlertRecord
<1>4. entities' = [entities EXCEPT ![e] = new]
  BY <1>1, <1>2, <1>3
<1>5. Kept(entities[e], new) /\ new.sasAttestationAddress = entities[e].sasAttestationAddress
  BY <1>1, <1>3, UpdatesKeep DEF Row
<1> HIDE DEF new
<1> QED
  BY <1>1, <1>3, <1>4, <1>5, OneUpdate DEF Effect, RecordedByReview

LEMMA RiskScoreEffect ==
    ASSUME EntityInv, NEW a \in Alerts, UpdateRiskScoreOnChain(a)
    PROVE  Effect
<1> DEFINE Scored(row) == [row EXCEPT !.riskScore = AlertScore[alert[a].rating]]
<1>1. entities \in [Keys -> Row] /\ alert[a].rating \in Ratings
  BY DEF EntityInv, EntityTypeOK, Row, AlertInv, UpdateRiskScoreOnChain
<1>2. CASE UNCHANGED entities
  BY <1>1, <1>2, NoUpdate DEF Effect
<1>3. CASE entities' = [e \in Keys |->
              IF e[2] = alert[a].entity[2] /\ entities[e] # None
              THEN Scored(entities[e]) ELSE entities[e]]
  <2>1. \A row \in EntityRow : /\ Kept(row, Scored(row)) /\ Kept(row, row)
                               /\ Scored(row).sasAttestationAddress = row.sasAttestationAddress
    BY <1>1, UpdatesKeep DEF Kept
  <2> HIDE DEF Scored
  <2>2. \A e \in Keys : /\ entities[e] = None => entities'[e] = None
                        /\ entities[e] # None => /\ entities'[e] = Scored(entities[e])
                                                    \/ entities'[e] = entities[e]
                                                 /\ entities[e] \in EntityRow
    BY <1>1, <1>3 DEF Row
  <2>3. \A e \in Keys : entities[e] # None => Kept(entities[e], entities'[e])
    BY <2>1, <2>2
  <2>4. RowsKept
    BY <1>3, <2>2, <2>3 DEF RowsKept, Row, Kept
  <2>5. RecordedByReview
    BY <2>1, <2>2 DEF RecordedByReview, AttestedRow
  <2> QED
    BY <2>4, <2>5 DEF Effect
<1> QED
  BY <1>2, <1>3 DEF UpdateRiskScoreOnChain

(* Every step updates rows in place or inserts one.                        *)
LEMMA StepEffect ==
    ASSUME EntityInv, [EntityNext]_entityVars
    PROVE  Effect
<1>1. entities \in [Keys -> Row]
  BY DEF EntityInv, EntityTypeOK, Row
<1>2. CASE UNCHANGED entities
  BY <1>1, <1>2, NoUpdate DEF Effect
<1>3. CASE entities' # entities
  <2>1. EntityNext
    BY <1>3 DEF entityVars
  <2>2. ASSUME NEW i \in Institutions, NEW w \in Wallets, NEW g \in Grants,
               CreateEntity(i, w, g)
        PROVE  Effect
    BY <2>2, CreateEntityEffect
  <2>3. ASSUME NEW i \in Institutions, NEW w \in Wallets, NEW p \in Patches,
               UpdateEntity(i, w, p)
        PROVE  Effect
    BY <2>3, UpdateEntityEffect
  <2>4. ASSUME NEW q \in Requests, AcceptExternalAttestation(q) \/ RecordApplicant(q)
        PROVE  Effect
    BY <2>4, AcceptEffect, RecordApplicantEffect
  <2>5. ASSUME NEW r \in Reviews, ApplyReview(r) \/ StoreAttestationAddress(r)
        PROVE  Effect
    BY <2>5, ApplyReviewEffect, StoreAddressEffect
  <2>6. ASSUME NEW a \in Alerts, UpdateAffected(a) \/ UpdateRiskScoreOnChain(a)
        PROVE  Effect
    BY <2>6, UpdateAffectedEffect, RiskScoreEffect
  <2>7. ASSUME NEW i \in Institutions
        PROVE  /\ \A j \in Institutions, on \in BOOLEAN : ~UpdateInstitution(i, j, on)
               /\ \A j \in Institutions, t \in TrustTerms : ~AddTrustedInstitution(i, j, t)
               /\ \A j \in Institutions : ~RemoveTrustedInstitution(i, j)
    BY <1>3 DEF UpdateInstitution, AddTrustedInstitution, RemoveTrustedInstitution
  <2>8. ASSUME NEW q \in Requests
        PROVE  /\ \A i, j \in Institutions, w \in Wallets : ~CheckTrust(q, i, j, w)
               /\ \A i \in Institutions, w \in Wallets : ~InitiateVerification(q, i, w)
               /\ ~ReadSource(q) /\ ~CreateApplicant(q) /\ ~RequestFails(q)
    BY <1>3 DEF CheckTrust, InitiateVerification, ReadSource, CreateApplicant, RequestFails, tables
  <2>9. ASSUME NEW r \in Reviews
        PROVE  /\ \A a \in applicants, answer \in Answers : \A n : ~SendReview(r, a, answer, n)
               /\ ~FindEntity(r) /\ ~ReadForAttestation(r) /\ ~CreateAttestation(r)
               /\ ~AcknowledgeReview(r) /\ ~ReviewFails(r)
    BY <1>3 DEF SendReview, FindEntity, ReadForAttestation, CreateAttestation,
                AcknowledgeReview, ReviewFails, tables
  <2>10. ASSUME NEW a \in Alerts
         PROVE  /\ \A i \in Institutions, rating \in Ratings : ~SendAlert(a, i, rating)
                /\ ~SelectAffected(a) /\ ~AuditAffected(a) /\ ~AlertFails(a)
    BY <1>3 DEF SendAlert, SelectAffected, AuditAffected, AlertFails, tables
  <2> QED
    BY <2>1, <2>2, <2>3, <2>4, <2>5, <2>6, <2>7, <2>8, <2>9, <2>10
       DEF EntityNext, HandleReview, HandleAlert
<1> QED
  BY <1>2, <1>3
-----------------------------------------------------------------------------
(* Rows stay, with their hash and origin.                                  *)
LEMMA RowsStay ==
    ASSUME entities \in [Keys -> Row], Effect
    PROVE  /\ entities' \in [Keys -> Row]
           /\ \A e \in Keys : entities[e] # None =>
                 entities'[e] # None /\ Kept(entities[e], entities'[e])
<1>1. CASE RowsKept
  BY <1>1, NoneIsNoEntity DEF RowsKept, Kept, Row
<1>2. CASE RowInserted
  <2>1. PICK e \in Keys, row \in EntityRow :
            entities[e] = None /\ entities' = [entities EXCEPT ![e] = row]
    BY <1>2 DEF RowInserted
  <2>2. \A f \in Keys : entities[f] # None => entities'[f] = entities[f]
    BY <2>1
  <2> QED
    BY <2>1, <2>2 DEF Row, Kept
<1> QED
  BY <1>1, <1>2 DEF Effect

LEMMA CopiesKeep ==
    ASSUME EntityInv, Effect
    PROVE  CopiesShareTheHash'
<1>1. entities \in [Keys -> Row] /\ CopiesShareTheHash
  BY DEF EntityInv, EntityTypeOK, Row
<1> SUFFICES ASSUME NEW e \in Keys, entities'[e] # None,
                    entities'[e].originalInstitutionId # None
             PROVE  LET source == entities'[<<entities'[e].originalInstitutionId, e[2]>>]
                    IN  source # None /\ source.kycHash = entities'[e].kycHash
  BY DEF CopiesShareTheHash
<1>2. CASE entities[e] # None
  <2> DEFINE o == <<entities[e].originalInstitutionId, e[2]>>
  <2>1. /\ entities'[e].kycHash = entities[e].kycHash
        /\ entities'[e].originalInstitutionId = entities[e].originalInstitutionId
    BY <1>1, <1>2, RowsStay DEF Kept
  <2>2. entities[o] # None /\ entities[o].kycHash = entities[e].kycHash
    BY <1>1, <1>2, <2>1 DEF CopiesShareTheHash
  <2>3. o \in Keys
    BY <1>1, <1>2, <2>1 DEF Keys, Row, EntityRow
  <2>4. entities'[o] # None /\ entities'[o].kycHash = entities[o].kycHash
    BY <1>1, <2>2, <2>3, RowsStay DEF Kept
  <2> QED
    BY <2>1, <2>2, <2>4
<1>3. CASE entities[e] = None
  <2>1. RowInserted
    BY <1>3 DEF Effect, RowsKept
  <2>2. PICK f \in Keys, row \in EntityRow :
            /\ entities[f] = None /\ entities' = [entities EXCEPT ![f] = row]
            /\ Origin(f, row)
    BY <2>1 DEF RowInserted
  <2>3. f = e /\ entities'[e] = row
    BY <1>1, <1>3, <2>2
  <2> DEFINE i == row.originalInstitutionId
             o == <<i, e[2]>>
  <2>4. i \in Institutions \ {e[1]} /\ entities[o] # None /\ entities[o].kycHash = row.kycHash
    BY <2>2, <2>3 DEF Origin
  <2>5. o \in Keys
    BY <2>4 DEF Keys
  <2>6. entities'[o] # None /\ entities'[o].kycHash = entities[o].kycHash
    BY <1>1, <2>4, <2>5, RowsStay DEF Kept
  <2> QED
    BY <2>3, <2>4, <2>6
<1> QED
  BY <1>2, <1>3

(* The institution of an inserted row is nobody's origin yet, so that a    *)
(* group it belongs to has the origin the rest of the group has.           *)
LEMMA OriginsKeep ==
    ASSUME EntityInv, Effect
    PROVE  OriginsWellFounded'
<1>1. /\ entities \in [Keys -> Row] /\ CopiesShareTheHash /\ OriginsWellFounded
      /\ None \notin Institutions
  BY EntityAssumption DEF EntityInv, EntityTypeOK, Row
<1> SUFFICES ASSUME NEW w \in Wallets, NEW group \in (SUBSET Institutions) \ {{}},
                    \A i \in group : entities'[<<i, w>>] # None
             PROVE  \E i \in group : entities'[<<i, w>>].originalInstitutionId \notin group
  BY DEF OriginsWellFounded
<1>2. \A i \in group : <<i, w>> \in Keys
  BY DEF Keys
<1>3. CASE \A i \in group : entities[<<i, w>>] # None
  <2>1. PICK i \in group : entities[<<i, w>>].originalInstitutionId \notin group
    BY <1>1, <1>3 DEF OriginsWellFounded
  <2>2. entities'[<<i, w>>].originalInstitutionId = entities[<<i, w>>].originalInstitutionId
    BY <1>1, <1>2, <1>3, RowsStay DEF Kept
  <2> QED
    BY <2>1, <2>2
<1>4. CASE \E i \in group : entities[<<i, w>>] = None
  <2>1. PICK i \in group : entities[<<i, w>>] = None
    BY <1>4
  <2>2. RowInserted
    BY <1>2, <2>1 DEF Effect, RowsKept
  <2>3. PICK f \in Keys, row \in EntityRow :
            /\ entities[f] = None /\ entities' = [entities EXCEPT ![f] = row]
            /\ Origin(f, row)
    BY <2>2 DEF RowInserted
  <2>4. f = <<i, w>> /\ entities'[<<i, w>>] = row
    BY <1>1, <1>2, <2>1, <2>3
  <2>5. row.originalInstitutionId # i
    <3>1. f[1] = i
      BY <2>4
    <3> QED
      BY <1>1, <2>3, <3>1 DEF Origin
  <2> DEFINE rest == group \ {i}
  <2>6. CASE rest = {}
    BY <2>4, <2>5, <2>6
  <2>7. CASE rest # {}
    <3>1. \A k \in rest : entities[<<k, w>>] # None
      BY <1>1, <1>2, <2>3, <2>4
    <3>2. PICK k \in rest : entities[<<k, w>>].originalInstitutionId \notin rest
      BY <1>1, <2>7, <3>1 DEF OriginsWellFounded
    <3>3. <<k, w>> \in Keys /\ <<k, w>>[2] = w /\ entities[<<k, w>>] # None
      BY <1>2, <3>1
    <3>4. entities[<<k, w>>].originalInstitutionId # i
      BY <1>1, <2>1, <3>3 DEF CopiesShareTheHash
    <3>5. entities'[<<k, w>>].originalInstitutionId = entities[<<k, w>>].originalInstitutionId
      BY <1>1, <3>3, RowsStay DEF Kept
    <3> QED
      BY <3>2, <3>4, <3>5
  <2> QED
    BY <2>6, <2>7
<1> QED
  BY <1>3, <1>4
-----------------------------------------------------------------------------
(* Requests, reviews and alerts in progress.                               *)

LEMMA RequestStays ==
    ASSUME EntityInv, Effect, NEW q \in Requests, request'[q] = request[q]
    PROVE  RequestInv(q)'
<1> DEFINE me == request[q]
<1>1. entities \in [Keys -> Row] /\ RequestInv(q)
  BY DEF EntityInv, EntityTypeOK, Row
<1>2. me.step \in {"creating-applicant", "recording-applicant"} /\ me.existed =>
          entities'[me.key] # None
  BY <1>1, RowsStay DEF RequestInv
<1>3. ASSUME me.step = "accepting"
      PROVE  LET o == <<me.source, me.key[2]>>
             IN  entities'[o] # None /\ entities'[o].kycHash = me.found.kycHash
  <2>1. /\ <<me.source, me.key[2]>> \in Keys
        /\ entities[<<me.source, me.key[2]>>] # None
        /\ entities[<<me.source, me.key[2]>>].kycHash = me.found.kycHash
    BY <1>1, <1>3 DEF RequestInv, Keys
  <2> QED
    BY <1>1, <2>1, RowsStay DEF Kept
<1> QED
  BY <1>1, <1>2, <1>3 DEF RequestInv

LEMMA RequestsKeep ==
    ASSUME EntityInv, [EntityNext]_entityVars, Effect
    PROVE  request' \in [Requests -> RequestRecord] /\ \A q \in Requests : RequestInv(q)'
<1> DEFINE Keeps == request' \in [Requests -> RequestRecord] /\ \A q \in Requests : RequestInv(q)'
<1>1. /\ request \in [Requests -> RequestRecord] /\ entities \in [Keys -> Row]
      /\ \A q \in Requests : RequestInv(q)
      /\ \A i \in Institutions : trustNetwork[<<i, i>>] = None
      /\ trustNetwork \in [Institutions \X Institutions -> TrustTerms \cup {None}]
  BY DEF EntityInv, EntityTypeOK, Row
<1>2. IdleRequest \in RequestRecord /\ IdleRequest.step = "idle"
  BY DEF IdleRequest, RequestRecord, RequestSteps
<1>3. CASE UNCHANGED request
  BY <1>1, <1>3, RequestStays
<1>4. ASSUME NEW q \in Requests, NEW new \in RequestRecord, Steps(q, new),
             new = request'[q] => RequestInv(q)'
      PROVE  Keeps
  <2>1. /\ request' \in [Requests -> RequestRecord] /\ request'[q] = new
        /\ \A p \in Requests \ {q} : request'[p] = request[p]
    BY <1>1, <1>4 DEF Steps
  <2>2. RequestInv(q)'
    BY <1>4, <2>1
  <2> QED
    BY <2>1, <2>2, RequestStays
<1>5. ASSUME NEW q \in Requests, Steps(q, IdleRequest)
      PROVE  Keeps
  <2>1. IdleRequest = request'[q] => RequestInv(q)'
    BY <1>2 DEF RequestInv
  <2> QED
    BY <1>2, <1>4, <1>5, <2>1
<1>6. ASSUME NEW q \in Requests, NEW i \in Institutions, NEW j \in Institutions,
             NEW w \in Wallets, CheckTrust(q, i, j, w)
      PROVE  Keeps
  <2> DEFINE new == [IdleRequest EXCEPT !.step = "reading-source", !.key = <<i, w>>,
                        !.source = j, !.terms = trustNetwork[<<i, j>>]]
  <2> DEFINE r1 == [IdleRequest EXCEPT !.step = "reading-source"]
             r2 == [r1 EXCEPT !.key = <<i, w>>]
             r3 == [r2 EXCEPT !.source = j]
  <2>2. <<i, w>> \in Keys /\ trustNetwork[<<i, j>>] \in TrustTerms \cup {None} /\ i # j
    BY <1>1, <1>6 DEF CheckTrust, Keys
  <2>3. Steps(q, new)
    BY <1>6 DEF CheckTrust
  <2>4. r1 \in RequestRecord /\ r1.step = "reading-source"
    BY <1>2 DEF RequestRecord, RequestSteps
  <2>5. r2 \in RequestRecord /\ r2.step = "reading-source" /\ r2.key = <<i, w>>
    <3> HIDE DEF r1
    <3> QED BY <2>2, <2>4 DEF RequestRecord
  <2>6. /\ r3 \in RequestRecord /\ r3.step = "reading-source" /\ r3.key = <<i, w>>
        /\ r3.source = j
    <3> HIDE DEF r2
    <3> QED BY <2>5 DEF RequestRecord
  <2>7. /\ new \in RequestRecord /\ new.step = "reading-source" /\ new.key = <<i, w>>
        /\ new.source = j
    <3>1. new = [r3 EXCEPT !.terms = trustNetwork[<<i, j>>]]
      OBVIOUS
    <3> HIDE DEF r3, new
    <3> QED BY <2>2, <2>6, <3>1 DEF RequestRecord
  <2> HIDE DEF new
  <2>8. new = request'[q] => RequestInv(q)'
    <3>1. <<i, w>>[1] = i
      OBVIOUS
    <3> QED
      BY <2>2, <2>7, <3>1 DEF RequestInv
  <2> QED
    BY <1>4, <2>3, <2>7, <2>8
<1>7. ASSUME NEW q \in Requests, ReadSource(q)
      PROVE  Keeps
  <2> DEFINE me == request[q]
             o == <<me.source, me.key[2]>>
             row == entities[o]
             new == [me EXCEPT !.step = "accepting", !.found = AcceptedRow(row, me.source)]
  <2>1. /\ me.step = "reading-source" /\ me \in RequestRecord /\ UNCHANGED entities
        /\ me.key \in Keys /\ me.source \in Institutions /\ me.source # me.key[1]
    BY <1>1, <1>7 DEF ReadSource, At, RequestInv, tables
  <2>2. CASE Steps(q, IdleRequest)
    BY <1>5, <2>2
  <2>3. CASE Acceptable(row, me.key[1], me.source, me.terms) /\ Steps(q, new)
    <3>1. o \in Keys /\ row # None
      BY <2>1, <2>3 DEF Keys, Acceptable
    <3>2. row \in EntityRow
      BY <1>1, <3>1 DEF Row
    <3> DEFINE found == AcceptedRow(row, me.source)
    <3>3. found \in EntityRow
      BY <2>1, <3>2, AcceptedRowType
    <3>4. /\ found.originalInstitutionId = me.source /\ ~found.sasAttestationAddress
          /\ found.kycHash = row.kycHash
      BY DEF AcceptedRow, NewRow
    <3> HIDE DEF found
    <3>5. /\ new \in RequestRecord /\ new.step = "accepting" /\ new.key = me.key
          /\ new.source = me.source /\ new.found = found
      BY <2>1, <3>3 DEF RequestRecord, RequestSteps, found
    <3> HIDE DEF new
    <3>6. new = request'[q] => RequestInv(q)'
      BY <2>1, <3>1, <3>3, <3>4, <3>5 DEF RequestInv
    <3> QED
      BY <1>4, <2>3, <3>5, <3>6
  <2> QED
    BY <1>7, <2>2, <2>3 DEF ReadSource
<1>8. ASSUME NEW q \in Requests, NEW i \in Institutions, NEW w \in Wallets,
             InitiateVerification(q, i, w)
      PROVE  Keeps
  <2> DEFINE existed == entities[<<i, w>>] # None
             new == [IdleRequest EXCEPT !.step = "creating-applicant", !.key = <<i, w>>,
                        !.existed = existed]
  <2> DEFINE r1 == [IdleRequest EXCEPT !.step = "creating-applicant"]
             r2 == [r1 EXCEPT !.key = <<i, w>>]
  <2>2. <<i, w>> \in Keys /\ UNCHANGED entities /\ existed \in BOOLEAN
    BY <1>8 DEF InitiateVerification, Keys, tables
  <2>3. Steps(q, new)
    BY <1>8 DEF InitiateVerification
  <2>4. existed => entities'[<<i, w>>] # None
    BY <2>2
  <2> HIDE DEF existed
  <2>5. r1 \in RequestRecord /\ r1.step = "creating-applicant"
    BY <1>2 DEF RequestRecord, RequestSteps
  <2>6. r2 \in RequestRecord /\ r2.step = "creating-applicant" /\ r2.key = <<i, w>>
    <3> HIDE DEF r1
    <3> QED BY <2>2, <2>5 DEF RequestRecord
  <2>7. /\ new \in RequestRecord /\ new.step = "creating-applicant" /\ new.key = <<i, w>>
        /\ new.existed = existed
    <3>1. new = [r2 EXCEPT !.existed = existed]
      OBVIOUS
    <3> HIDE DEF r2, new
    <3> QED BY <2>2, <2>6, <3>1 DEF RequestRecord
  <2> HIDE DEF new
  <2>8. new = request'[q] => RequestInv(q)'
    BY <2>2, <2>4, <2>7 DEF RequestInv
  <2> QED
    BY <1>4, <2>3, <2>7, <2>8
<1>9. ASSUME NEW q \in Requests, CreateApplicant(q)
      PROVE  Keeps
  <2> DEFINE me == request[q]
             new == [me EXCEPT !.step = "recording-applicant"]
  <2>1. /\ me.step = "creating-applicant" /\ me \in RequestRecord /\ UNCHANGED entities
        /\ Steps(q, new) /\ RequestInv(q)
    BY <1>1, <1>9 DEF CreateApplicant, At, tables
  <2>2. /\ new \in RequestRecord /\ new.step = "recording-applicant"
        /\ new.key = me.key /\ new.existed = me.existed
    BY <2>1 DEF RequestRecord, RequestSteps
  <2> HIDE DEF new
  <2>3. new = request'[q] => RequestInv(q)'
    BY <2>1, <2>2 DEF RequestInv
  <2> QED
    BY <1>4, <2>1, <2>2, <2>3
<1>10. ASSUME NEW q \in Requests,
              AcceptExternalAttestation(q) \/ RecordApplicant(q) \/ RequestFails(q)
       PROVE  Keeps
  BY <1>5, <1>10 DEF AcceptExternalAttestation, RecordApplicant, RequestFails
<1>11. CASE EntityNext /\ request' # request
  <2>1. ASSUME NEW i \in Institutions
        PROVE  /\ \A w \in Wallets, g \in Grants : ~CreateEntity(i, w, g)
               /\ \A w \in Wallets, p \in Patches : ~UpdateEntity(i, w, p)
               /\ \A j \in Institutions, on \in BOOLEAN : ~UpdateInstitution(i, j, on)
               /\ \A j \in Institutions, t \in TrustTerms : ~AddTrustedInstitution(i, j, t)
               /\ \A j \in Institutions : ~RemoveTrustedInstitution(i, j)
    BY <1>11 DEF CreateEntity, UpdateEntity, UpdateInstitution, AddTrustedInstitution,
                 RemoveTrustedInstitution, handlers
  <2>2. ASSUME NEW r \in Reviews
        PROVE  /\ \A a \in applicants, answer \in Answers : \A n : ~SendReview(r, a, answer, n)
               /\ ~HandleReview(r) /\ ~ReviewFails(r)
    BY <1>11 DEF SendReview, HandleReview, ReviewFails, FindEntity, ApplyReview,
                 ReadForAttestation, CreateAttestation, StoreAttestationAddress, AcknowledgeReview
  <2>3. ASSUME NEW a \in Alerts
        PROVE  /\ \A i \in Institutions, rating \in Ratings : ~SendAlert(a, i, rating)
               /\ ~HandleAlert(a) /\ ~AlertFails(a)
    BY <1>11 DEF SendAlert, HandleAlert, AlertFails, SelectAffected, UpdateAffected,
                 AuditAffected, UpdateRiskScoreOnChain
  <2>4. \E q \in Requests :
          \/ \E i, j \in Institutions, w \in Wallets : CheckTrust(q, i, j, w)
          \/ ReadSource(q) \/ AcceptExternalAttestation(q)
          \/ \E i \in Institutions, w \in Wallets : InitiateVerification(q, i, w)
          \/ CreateApplicant(q) \/ RecordApplicant(q) \/ RequestFails(q)
    BY <1>11, <2>1, <2>2, <2>3 DEF EntityNext
  <2> QED
    BY <1>6, <1>7, <1>8, <1>9, <1>10, <2>4
<1> QED
  BY <1>3, <1>11 DEF entityVars

(* What makes a review an approval stays.                                  *)
ApprovalStays(r) ==
    review[r].applied /\ review[r].answer = "GREEN" =>
        /\ review'[r].applied /\ review'[r].answer = "GREEN"
        /\ review'[r].applicant = review[r].applicant

ReviewsKept ==
    /\ review' \in [Reviews -> ReviewRecord]
    /\ \A r \in Reviews : ReviewInv(r)' /\ ApprovalStays(r)

LEMMA ReviewStays ==
    ASSUME EntityInv, Effect, NEW r \in Reviews, review'[r] = review[r]
    PROVE  ReviewInv(r)' /\ ApprovalStays(r)
<1>1. entities \in [Keys -> Row] /\ ReviewInv(r)
  BY DEF EntityInv, EntityTypeOK, Row
<1>2. review[r].step \in {"found", "syncing", "attesting", "storing"} =>
          entities'[review[r].entity] # None
  BY <1>1, RowsStay DEF ReviewInv
<1> QED
  BY <1>1, <1>2 DEF ReviewInv, ApprovalStays

LEMMA ReviewChanges ==
    ASSUME EntityInv, Effect, NEW r \in Reviews, NEW new \in ReviewRecord,
           review' = [review EXCEPT ![r] = new],
           new = review'[r] => ReviewInv(r)' /\ ApprovalStays(r)
    PROVE  ReviewsKept
<1>1. review \in [Reviews -> ReviewRecord]
  BY DEF EntityInv, EntityTypeOK
<1>2. /\ review' \in [Reviews -> ReviewRecord] /\ review'[r] = new
      /\ \A s \in Reviews \ {r} : review'[s] = review[s]
  BY <1>1
<1> QED
  BY <1>2, ReviewStays DEF ReviewsKept

(* A review that ends, or that its sender will deliver again.              *)
LEMMA ReviewLeavesKeeps ==
    ASSUME EntityInv, Effect, NEW r \in Reviews, NEW step \in {"sent", "auditing", "acknowledged"},
           review[r].step # "none", ReviewLeaves(r, step)
    PROVE  ReviewsKept
<1> DEFINE me == review[r]
           entity == IF step = "auditing" THEN me.entity ELSE None
           r1 == [me EXCEPT !.step = step]
           r2 == [r1 EXCEPT !.attested = None]
           new == [r2 EXCEPT !.entity = entity]
<1>1. me \in ReviewRecord /\ ReviewInv(r)
  BY DEF EntityInv, EntityTypeOK
<1>2. review' = [review EXCEPT ![r] = new]
  BY DEF ReviewLeaves
<1>3. entity \in Keys \cup {None}
  BY <1>1 DEF ReviewRecord
<1> HIDE DEF entity
<1>4. /\ r1 \in ReviewRecord /\ r1.step = step /\ r1.applicant = me.applicant
      /\ r1.answer = me.answer /\ r1.applied = me.applied
  BY <1>1 DEF ReviewRecord, ReviewSteps
<1> HIDE DEF r1
<1>5. /\ r2 \in ReviewRecord /\ r2.step = step /\ r2.applicant = me.applicant
      /\ r2.answer = me.answer /\ r2.applied = me.applied
  BY <1>4 DEF ReviewRecord
<1> HIDE DEF r2
<1>6. /\ new \in ReviewRecord /\ new.step = step /\ new.applicant = me.applicant
      /\ new.answer = me.answer /\ new.applied = me.applied
  BY <1>3, <1>5 DEF ReviewRecord
<1> HIDE DEF new
<1>7. new = review'[r] => ReviewInv(r)' /\ ApprovalStays(r)
  BY <1>1, <1>6 DEF ReviewInv, ApprovalStays
<1> QED
  BY <1>2, <1>6, <1>7, ReviewChanges

LEMMA SendReviewKeeps ==
    ASSUME EntityInv, Effect, NEW r \in Reviews, NEW a \in applicants,
           NEW answer \in Answers, NEW level \in 0..3, SendReview(r, a, answer, level)
    PROVE  ReviewsKept
<1> DEFINE me == review[r]
           r1 == [me EXCEPT !.step = "sent"]
           r2 == [r1 EXCEPT !.applicant = a]
           r3 == [r2 EXCEPT !.answer = answer]
           new == [r3 EXCEPT !.level = level]
<1>1. /\ review \in [Reviews -> ReviewRecord] /\ me \in ReviewRecord /\ ReviewInv(r)
      /\ a \in Applicants
  BY DEF EntityInv, EntityTypeOK
<1>2. review' = [review EXCEPT ![r] = new] /\ me.step = "none"
  BY <1>1 DEF SendReview
<1>3. ~me.applied
  BY <1>1, <1>2 DEF ReviewInv
<1>4. r1 \in ReviewRecord /\ r1.step = "sent"
  BY <1>1 DEF ReviewRecord, ReviewSteps
<1> HIDE DEF r1
<1>5. r2 \in ReviewRecord /\ r2.step = "sent" /\ r2.applicant = a
  BY <1>1, <1>4 DEF ReviewRecord
<1> HIDE DEF r2
<1>6. r3 \in ReviewRecord /\ r3.step = "sent" /\ r3.applicant = a /\ r3.answer = answer
  BY <1>5 DEF ReviewRecord
<1> HIDE DEF r3
<1>7. new \in ReviewRecord /\ new.step = "sent" /\ new.applicant = a /\ new.answer = answer
  BY <1>6 DEF ReviewRecord
<1> HIDE DEF new
<1>8. new = review'[r] => ReviewInv(r)' /\ ApprovalStays(r)
  BY <1>1, <1>3, <1>7 DEF ReviewInv, ApprovalStays
<1> QED
  BY <1>2, <1>7, <1>8, ReviewChanges

LEMMA FindEntityKeeps ==
    ASSUME EntityInv, Effect, NEW r \in Reviews, FindEntity(r)
    PROVE  ReviewsKept
<1> DEFINE me == review[r]
<1>1. /\ review \in [Reviews -> ReviewRecord] /\ me \in ReviewRecord /\ ReviewInv(r)
      /\ me.step = "sent" /\ UNCHANGED entities
  BY DEF EntityInv, EntityTypeOK, FindEntity, tables
<1>2. PICK e \in Matching(r) : review' = [review EXCEPT ![r].step = "found", ![r].entity = e]
  BY DEF FindEntity
<1>3. e \in Keys /\ e[2] = me.applicant[2] /\ entities[e] # None
  BY DEF Matching
<1> DEFINE r1 == [me EXCEPT !.step = "found"]
           new == [r1 EXCEPT !.entity = e]
<1>4. review' = [review EXCEPT ![r] = new]
  BY <1>1, <1>2
<1>5. /\ r1 \in ReviewRecord /\ r1.step = "found" /\ r1.applicant = me.applicant
      /\ r1.answer = me.answer /\ r1.applied = me.applied
  BY <1>1 DEF ReviewRecord, ReviewSteps
<1> HIDE DEF r1
<1>6. /\ new \in ReviewRecord /\ new.step = "found" /\ new.applicant = me.applicant
      /\ new.answer = me.answer /\ new.applied = me.applied /\ new.entity = e
  BY <1>3, <1>5 DEF ReviewRecord
<1> HIDE DEF new
<1>7. new = review'[r] => ReviewInv(r)' /\ ApprovalStays(r)
  BY <1>1, <1>3, <1>6 DEF ReviewInv, ApprovalStays
<1> QED
  BY <1>4, <1>6, <1>7, ReviewChanges

LEMMA ApplyReviewKeeps ==
    ASSUME EntityInv, Effect, NEW r \in Reviews, ApplyReview(r)
    PROVE  ReviewsKept
<1> DEFINE me == review[r]
           r1 == [me EXCEPT !.applied = TRUE]
           new == [r1 EXCEPT !.step = AfterReview(me.answer)]
<1>1. /\ review \in [Reviews -> ReviewRecord] /\ me \in ReviewRecord /\ ReviewInv(r)
      /\ entities \in [Keys -> Row] /\ me.step = "found"
  BY DEF EntityInv, EntityTypeOK, Row, ApplyReview
<1>2. review' = [review EXCEPT ![r] = new]
  BY <1>1 DEF ApplyReview
<1>3. me.entity \in Keys /\ me.entity[2] = me.applicant[2] /\ entities'[me.entity] # None
  BY <1>1, RowsStay DEF ReviewInv
<1>4. /\ r1 \in ReviewRecord /\ r1.applicant = me.applicant /\ r1.entity = me.entity
      /\ r1.answer = me.answer /\ r1.applied
  BY <1>1 DEF ReviewRecord, ReviewSteps
<1> HIDE DEF r1
<1>5. AfterReview(me.answer) \in ReviewSteps
  BY DEF AfterReview, ReviewSteps
<1>6. /\ new \in ReviewRecord /\ new.step = AfterReview(me.answer)
      /\ new.applicant = me.applicant /\ new.answer = me.answer /\ new.applied
      /\ new.entity = me.entity
  BY <1>4, <1>5 DEF ReviewRecord
<1>7. /\ new.step = "syncing" => new.answer = "GREEN"
      /\ new.step \in {"syncing", "auditing"}
  BY <1>6 DEF AfterReview
<1> HIDE DEF new
<1>8. new = review'[r] => ReviewInv(r)' /\ ApprovalStays(r)
  BY <1>1, <1>3, <1>6, <1>7 DEF ReviewInv, ApprovalStays
<1> QED
  BY <1>2, <1>6, <1>8, ReviewChanges

LEMMA ReadForAttestationKeeps ==
    ASSUME EntityInv, Effect, NEW r \in Reviews, ReadForAttestation(r)
    PROVE  ReviewsKept
<1> DEFINE me == review[r]
           row == entities[me.entity]
           step == IF row.status = ACTIVE THEN "attesting" ELSE "auditing"
           attested == IF row.status = ACTIVE
                       THEN [kycLevel |-> row.kycLevel, riskScore |-> row.riskScore] ELSE None
           r1 == [me EXCEPT !.step = step]
           new == [r1 EXCEPT !.attested = attested]
<1>1. /\ review \in [Reviews -> ReviewRecord] /\ me \in ReviewRecord /\ ReviewInv(r)
      /\ entities \in [Keys -> Row] /\ me.step = "syncing" /\ UNCHANGED entities
  BY DEF EntityInv, EntityTypeOK, Row, ReadForAttestation, tables
<1>2. review' = [review EXCEPT ![r] = new]
  BY <1>1 DEF ReadForAttestation
<1>3. /\ me.entity \in Keys /\ me.entity[2] = me.applicant[2] /\ row # None
      /\ me.applied /\ me.answer = "GREEN"
  BY <1>1 DEF ReviewInv
<1>4. row \in EntityRow
  BY <1>1, <1>3 DEF Row
<1>5. /\ step \in {"attesting", "auditing"} /\ attested \in Attested \cup {None}
      /\ step = "attesting" => attested \in Attested
  BY <1>4 DEF EntityRow, Attested
<1> HIDE DEF step, attested
<1>6. /\ r1 \in ReviewRecord /\ r1.step = step /\ r1.applicant = me.applicant
      /\ r1.answer = me.answer /\ r1.applied = me.applied /\ r1.entity = me.entity
  BY <1>1, <1>5 DEF ReviewRecord, ReviewSteps
<1> HIDE DEF r1
<1>7. /\ new \in ReviewRecord /\ new.step = step /\ new.applicant = me.applicant
      /\ new.answer = me.answer /\ new.applied = me.applied /\ new.entity = me.entity
      /\ new.attested = attested
  BY <1>5, <1>6 DEF ReviewRecord
<1> HIDE DEF new
<1>8. new = review'[r] => ReviewInv(r)' /\ ApprovalStays(r)
  BY <1>1, <1>3, <1>5, <1>7 DEF ReviewInv, ApprovalStays
<1> QED
  BY <1>2, <1>7, <1>8, ReviewChanges

LEMMA CreateAttestationKeeps ==
    ASSUME EntityInv, Effect, NEW r \in Reviews, CreateAttestation(r)
    PROVE  ReviewsKept
<1> DEFINE me == review[r]
           new == [me EXCEPT !.step = "storing"]
<1>1. /\ review \in [Reviews -> ReviewRecord] /\ me \in ReviewRecord /\ ReviewInv(r)
      /\ me.step = "attesting" /\ UNCHANGED entities
  BY DEF EntityInv, EntityTypeOK, CreateAttestation, tables
<1>2. review' = [review EXCEPT ![r] = new]
  BY <1>1 DEF CreateAttestation, ReviewStep
<1>3. /\ new \in ReviewRecord /\ new.step = "storing" /\ new.applicant = me.applicant
      /\ new.answer = me.answer /\ new.applied = me.applied /\ new.entity = me.entity
  BY <1>1 DEF ReviewRecord, ReviewSteps
<1> HIDE DEF new
<1>4. new = review'[r] => ReviewInv(r)' /\ ApprovalStays(r)
  BY <1>1, <1>3 DEF ReviewInv, ApprovalStays
<1> QED
  BY <1>2, <1>3, <1>4, ReviewChanges

LEMMA ReviewsKeep ==
    ASSUME EntityInv, [EntityNext]_entityVars, Effect
    PROVE  ReviewsKept
<1>1. review \in [Reviews -> ReviewRecord]
  BY DEF EntityInv, EntityTypeOK
<1>2. CASE UNCHANGED review
  BY <1>1, <1>2, ReviewStays DEF ReviewsKept
<1>3. CASE EntityNext /\ review' # review
  <2>1. ASSUME NEW r \in Reviews, HandleReview(r)
        PROVE  ReviewsKept
    <3>1. CASE StoreAttestationAddress(r)
      <4>1. review[r].step # "none" /\ ReviewLeaves(r, "auditing")
        BY <3>1 DEF StoreAttestationAddress
      <4> QED
        BY <4>1, ReviewLeavesKeeps
    <3>2. CASE AcknowledgeReview(r)
      <4>1. review[r].step # "none" /\ ReviewLeaves(r, "acknowledged")
        BY <3>2 DEF AcknowledgeReview
      <4> QED
        BY <4>1, ReviewLeavesKeeps
    <3> QED
      BY <2>1, <3>1, <3>2, FindEntityKeeps, ApplyReviewKeeps, ReadForAttestationKeeps,
         CreateAttestationKeeps DEF HandleReview
  <2>2. ASSUME NEW r \in Reviews, ReviewFails(r)
        PROVE  ReviewsKept
    <3>1. /\ review[r].step # "none"
          /\ \E step \in {"sent", "auditing", "acknowledged"} : ReviewLeaves(r, step)
      BY <2>2 DEF ReviewFails, AfterReviewError
    <3> QED
      BY <3>1, ReviewLeavesKeeps
  <2>3. ASSUME NEW r \in Reviews, NEW a \in applicants, NEW answer \in Answers,
               NEW n \in LevelNames, SendReview(r, a, answer, KycLevelOf(n))
        PROVE  ReviewsKept
    <3>1. KycLevelOf(n) \in 0..3
      BY DEF KycLevelOf
    <3> QED
      BY <2>3, <3>1, SendReviewKeeps
  <2>4. ASSUME NEW i \in Institutions
        PROVE  /\ \A w \in Wallets, g \in Grants : ~CreateEntity(i, w, g)
               /\ \A w \in Wallets, p \in Patches : ~UpdateEntity(i, w, p)
               /\ \A j \in Institutions, on \in BOOLEAN : ~UpdateInstitution(i, j, on)
               /\ \A j \in Institutions, t \in TrustTerms : ~AddTrustedInstitution(i, j, t)
               /\ \A j \in Institutions : ~RemoveTrustedInstitution(i, j)
    BY <1>3 DEF CreateEntity, UpdateEntity, UpdateInstitution, AddTrustedInstitution,
                RemoveTrustedInstitution, handlers
  <2>5. ASSUME NEW q \in Requests
        PROVE  /\ \A i, j \in Institutions, w \in Wallets : ~CheckTrust(q, i, j, w)
               /\ \A i \in Institutions, w \in Wallets : ~InitiateVerification(q, i, w)
               /\ ~ReadSource(q) /\ ~AcceptExternalAttestation(q) /\ ~CreateApplicant(q)
               /\ ~RecordApplicant(q) /\ ~RequestFails(q)
    BY <1>3 DEF CheckTrust, InitiateVerification, ReadSource, AcceptExternalAttestation,
                CreateApplicant, RecordApplicant, RequestFails
  <2>6. ASSUME NEW a \in Alerts
        PROVE  /\ \A i \in Institutions, rating \in Ratings : ~SendAlert(a, i, rating)
               /\ ~HandleAlert(a) /\ ~AlertFails(a)
    BY <1>3 DEF SendAlert, HandleAlert, AlertFails, SelectAffected, UpdateAffected,
                AuditAffected, UpdateRiskScoreOnChain
  <2> QED
    BY <1>3, <2>1, <2>2, <2>3, <2>4, <2>5, <2>6 DEF EntityNext
<1> QED
  BY <1>2, <1>3 DEF entityVars

AlertsKept ==
    /\ alert' \in [Alerts -> AlertRecord]
    /\ \A a \in Alerts : AlertInv(a)'

LEMMA AlertStays ==
    ASSUME EntityInv, Effect, NEW a \in Alerts, alert'[a] = alert[a]
    PROVE  AlertInv(a)'
<1>1. /\ entities \in [Keys -> Row] /\ AlertInv(a) /\ alert[a].todo \subseteq Keys
  BY DEF EntityInv, EntityTypeOK, Row, AlertRecord
<1>2. \A e \in alert[a].todo : entities'[e] # None
  BY <1>1, RowsStay DEF AlertInv
<1> QED
  BY <1>1, <1>2 DEF AlertInv

LEMMA AlertChanges ==
    ASSUME EntityInv, Effect, NEW a \in Alerts, NEW new \in AlertRecord,
           alert' = [alert EXCEPT ![a] = new],
           /\ new.step # "none" /\ new.rating \in Ratings
           /\ \A e \in new.todo : entities[e] # None
           /\ new.step \in {"auditing", "scoring"} => new.entity \in Keys
    PROVE  AlertsKept
<1>1. alert \in [Alerts -> AlertRecord] /\ entities \in [Keys -> Row]
  BY DEF EntityInv, EntityTypeOK, Row
<1>2. /\ alert' \in [Alerts -> AlertRecord] /\ alert'[a] = new
      /\ \A b \in Alerts \ {a} : alert'[b] = alert[b]
  BY <1>1
<1>3. \A e \in new.todo : entities'[e] # None
  BY <1>1, RowsStay DEF AlertRecord
<1>4. AlertInv(a)'
  BY <1>2, <1>3 DEF AlertInv
<1> QED
  BY <1>2, <1>4, AlertStays DEF AlertsKept

LEMMA SendAlertKeeps ==
    ASSUME EntityInv, Effect, NEW a \in Alerts, NEW i \in Institutions, NEW rating \in Ratings,
           SendAlert(a, i, rating)
    PROVE  AlertsKept
<1> DEFINE me == alert[a]
           r1 == [me EXCEPT !.step = "sent"]
           r2 == [r1 EXCEPT !.institution = i]
           new == [r2 EXCEPT !.rating = rating]
<1>1. alert \in [Alerts -> AlertRecord] /\ me \in AlertRecord /\ AlertInv(a)
  BY DEF EntityInv, EntityTypeOK
<1>2. alert' = [alert EXCEPT ![a] = new]
  BY <1>1 DEF SendAlert
<1>3. r1 \in AlertRecord /\ r1.step = "sent" /\ r1.todo = me.todo
  BY <1>1 DEF AlertRecord, AlertSteps
<1> HIDE DEF r1
<1>4. r2 \in AlertRecord /\ r2.step = "sent" /\ r2.todo = me.todo
  BY <1>3 DEF AlertRecord
<1> HIDE DEF r2
<1>5. new \in AlertRecord /\ new.step = "sent" /\ new.todo = me.todo /\ new.rating = rating
  BY <1>4 DEF AlertRecord
<1>6. \A e \in new.todo : entities[e] # None
  BY <1>1, <1>5 DEF AlertInv
<1> HIDE DEF new
<1> QED
  BY <1>2, <1>5, <1>6, AlertChanges

LEMMA SelectAffectedKeeps ==
    ASSUME EntityInv, Effect, NEW a \in Alerts, SelectAffected(a)
    PROVE  AlertsKept
<1> DEFINE me == alert[a]
           affected == {e \in Keys : e[1] = me.institution /\ entities[e] # None}
           r1 == [me EXCEPT !.todo = affected]
           new == [r1 EXCEPT !.step = Resume(affected)]
<1>1. alert \in [Alerts -> AlertRecord] /\ me \in AlertRecord /\ me.rating \in Ratings
  BY DEF EntityInv, EntityTypeOK, AlertInv, SelectAffected
<1>2. alert' = [alert EXCEPT ![a] = new]
  BY <1>1 DEF SelectAffected
<1>3. affected \in SUBSET Keys /\ \A e \in affected : entities[e] # None
  OBVIOUS
<1> HIDE DEF affected
<1>4. Resume(affected) \in {"acknowledged", "updating"}
  BY DEF Resume
<1>5. r1 \in AlertRecord /\ r1.todo = affected /\ r1.rating = me.rating
  BY <1>1, <1>3 DEF AlertRecord
<1> HIDE DEF r1
<1>6. /\ new \in AlertRecord /\ new.todo = affected /\ new.rating = me.rating
      /\ new.step \in {"acknowledged", "updating"}
  BY <1>4, <1>5 DEF AlertRecord, AlertSteps
<1> HIDE DEF new
<1> QED
  BY <1>1, <1>2, <1>3, <1>6, AlertChanges

LEMMA UpdateAffectedKeeps ==
    ASSUME EntityInv, Effect, NEW a \in Alerts, UpdateAffected(a)
    PROVE  AlertsKept
<1> DEFINE me == alert[a]
<1>1. /\ alert \in [Alerts -> AlertRecord] /\ me \in AlertRecord /\ AlertInv(a)
      /\ me.rating \in Ratings
  BY DEF EntityInv, EntityTypeOK, AlertInv, UpdateAffected
<1>2. PICK e \in me.todo : alert' = [alert EXCEPT ![a].step = "auditing", ![a].entity = e]
  BY DEF UpdateAffected
<1> DEFINE r1 == [me EXCEPT !.step = "auditing"]
           new == [r1 EXCEPT !.entity = e]
<1>3. alert' = [alert EXCEPT ![a] = new]
  BY <1>1, <1>2
<1>4. e \in Keys /\ \A f \in me.todo : entities[f] # None
  BY <1>1 DEF AlertRecord, AlertInv
<1>5. r1 \in AlertRecord /\ r1.step = "auditing" /\ r1.todo = me.todo /\ r1.rating = me.rating
  BY <1>1 DEF AlertRecord, AlertSteps
<1> HIDE DEF r1
<1>6. /\ new \in AlertRecord /\ new.step = "auditing" /\ new.todo = me.todo
      /\ new.rating = me.rating /\ new.entity = e
  BY <1>4, <1>5 DEF AlertRecord
<1> HIDE DEF new
<1> QED
  BY <1>1, <1>3, <1>4, <1>6, AlertChanges

LEMMA AuditAffectedKeeps ==
    ASSUME EntityInv, Effect, NEW a \in Alerts, AuditAffected(a)
    PROVE  AlertsKept
<1> DEFINE me == alert[a]
           revoked == IF me.rating = "severe" THEN me.revoked \cup {me.entity} ELSE me.revoked
           r1 == [me EXCEPT !.step = "scoring"]
           new == [r1 EXCEPT !.revoked = revoked]
<1>1. /\ alert \in [Alerts -> AlertRecord] /\ me \in AlertRecord /\ AlertInv(a)
      /\ me.rating \in Ratings /\ me.entity \in Keys
      /\ \A f \in me.todo : entities[f] # None
  BY DEF EntityInv, EntityTypeOK, AlertInv, AuditAffected
<1>2. alert' = [alert EXCEPT ![a] = new]
  BY <1>1 DEF AuditAffected, AlertRecord
<1>3. revoked \in SUBSET Keys
  BY <1>1 DEF AlertRecord
<1> HIDE DEF revoked
<1>4. /\ r1 \in AlertRecord /\ r1.step = "scoring" /\ r1.todo = me.todo
      /\ r1.rating = me.rating /\ r1.entity = me.entity
  BY <1>1 DEF AlertRecord, AlertSteps
<1> HIDE DEF r1
<1>5. /\ new \in AlertRecord /\ new.step = "scoring" /\ new.todo = me.todo
      /\ new.rating = me.rating /\ new.entity = me.entity
  BY <1>3, <1>4 DEF AlertRecord
<1> HIDE DEF new
<1> QED
  BY <1>1, <1>2, <1>5, AlertChanges

(* The loop goes on, breaks off, or starts again.                          *)
LEMMA LoopKeeps ==
    ASSUME EntityInv, Effect, NEW a \in Alerts, NEW todo \in SUBSET alert[a].todo,
           NEW step \in {"acknowledged", "updating", "sent"}, alert[a].step # "none",
           alert' = [alert EXCEPT ![a].todo = todo, ![a].entity = None, ![a].step = step]
    PROVE  AlertsKept
<1> DEFINE me == alert[a]
           r1 == [me EXCEPT !.todo = todo]
           r2 == [r1 EXCEPT !.entity = None]
           new == [r2 EXCEPT !.step = step]
<1>1. /\ alert \in [Alerts -> AlertRecord] /\ me \in AlertRecord /\ me.rating \in Ratings
      /\ \A f \in todo : entities[f] # None
  BY DEF EntityInv, EntityTypeOK, AlertInv
<1>2. alert' = [alert EXCEPT ![a] = new]
  BY <1>1
<1>3. r1 \in AlertRecord /\ r1.todo = todo /\ r1.rating = me.rating
  BY <1>1 DEF AlertRecord
<1> HIDE DEF r1
<1>4. r2 \in AlertRecord /\ r2.todo = todo /\ r2.rating = me.rating
  BY <1>3 DEF AlertRecord
<1> HIDE DEF r2
<1>5. /\ new \in AlertRecord /\ new.todo = todo /\ new.rating = me.rating
      /\ new.step = step
  BY <1>4 DEF AlertRecord, AlertSteps
<1> HIDE DEF new
<1>6. /\ \A e \in new.todo : entities[e] # None
      /\ new.step # "none" /\ new.step \notin {"auditing", "scoring"}
  BY <1>1, <1>5
<1> QED
  BY <1>1, <1>2, <1>5, <1>6, AlertChanges

LEMMA AlertsKeep ==
    ASSUME EntityInv, [EntityNext]_entityVars, Effect
    PROVE  AlertsKept
<1>1. alert \in [Alerts -> AlertRecord]
  BY DEF EntityInv, EntityTypeOK
<1>2. CASE UNCHANGED alert
  BY <1>1, <1>2, AlertStays DEF AlertsKept
<1>3. CASE EntityNext /\ alert' # alert
  <2>1. ASSUME NEW a \in Alerts, UpdateRiskScoreOnChain(a)
        PROVE  AlertsKept
    <3> DEFINE todo == alert[a].todo \ {alert[a].entity}
    <3>1. /\ todo \in SUBSET alert[a].todo /\ alert[a].step # "none"
          /\ alert' = [alert EXCEPT ![a].todo = todo, ![a].entity = None, ![a].step = Resume(todo)]
      BY <2>1 DEF UpdateRiskScoreOnChain
    <3>2. Resume(todo) \in {"acknowledged", "updating", "sent"}
      BY DEF Resume
    <3> HIDE DEF todo
    <3> QED
      BY <3>1, <3>2, LoopKeeps
  <2>2. ASSUME NEW a \in Alerts, AlertFails(a)
        PROVE  AlertsKept
    <3>1. /\ alert[a].step # "none" /\ {} \in SUBSET alert[a].todo
          /\ alert' = [alert EXCEPT ![a].todo = {}, ![a].entity = None, ![a].step = "sent"]
      BY <1>1, <2>2 DEF AlertFails
    <3> QED
      BY <3>1, LoopKeeps
  <2>3. ASSUME NEW i \in Institutions
        PROVE  /\ \A w \in Wallets, g \in Grants : ~CreateEntity(i, w, g)
               /\ \A w \in Wallets, p \in Patches : ~UpdateEntity(i, w, p)
               /\ \A j \in Institutions, on \in BOOLEAN : ~UpdateInstitution(i, j, on)
               /\ \A j \in Institutions, t \in TrustTerms : ~AddTrustedInstitution(i, j, t)
               /\ \A j \in Institutions : ~RemoveTrustedInstitution(i, j)
    BY <1>3 DEF CreateEntity, UpdateEntity, UpdateInstitution, AddTrustedInstitution,
                RemoveTrustedInstitution, handlers
  <2>4. ASSUME NEW q \in Requests
        PROVE  /\ \A i, j \in Institutions, w \in Wallets : ~CheckTrust(q, i, j, w)
               /\ \A i \in Institutions, w \in Wallets : ~InitiateVerification(q, i, w)
               /\ ~ReadSource(q) /\ ~AcceptExternalAttestation(q) /\ ~CreateApplicant(q)
               /\ ~RecordApplicant(q) /\ ~RequestFails(q)
    BY <1>3 DEF CheckTrust, InitiateVerification, ReadSource, AcceptExternalAttestation,
                CreateApplicant, RecordApplicant, RequestFails
  <2>5. ASSUME NEW r \in Reviews
        PROVE  /\ \A a \in applicants, answer \in Answers : \A n : ~SendReview(r, a, answer, n)
               /\ ~HandleReview(r) /\ ~ReviewFails(r)
    BY <1>3 DEF SendReview, HandleReview, ReviewFails, FindEntity, ApplyReview,
                ReadForAttestation, CreateAttestation, StoreAttestationAddress, AcknowledgeReview
  <2> QED
    BY <1>3, <2>1, <2>2, <2>3, <2>4, <2>5, SendAlertKeeps, SelectAffectedKeeps,
       UpdateAffectedKeeps, AuditAffectedKeeps DEF EntityNext, HandleAlert
<1> QED
  BY <1>2, <1>3 DEF entityVars
-----------------------------------------------------------------------------
(* What is outside the rows and the handlers.                              *)

LEMMA InstitutionsKeep ==
    ASSUME EntityInv, [EntityNext]_entityVars
    PROVE  /\ active' \in [Institutions -> BOOLEAN]
           /\ trustNetwork' \in [Institutions \X Institutions -> TrustTerms \cup {None}]
           /\ \A i \in Institutions : trustNetwork'[<<i, i>>] = None
           /\ failures' \in 0..MaxFailures
<1> USE DEF EntityInv, EntityTypeOK
<1>1. CASE UNCHANGED <<active, trustNetwork>>
  <2>1. failures' = failures \/ (failures < MaxFailures /\ failures' = failures + 1)
    <3>1. ASSUME NEW i \in Institutions
          PROVE  /\ \A w \in Wallets, g \in Grants : CreateEntity(i, w, g) => UNCHANGED failures
                 /\ \A w \in Wallets, p \in Patches : UpdateEntity(i, w, p) => UNCHANGED failures
                 /\ \A j \in Institutions, on \in BOOLEAN :
                       UpdateInstitution(i, j, on) => UNCHANGED failures
                 /\ \A j \in Institutions, t \in TrustTerms :
                       AddTrustedInstitution(i, j, t) => UNCHANGED failures
                 /\ \A j \in Institutions : RemoveTrustedInstitution(i, j) => UNCHANGED failures
      BY DEF CreateEntity, UpdateEntity, UpdateInstitution, AddTrustedInstitution,
             RemoveTrustedInstitution
    <3>2. ASSUME NEW q \in Requests
          PROVE  /\ \A i, j \in Institutions, w \in Wallets :
                       CheckTrust(q, i, j, w) => UNCHANGED failures
                 /\ \A i \in Institutions, w \in Wallets :
                       InitiateVerification(q, i, w) => UNCHANGED failures
                 /\ ReadSource(q) \/ AcceptExternalAttestation(q) \/ CreateApplicant(q)
                       \/ RecordApplicant(q) \/ RequestFails(q) => UNCHANGED failures
      BY DEF CheckTrust, InitiateVerification, ReadSource, AcceptExternalAttestation,
             CreateApplicant, RecordApplicant, RequestFails
    <3>3. ASSUME NEW r \in Reviews
          PROVE  /\ \A x \in applicants, answer \in Answers : \A n :
                       SendReview(r, x, answer, n) => UNCHANGED failures
                 /\ HandleReview(r) => UNCHANGED failures
                 /\ ReviewFails(r) => failures < MaxFailures /\ failures' = failures + 1
      BY DEF SendReview, HandleReview, ReviewFails, FindEntity, ApplyReview, ReadForAttestation,
             CreateAttestation, StoreAttestationAddress, AcknowledgeReview
    <3>4. ASSUME NEW a \in Alerts
          PROVE  /\ \A i \in Institutions, rating \in Ratings :
                       SendAlert(a, i, rating) => UNCHANGED failures
                 /\ HandleAlert(a) => UNCHANGED failures
                 /\ AlertFails(a) => failures < MaxFailures /\ failures' = failures + 1
      BY DEF SendAlert, HandleAlert, AlertFails, SelectAffected, UpdateAffected,
             AuditAffected, UpdateRiskScoreOnChain
    <3> HIDE DEF EntityInv, EntityTypeOK
    <3> QED
      BY <3>1, <3>2, <3>3, <3>4 DEF entityVars, EntityNext
  <2>2. failures' \in 0..MaxFailures
    BY <2>1, EntityAssumption
  <2> QED
    BY <1>1, <2>2
<1>2. ASSUME NEW i \in Institutions, NEW j \in Institutions, NEW on \in BOOLEAN,
             UpdateInstitution(i, j, on)
      PROVE  active' \in [Institutions -> BOOLEAN] /\ UNCHANGED <<trustNetwork, failures>>
  BY <1>2 DEF UpdateInstitution
<1>3. ASSUME NEW i \in Institutions, NEW j \in Institutions, NEW t \in TrustTerms \cup {None},
             i # j \/ t = None, trustNetwork' = [trustNetwork EXCEPT ![<<i, j>>] = t]
      PROVE  /\ trustNetwork' \in [Institutions \X Institutions -> TrustTerms \cup {None}]
             /\ \A k \in Institutions : trustNetwork'[<<k, k>>] = None
  BY <1>3
<1>4. ASSUME NEW i \in Institutions, NEW j \in Institutions, NEW t \in TrustTerms,
             AddTrustedInstitution(i, j, t)
      PROVE  /\ i # j /\ trustNetwork' = [trustNetwork EXCEPT ![<<i, j>>] = t]
             /\ UNCHANGED <<active, failures>>
  BY <1>4 DEF AddTrustedInstitution
<1>5. ASSUME NEW i \in Institutions, NEW j \in Institutions, RemoveTrustedInstitution(i, j)
      PROVE  /\ trustNetwork' = [trustNetwork EXCEPT ![<<i, j>>] = None]
             /\ UNCHANGED <<active, failures>>
  BY <1>5 DEF RemoveTrustedInstitution
<1>6. CASE ~UNCHANGED <<active, trustNetwork>>
  <2>1. \E i \in Institutions :
          \/ \E j \in Institutions, on \in BOOLEAN : UpdateInstitution(i, j, on)
          \/ \E j \in Institutions, t \in TrustTerms : AddTrustedInstitution(i, j, t)
          \/ \E j \in Institutions : RemoveTrustedInstitution(i, j)
    <3>1. ASSUME NEW i \in Institutions
          PROVE  /\ \A w \in Wallets, g \in Grants : ~CreateEntity(i, w, g)
                 /\ \A w \in Wallets, p \in Patches : ~UpdateEntity(i, w, p)
      BY <1>6 DEF CreateEntity, UpdateEntity
    <3>2. ASSUME NEW q \in Requests
          PROVE  /\ \A i, j \in Institutions, w \in Wallets : ~CheckTrust(q, i, j, w)
                 /\ \A i \in Institutions, w \in Wallets : ~InitiateVerification(q, i, w)
                 /\ ~ReadSource(q) /\ ~AcceptExternalAttestation(q) /\ ~CreateApplicant(q)
                 /\ ~RecordApplicant(q) /\ ~RequestFails(q)
      BY <1>6 DEF CheckTrust, InitiateVerification, ReadSource, AcceptExternalAttestation,
                  CreateApplicant, RecordApplicant, RequestFails, tables
    <3>3. ASSUME NEW r \in Reviews
          PROVE  /\ \A a \in applicants, answer \in Answers : \A n : ~SendReview(r, a, answer, n)
                 /\ ~HandleReview(r) /\ ~ReviewFails(r)
      BY <1>6 DEF SendReview, HandleReview, ReviewFails, FindEntity, ApplyReview, ReadForAttestation,
                  CreateAttestation, StoreAttestationAddress, AcknowledgeReview, tables
    <3>4. ASSUME NEW a \in Alerts
          PROVE  /\ \A i \in Institutions, rating \in Ratings : ~SendAlert(a, i, rating)
                 /\ ~HandleAlert(a) /\ ~AlertFails(a)
      BY <1>6 DEF SendAlert, HandleAlert, AlertFails, SelectAffected, UpdateAffected,
                  AuditAffected, UpdateRiskScoreOnChain, tables
    <3> HIDE DEF EntityInv, EntityTypeOK
    <3> QED
      BY <1>6, <3>1, <3>2, <3>3, <3>4 DEF entityVars, EntityNext
  <2>2. CASE \E i, j \in Institutions, on \in BOOLEAN : UpdateInstitution(i, j, on)
    BY <1>2, <2>2
  <2>3. CASE \E i, j \in Institutions, t \in TrustTerms : AddTrustedInstitution(i, j, t)
    <3>1. PICK i \in Institutions, j \in Institutions, t \in TrustTerms :
              AddTrustedInstitution(i, j, t)
      BY <2>3
    <3>2. i # j /\ trustNetwork' = [trustNetwork EXCEPT ![<<i, j>>] = t]
      BY <1>4, <3>1
    <3>3. t \in TrustTerms \cup {None}
      OBVIOUS
    <3> QED
      BY <1>3, <1>4, <3>1, <3>2, <3>3
  <2>4. CASE \E i, j \in Institutions : RemoveTrustedInstitution(i, j)
    BY <1>3, <1>5, <2>4
  <2> QED
    BY <2>1, <2>2, <2>3, <2>4
<1> QED
  BY <1>1, <1>6

(* An attestation is written by a review that was applied and approves.    *)
LEMMA OutsideKeeps ==
    ASSUME EntityInv, [EntityNext]_entityVars
    PROVE  /\ applicants' \subseteq Applicants
           /\ attestations' \in [Wallets -> Attested \cup {None}]
           /\ \A w \in Wallets : attestations'[w] # None =>
                 \/ attestations[w] # None
                 \/ \E r \in Reviews : review[r].step = "attesting" /\ review[r].entity[2] = w
<1>1. /\ applicants \subseteq Applicants /\ attestations \in [Wallets -> Attested \cup {None}]
      /\ \A q \in Requests : RequestInv(q)
      /\ \A r \in Reviews : ReviewInv(r)
  BY DEF EntityInv, EntityTypeOK
<1>2. CASE UNCHANGED outside
  BY <1>1, <1>2 DEF outside
<1>3. ASSUME NEW q \in Requests, CreateApplicant(q)
      PROVE  applicants' \subseteq Applicants /\ UNCHANGED attestations
  <2>1. request[q].key \in Keys
    BY <1>1, <1>3 DEF CreateApplicant, At, RequestInv
  <2>2. <<request[q].key[1], request[q].key[2], q>> \in Applicants
    BY <2>1 DEF Keys, Applicants
  <2> QED
    BY <1>1, <1>3, <2>2 DEF CreateApplicant
<1>4. ASSUME NEW r \in Reviews, CreateAttestation(r)
      PROVE  /\ attestations' \in [Wallets -> Attested \cup {None}] /\ UNCHANGED applicants
             /\ \A w \in Wallets : attestations'[w] # None =>
                   \/ attestations[w] # None
                   \/ review[r].step = "attesting" /\ review[r].entity[2] = w
  <2>1. review[r].step = "attesting" /\ review[r].attested \in Attested
    BY <1>1, <1>4 DEF CreateAttestation, ReviewInv
  <2> QED
    <3>1. CASE UNCHANGED attestations
      <4>1. UNCHANGED applicants
        BY <1>4 DEF CreateAttestation
      <4> QED
        BY <1>1, <3>1, <4>1
    <3>2. CASE attestations' = [attestations EXCEPT ![review[r].entity[2]] = review[r].attested]
      <4>1. attestations' \in [Wallets -> Attested \cup {None}]
        BY <1>1, <2>1, <3>2
      <4>2. \A w \in Wallets : w # review[r].entity[2] => attestations'[w] = attestations[w]
        BY <1>1, <3>2
      <4> QED
        <5>1. UNCHANGED applicants
          BY <1>4 DEF CreateAttestation
        <5> QED
          BY <2>1, <4>1, <4>2, <5>1
    <3> QED
      BY <1>4, <3>1, <3>2 DEF CreateAttestation
<1>5. CASE ~UNCHANGED outside
  <2>1. (\E q \in Requests : CreateApplicant(q)) \/ (\E r \in Reviews : CreateAttestation(r))
    <3>1. ASSUME NEW i \in Institutions
          PROVE  /\ \A w \in Wallets, g \in Grants : ~CreateEntity(i, w, g)
                 /\ \A w \in Wallets, p \in Patches : ~UpdateEntity(i, w, p)
                 /\ \A j \in Institutions, on \in BOOLEAN : ~UpdateInstitution(i, j, on)
                 /\ \A j \in Institutions, t \in TrustTerms : ~AddTrustedInstitution(i, j, t)
                 /\ \A j \in Institutions : ~RemoveTrustedInstitution(i, j)
      BY <1>5 DEF CreateEntity, UpdateEntity, UpdateInstitution, AddTrustedInstitution,
                  RemoveTrustedInstitution
    <3>2. ASSUME NEW q \in Requests
          PROVE  /\ \A i, j \in Institutions, w \in Wallets : ~CheckTrust(q, i, j, w)
                 /\ \A i \in Institutions, w \in Wallets : ~InitiateVerification(q, i, w)
                 /\ ~ReadSource(q) /\ ~AcceptExternalAttestation(q)
                 /\ ~RecordApplicant(q) /\ ~RequestFails(q)
      BY <1>5 DEF CheckTrust, InitiateVerification, ReadSource, AcceptExternalAttestation,
                  RecordApplicant, RequestFails
    <3>3. ASSUME NEW r \in Reviews
          PROVE  /\ \A a \in applicants, answer \in Answers : \A n : ~SendReview(r, a, answer, n)
                 /\ ~FindEntity(r) /\ ~ApplyReview(r) /\ ~ReadForAttestation(r)
                 /\ ~StoreAttestationAddress(r) /\ ~AcknowledgeReview(r) /\ ~ReviewFails(r)
      BY <1>5 DEF SendReview, ReviewFails, FindEntity, ApplyReview, ReadForAttestation,
                  StoreAttestationAddress, AcknowledgeReview
    <3>4. ASSUME NEW a \in Alerts
          PROVE  /\ \A i \in Institutions, rating \in Ratings : ~SendAlert(a, i, rating)
                 /\ ~HandleAlert(a) /\ ~AlertFails(a)
      BY <1>5 DEF SendAlert, HandleAlert, AlertFails, SelectAffected, UpdateAffected,
                  AuditAffected, UpdateRiskScoreOnChain
    <3>5. EntityNext
      BY <1>5 DEF entityVars, outside
    <3> QED
      BY <3>1, <3>2, <3>3, <3>4, <3>5 DEF EntityNext, HandleReview
  <2> QED
    BY <1>1, <1>3, <1>4, <2>1
<1> QED
  BY <1>2, <1>5

LEMMA AttestedKeep ==
    ASSUME EntityInv, [EntityNext]_entityVars, Effect, ReviewsKept
    PROVE  AttestedOnApproval'
<1>1. /\ \A r \in Reviews : ReviewInv(r) /\ ApprovalStays(r)
      /\ AttestedOnApproval
  BY DEF EntityInv, ReviewsKept
<1>2. ASSUME NEW w \in Wallets,
             \E r \in Reviews : /\ review[r].applied /\ review[r].answer = "GREEN"
                               /\ review[r].applicant[2] = w
      PROVE  \E r \in Reviews : /\ review'[r].applied /\ review'[r].answer = "GREEN"
                               /\ review'[r].applicant[2] = w
  BY <1>1, <1>2 DEF ApprovalStays
<1>3. ASSUME NEW r \in Reviews, review[r].step \in {"attesting", "storing"}
      PROVE  /\ review[r].applied /\ review[r].answer = "GREEN"
             /\ review[r].applicant[2] = review[r].entity[2]
  BY <1>1, <1>3 DEF ReviewInv
<1>4. ASSUME NEW w \in Wallets, attestations'[w] # None
      PROVE  \E r \in Reviews : /\ review[r].applied /\ review[r].answer = "GREEN"
                               /\ review[r].applicant[2] = w
  BY <1>1, <1>3, <1>4, OutsideKeeps DEF AttestedOnApproval
<1>5. ASSUME NEW w \in Wallets, NEW i \in Institutions, AttestedRow(<<i, w>>)'
      PROVE  \E r \in Reviews : /\ review[r].applied /\ review[r].answer = "GREEN"
                               /\ review[r].applicant[2] = w
  <2>1. <<i, w>> \in Keys /\ <<i, w>>[2] = w
    BY DEF Keys
  <2>2. \/ AttestedRow(<<i, w>>)
        \/ \E r \in Reviews : review[r].step = "storing" /\ review[r].entity = <<i, w>>
    BY <1>5, <2>1 DEF Effect, RecordedByReview
  <2> QED
    BY <1>1, <1>3, <2>1, <2>2 DEF AttestedOnApproval, AttestedRow
<1> QED
  BY <1>2, <1>4, <1>5 DEF AttestedOnApproval, AttestedRow
-----------------------------------------------------------------------------
LEMMA EntityInitInv == EntityInit => EntityInv
<1> SUFFICES ASSUME EntityInit
             PROVE  EntityInv
  OBVIOUS
<1>1. EntityTypeOK
  <2>1. /\ entities \in [Keys -> EntityRow \cup {None}]
        /\ active \in [Institutions -> BOOLEAN]
        /\ trustNetwork \in [Institutions \X Institutions -> TrustTerms \cup {None}]
        /\ applicants \subseteq Applicants
        /\ attestations \in [Wallets -> Attested \cup {None}]
    BY DEF EntityInit
  <2>2. review \in [Reviews -> ReviewRecord]
    BY DEF EntityInit, ReviewRecord, ReviewSteps
  <2>3. alert \in [Alerts -> AlertRecord]
    BY DEF EntityInit, AlertRecord, AlertSteps
  <2>4. request \in [Requests -> RequestRecord]
    BY DEF EntityInit, RequestRecord, RequestSteps, IdleRequest
  <2>5. failures \in 0..MaxFailures
    BY EntityAssumption DEF EntityInit
  <2> QED
    BY <2>1, <2>2, <2>3, <2>4, <2>5 DEF EntityTypeOK
<1>2. (\A q \in Requests : RequestInv(q)) /\ (\A r \in Reviews : ReviewInv(r))
  BY DEF EntityInit, RequestInv, ReviewInv, IdleRequest
<1>3. \A a \in Alerts : AlertInv(a)
  BY DEF EntityInit, AlertInv
<1>4. \A i \in Institutions : trustNetwork[<<i, i>>] = None
  BY DEF EntityInit
<1>5. CopiesShareTheHash /\ AttestedOnApproval
  BY DEF EntityInit, CopiesShareTheHash, AttestedOnApproval, Keys
<1>6. OriginsWellFounded
  <2>1. \A e \in Keys : entities[e] = None
    BY DEF EntityInit
  <2>2. \A w \in Wallets, i \in Institutions : entities[<<i, w>>] = None
    BY <2>1 DEF Keys
  <2> QED
    <3> SUFFICES ASSUME NEW w \in Wallets, NEW group \in (SUBSET Institutions) \ {{}},
                        \A i \in group : entities[<<i, w>>] # None
                 PROVE  FALSE
      BY DEF OriginsWellFounded
    <3>1. PICK i : i \in group
      <4>1. group # {}
        OBVIOUS
      <4> QED
        BY <4>1
    <3>2. i \in Institutions /\ entities[<<i, w>>] # None
      BY <3>1
    <3> QED
      BY <2>2, <3>2
<1> QED
  BY <1>1, <1>2, <1>3, <1>4, <1>5, <1>6 DEF EntityInv

LEMMA EntityStepInv ==
    ASSUME EntityInv, [EntityNext]_entityVars
    PROVE  EntityInv'
<1>1. Effect
  BY StepEffect
<1>2. entities' \in [Keys -> EntityRow \cup {None}]
  BY <1>1, RowsStay DEF EntityInv, EntityTypeOK, Row
<1>3. /\ request' \in [Requests -> RequestRecord] /\ \A q \in Requests : RequestInv(q)'
  BY <1>1, RequestsKeep
<1>4. ReviewsKept
  BY <1>1, ReviewsKeep
<1>5. AlertsKept
  BY <1>1, AlertsKeep
<1>6. EntityTypeOK'
  BY <1>2, <1>3, <1>4, <1>5, InstitutionsKeep, OutsideKeeps
     DEF EntityTypeOK, ReviewsKept, AlertsKept
<1>7. CopiesShareTheHash' /\ OriginsWellFounded' /\ AttestedOnApproval'
  BY <1>1, <1>4, CopiesKeep, OriginsKeep, AttestedKeep
<1>8. \A i \in Institutions : trustNetwork'[<<i, i>>] = None
  BY InstitutionsKeep
<1> QED
  BY <1>3, <1>4, <1>5, <1>6, <1>7, <1>8 DEF EntityInv, ReviewsKept, AlertsKept

LEMMA EntityInvariant == EntitySpec => []EntityInv
BY EntityInitInv, EntityStepInv, PTL DEF EntitySpec

(* Rows, reviews, alerts and requests keep to their types.                 *)
THEOREM EntityTypeCorrect == EntitySpec => []EntityTypeOK
<1>1. EntityInv => EntityTypeOK
  BY DEF EntityInv
<1> QED
  BY <1>1, EntityInvariant, PTL

(* A copy's source stays, with the hash the copy was made with.            *)
THEOREM CopiesCorrect == EntitySpec => []CopiesShareTheHash
<1>1. EntityInv => CopiesShareTheHash
  BY DEF EntityInv
<1> QED
  BY <1>1, EntityInvariant, PTL

(* No institutions vouch for a wallet by each other's word alone.          *)
THEOREM OriginsCorrect == EntitySpec => []OriginsWellFounded
<1>1. EntityInv => OriginsWellFounded
  BY DEF EntityInv
<1> QED
  BY <1>1, EntityInvariant, PTL

(* No wallet is attested without a review that approved it.                *)
THEOREM AttestedCorrect == EntitySpec => []AttestedOnApproval
<1>1. EntityInv => AttestedOnApproval
  BY DEF EntityInv
<1> QED
  BY <1>1, EntityInvariant, PTL
-----------------------------------------------------------------------------
Reactivated(e) ==
    entities[e] # None /\ entities[e].status = REVOKED /\ entities'[e].status # REVOKED

OnPurpose(e) ==
    \/ UNCHANGED <<outside, handlers, failures>>
    \/ \E r \in Reviews : /\ ~review[r].applied \/ review[r].step = "found"
                          /\ review[r].entity = e /\ review[r].answer = "GREEN"
                          /\ review'[r].step = "syncing"

(* A step that changes one row reactivates that row or none.               *)
LEMMA OnlyThatRow ==
    ASSUME entities \in [Keys -> Row], NEW e \in Keys, Reactivated(e),
           NEW f \in Keys, NEW new, entities' = [entities EXCEPT ![f] = new]
    PROVE  /\ e = f /\ new.status # REVOKED
           /\ entities[f] \in EntityRow /\ entities[f].status = REVOKED
BY DEF Reactivated, Row

LEMMA StepReactivates ==
    ASSUME EntityInv, EntityNext, NEW e \in Keys, Reactivated(e)
    PROVE  OnPurpose(e)
<1>1. /\ entities \in [Keys -> Row] /\ review \in [Reviews -> ReviewRecord]
      /\ alert \in [Alerts -> AlertRecord] /\ request \in [Requests -> RequestRecord]
      /\ \A q \in Requests : RequestInv(q)
      /\ \A r \in Reviews : ReviewInv(r)
  BY DEF EntityInv, EntityTypeOK, Row
<1>2. entities' # entities
  BY DEF Reactivated
<1>3. CASE UNCHANGED <<outside, handlers, failures>>
  BY <1>3 DEF OnPurpose
<1>4. ASSUME NEW f \in Keys, NEW row, Insert(f, row)
      PROVE  FALSE
  BY <1>1, <1>4 DEF Insert, Reactivated
<1>5. ASSUME NEW q \in Requests, AcceptExternalAttestation(q)
      PROVE  FALSE
  <2>1. request[q].key \in Keys
    BY <1>1, <1>5 DEF AcceptExternalAttestation, At, RequestInv
  <2> QED
    BY <1>2, <1>4, <1>5, <2>1 DEF AcceptExternalAttestation
<1>6. ASSUME NEW q \in Requests, RecordApplicant(q)
      PROVE  FALSE
  <2> DEFINE f == request[q].key
             a == <<f[1], f[2], q>>
             new == [entities[f] EXCEPT !.sumsubApplicantId = a, !.kycProvider = "sumsub"]
  <2>1. f \in Keys
    BY <1>1, <1>6 DEF RecordApplicant, At, RequestInv
  <2>2. entities' = [entities EXCEPT ![f].sumsubApplicantId = a, ![f].kycProvider = "sumsub"]
    BY <1>2, <1>4, <1>6, <2>1 DEF RecordApplicant
  <2>3. entities' = [entities EXCEPT ![f] = new]
    BY <1>1, <2>1, <2>2
  <2>4. entities[f] \in EntityRow /\ entities[f].status = REVOKED /\ new.status # REVOKED
    <3> HIDE DEF f, new
    <3> QED BY <1>1, <2>1, <2>3, OnlyThatRow
  <2> QED
    BY <2>4 DEF EntityRow
<1>7. ASSUME NEW r \in Reviews, ApplyReview(r)
      PROVE  OnPurpose(e)
  <2> DEFINE me == review[r]
             f == me.entity
             new == ReviewedRow(entities[f], me.answer, me.level)
  <2>1. f \in Keys /\ me \in ReviewRecord /\ me.step = "found"
    BY <1>1, <1>7 DEF ApplyReview, ReviewInv
  <2>2. entities' = [entities EXCEPT ![f] = new]
    BY <1>1, <1>7, <2>1 DEF ApplyReview
  <2>3. e = f /\ entities[f] \in EntityRow /\ new.status # REVOKED
    <3> HIDE DEF f, new
    <3> QED BY <1>1, <2>1, <2>2, OnlyThatRow
  <2>4. me.answer = "GREEN"
    BY <2>3 DEF ReviewedRow, EntityRow
  <2>5. review'[r].step = "syncing"
    BY <1>1, <1>7, <2>4 DEF ApplyReview, AfterReview, ReviewRecord
  <2> QED
    BY <2>1, <2>3, <2>4, <2>5 DEF OnPurpose
<1>8. ASSUME NEW r \in Reviews, StoreAttestationAddress(r)
      PROVE  FALSE
  <2> DEFINE f == review[r].entity
             new == [entities[f] EXCEPT !.sasAttestationAddress = TRUE]
  <2>1. f \in Keys
    BY <1>1, <1>8 DEF StoreAttestationAddress, ReviewInv
  <2>2. entities' = [entities EXCEPT ![f] = new]
    BY <1>1, <1>8, <2>1 DEF StoreAttestationAddress
  <2>3. entities[f] \in EntityRow /\ entities[f].status = REVOKED /\ new.status # REVOKED
    <3> HIDE DEF f, new
    <3> QED BY <1>1, <2>1, <2>2, OnlyThatRow
  <2> QED
    BY <2>3 DEF EntityRow
<1>9. ASSUME NEW a \in Alerts, UpdateAffected(a)
      PROVE  FALSE
  <2>1. PICK f \in alert[a].todo : entities' = [entities EXCEPT ![f] = AlertedRow(@, alert[a].rating)]
    BY <1>9 DEF UpdateAffected
  <2> DEFINE new == AlertedRow(entities[f], alert[a].rating)
  <2>2. f \in Keys
    BY <1>1 DEF AlertRecord
  <2>3. entities' = [entities EXCEPT ![f] = new]
    BY <1>1, <2>1, <2>2
  <2>4. entities[f] \in EntityRow /\ entities[f].status = REVOKED /\ new.status # REVOKED
    <3> HIDE DEF new
    <3> QED BY <1>1, <2>2, <2>3, OnlyThatRow
  <2> QED
    BY <2>4 DEF AlertedRow, EntityRow
<1>10. ASSUME NEW a \in Alerts, UpdateRiskScoreOnChain(a)
       PROVE  FALSE
  <2>1. entities' = [f \in Keys |->
            IF f[2] = alert[a].entity[2] /\ entities[f] # None
            THEN [entities[f] EXCEPT !.riskScore = AlertScore[alert[a].rating]]
            ELSE entities[f]]
    BY <1>2, <1>10 DEF UpdateRiskScoreOnChain
  <2>2. entities[e] \in EntityRow /\ entities[e].status = REVOKED /\ entities'[e].status # REVOKED
    BY <1>1 DEF Reactivated, Row
  <2>3. \/ entities'[e] = entities[e]
        \/ entities'[e] = [entities[e] EXCEPT !.riskScore = AlertScore[alert[a].rating]]
    BY <2>1
  <2> QED
    BY <2>2, <2>3 DEF EntityRow
<1>11. ASSUME NEW i \in Institutions
       PROVE  /\ \A w \in Wallets, g \in Grants :
                    CreateEntity(i, w, g) => UNCHANGED <<outside, handlers, failures>>
              /\ \A w \in Wallets, p \in Patches :
                    UpdateEntity(i, w, p) => UNCHANGED <<outside, handlers, failures>>
              /\ \A j \in Institutions, on \in BOOLEAN : ~UpdateInstitution(i, j, on)
              /\ \A j \in Institutions, t \in TrustTerms : ~AddTrustedInstitution(i, j, t)
              /\ \A j \in Institutions : ~RemoveTrustedInstitution(i, j)
  BY <1>2 DEF CreateEntity, UpdateEntity, UpdateInstitution, AddTrustedInstitution,
              RemoveTrustedInstitution
<1>12. ASSUME NEW q \in Requests
       PROVE  /\ \A i, j \in Institutions, w \in Wallets : ~CheckTrust(q, i, j, w)
              /\ \A i \in Institutions, w \in Wallets : ~InitiateVerification(q, i, w)
              /\ ~ReadSource(q) /\ ~CreateApplicant(q) /\ ~RequestFails(q)
  BY <1>2 DEF CheckTrust, InitiateVerification, ReadSource, CreateApplicant, RequestFails, tables
<1>13. ASSUME NEW r \in Reviews
       PROVE  /\ \A a \in applicants, answer \in Answers : \A n : ~SendReview(r, a, answer, n)
              /\ ~FindEntity(r) /\ ~ReadForAttestation(r) /\ ~CreateAttestation(r)
              /\ ~AcknowledgeReview(r) /\ ~ReviewFails(r)
  BY <1>2 DEF SendReview, FindEntity, ReadForAttestation, CreateAttestation,
              AcknowledgeReview, ReviewFails, tables
<1>14. ASSUME NEW a \in Alerts
       PROVE  /\ \A i \in Institutions, rating \in Ratings : ~SendAlert(a, i, rating)
              /\ ~SelectAffected(a) /\ ~AuditAffected(a) /\ ~AlertFails(a)
  BY <1>2 DEF SendAlert, SelectAffected, AuditAffected, AlertFails, tables
<1> QED
  BY <1>3, <1>5, <1>6, <1>7, <1>8, <1>9, <1>10, <1>11, <1>12, <1>13, <1>14
     DEF EntityNext, HandleReview, HandleAlert

(* Scoring, syncing, recording an applicant and redelivered alerts leave a *)
(* revoked row revoked.                                                    *)
THEOREM ReactivatedCorrect == EntitySpec => ReactivatedOnPurpose
<1>1. EntityInv /\ [EntityNext]_entityVars =>
          [\A e \in Keys : Reactivated(e) => OnPurpose(e)]_entityVars
  BY StepReactivates
<1>2. EntitySpec => [][\A e \in Keys : Reactivated(e) => OnPurpose(e)]_entityVars
  BY <1>1, EntityInvariant, PTL DEF EntitySpec
<1> QED
  BY <1>2 DEF ReactivatedOnPurpose, Reactivated, OnPurpose
=============================================================================
