---------------------- MODULE AttestationRegistry_proofs ----------------------
(***************************************************************************)
(* Proofs about the identity half of the program.  Each result about a     *)
(* step is a lemma on RegistryNext, so that it serves both RegistrySpec    *)
(* and the whole program of CompliantTransfers.                            *)
(***************************************************************************)
EXTENDS AttestationRegistry, FiniteSetTheorems, TLAPS

(* swap_remove yields a list of the same elements' type, one shorter.      *)
LEMMA SwapRemoveType ==
    ASSUME NEW S, NEW list \in Seq(S), NEW pos \in 1..Len(list)
    PROVE  /\ SwapRemove(list, pos) \in Seq(S)
           /\ Len(SwapRemove(list, pos)) = Len(list) - 1
BY DEF SwapRemove

(* Constant-level facts about the records the instructions build.          *)
LEMMA CountInstitutionType ==
    ASSUME NEW r \in RegistryAccount, CheckedAdd(r.institution_count)
    PROVE  [r EXCEPT !.institution_count = @ + 1] \in RegistryAccount
BY BoundsAssumption DEF RegistryAccount, CheckedAdd

(* Counting one attestation more keeps an institution a record of its type. *)
LEMMA CountAttestationType ==
    ASSUME NEW r \in Institution, CheckedAdd(r.attestation_count)
    PROVE  [r EXCEPT !.attestation_count = @ + 1] \in Institution
BY BoundsAssumption DEF Institution, CheckedAdd

(* An attestation an institution grants on its own word is of its type.    *)
LEMMA FirstPartyType ==
    ASSUME NEW i \in Institutions, NEW level \in U8, NEW score \in 0..MAX_RISK_SCORE,
           NEW expiry \in Int
    PROVE  [kyc_hash |-> i, kyc_level |-> level, risk_score |-> score,
            status |-> KYC_STATUS_ACTIVE, expires_at |-> expiry,
            original_institution |-> None] \in KycAttestation
BY DEF KycAttestation

(* A revoked attestation is an attestation.                                *)
LEMMA RevokedType ==
    ASSUME NEW a \in KycAttestation
    PROVE  [a EXCEPT !.status = KYC_STATUS_REVOKED] \in KycAttestation
BY DEF KycAttestation

(* An attestation with another valid score is an attestation.              *)
LEMMA RescoredType ==
    ASSUME NEW a \in KycAttestation, NEW score \in 0..MAX_RISK_SCORE
    PROVE  [a EXCEPT !.risk_score = score] \in KycAttestation
BY DEF KycAttestation

(* The copy an acceptance makes is an attestation.                         *)
LEMMA AcceptedType ==
    ASSUME NEW a \in KycAttestation, NEW e \in Institutions
    PROVE  Accepted(e, a) \in KycAttestation
BY DEF KycAttestation, Accepted

(* A recorded proof within the level bound is of its type.                 *)
LEMMA ZkProofType ==
    ASSUME NEW g \in ZkGrants, g.kyc_level <= KYC_LEVEL_INSTITUTIONAL
    PROVE  [kyc_level |-> g.kyc_level, expires_at |-> g.expires_at,
            status |-> ZK_PROOF_STATUS_VERIFIED] \in ZkProofRecord
<1>1. g \in [kyc_level : U8, expires_at : Int]
  BY InputsAssumption
<1> QED BY <1>1 DEF ZkProofRecord, U8, KYC_LEVEL_INSTITUTIONAL

(* The attestation written from a proof is of its type.                    *)
LEMMA FromProofType ==
    ASSUME NEW i \in Institutions, NEW p \in ZkProofRecord
    PROVE  [kyc_hash |-> i, kyc_level |-> p.kyc_level, risk_score |-> 0,
            status |-> KYC_STATUS_ACTIVE, expires_at |-> p.expires_at,
            original_institution |-> None] \in KycAttestation
<1>1. p.kyc_level \in U8 /\ p.expires_at \in Int
  BY DEF ZkProofRecord, U8, KYC_LEVEL_INSTITUTIONAL
<1>2. 0 \in 0..MAX_RISK_SCORE
  BY DEF MAX_RISK_SCORE
<1> QED BY <1>1, <1>2, FirstPartyType

(* A score that passes the check is at most MAX_RISK_SCORE.                *)
LEMMA ScoreType ==
    ASSUME NEW score \in RiskScores, ValidRiskScore(score)
    PROVE  score \in 0..MAX_RISK_SCORE
BY InputsAssumption DEF ValidRiskScore, U8, MAX_RISK_SCORE

(* A grant whose score passes the check has typed fields.                  *)
LEMMA GrantType ==
    ASSUME NEW g \in KycGrants, ValidRiskScore(g.risk_score)
    PROVE  g.kyc_level \in U8 /\ g.risk_score \in 0..MAX_RISK_SCORE /\ g.expires_at \in Int
<1>1. g \in [kyc_level : U8, risk_score : U8, expires_at : Int]
  BY InputsAssumption
<1> QED BY <1>1 DEF U8, ValidRiskScore, MAX_RISK_SCORE

(* Writing an attestation keeps the two account tables it touches typed.   *)
LEMMA IssueType ==
    ASSUME TypeOK, NEW i \in Institutions, NEW w \in Wallets, institutions[i] # None,
           NEW attestation \in KycAttestation, IssueAttestation(i, w, attestation)
    PROVE  /\ institutions' \in [Institutions -> Institution \cup {None}]
           /\ attestations' \in [Institutions -> [Wallets -> KycAttestation \cup {None}]]
<1>1. institutions[i] \in Institution
  BY DEF TypeOK
<1>2. [institutions[i] EXCEPT !.attestation_count = @ + 1] \in Institution
  BY <1>1, CountAttestationType DEF IssueAttestation
<1>3. institutions' = [institutions EXCEPT ![i] =
                         [institutions[i] EXCEPT !.attestation_count = @ + 1]]
  BY DEF IssueAttestation, TypeOK
<1> QED BY <1>2, <1>3 DEF IssueAttestation, TypeOK

(* No account exists at first.                                             *)
LEMMA RegistryTypeInit == Init => TypeOK
BY DEF Init, TypeOK

(* Every instruction keeps the accounts within their types.                *)
LEMMA RegistryTypeStep ==
    ASSUME TypeOK, RegistryNext
    PROVE  TypeOK'
<1> USE DEF TypeOK
<1>1. ASSUME NEW k \in Keys, InitializeRegistry(k)
      PROVE  TypeOK'
  BY <1>1, BoundsAssumption DEF InitializeRegistry, RegistryAccount
<1>2. ASSUME NEW k \in Keys, NEW i \in Institutions, NEW a \in Keys,
             NEW j \in Jurisdictions, RegisterInstitution(k, i, a, j)
      PROVE  TypeOK'
  <2>1. registry \in RegistryAccount
    BY <1>2 DEF RegisterInstitution, NotPaused
  <2>2. [registry EXCEPT !.institution_count = @ + 1] \in RegistryAccount
    BY <1>2, <2>1, CountInstitutionType DEF RegisterInstitution
  <2>3. [authority |-> a, jurisdiction |-> j, active |-> TRUE,
         attestation_count |-> 0] \in Institution
    BY BoundsAssumption DEF Institution
  <2> QED BY <1>2, <2>2, <2>3 DEF RegisterInstitution
<1>3. ASSUME NEW k \in Keys, NEW i \in Institutions, NEW t \in Institutions,
             NEW terms \in TrustTerms, AddTrustedInstitution(k, i, t, terms)
      PROVE  TypeOK'
  <2>1. TrustedBy(i) \in Seq(Institutions)
    BY DEF TrustedBy, TrustNetwork
  <2>2. Append(TrustedBy(i), t) \in Seq(Institutions)
    BY <2>1
  <2>3. [trusted_institutions |-> Append(TrustedBy(i), t),
         min_accepted_kyc_level |-> terms.min_accepted_kyc_level,
         require_same_jurisdiction |-> terms.require_same_jurisdiction] \in TrustNetwork
    BY <2>2, InputsAssumption DEF TrustNetwork
  <2> QED BY <1>3, <2>3 DEF AddTrustedInstitution
<1>4. ASSUME NEW k \in Keys, NEW i \in Institutions, NEW t \in Institutions,
             RemoveTrustedInstitution(k, i, t)
      PROVE  TypeOK'
  <2> DEFINE list == trustNetworks[i].trusted_institutions
  <2>1. trustNetworks[i] \in TrustNetwork /\ list \in Seq(Institutions)
    BY <1>4 DEF RemoveTrustedInstitution, TrustNetwork
  <2>2. PICK pos \in 1..Len(list) :
           trustNetworks' = [trustNetworks EXCEPT ![i].trusted_institutions =
                               SwapRemove(@, pos)]
    BY <1>4 DEF RemoveTrustedInstitution
  <2>3. SwapRemove(list, pos) \in Seq(Institutions)
    BY <2>1, SwapRemoveType
  <2>4. [trustNetworks[i] EXCEPT !.trusted_institutions = SwapRemove(@, pos)] \in TrustNetwork
    BY <2>1, <2>3 DEF TrustNetwork
  <2> QED BY <1>4, <2>2, <2>4 DEF RemoveTrustedInstitution
<1>5. ASSUME NEW k \in Keys, NEW i \in Institutions, NEW w \in Wallets,
             NEW g \in KycGrants, CreateKycAttestation(k, i, w, g)
      PROVE  TypeOK'
  <2>1. [kyc_hash |-> i, kyc_level |-> g.kyc_level, risk_score |-> g.risk_score,
         status |-> KYC_STATUS_ACTIVE, expires_at |-> g.expires_at,
         original_institution |-> None] \in KycAttestation
    BY <1>5, GrantType, FirstPartyType DEF CreateKycAttestation
  <2> QED BY <1>5, <2>1, IssueType DEF CreateKycAttestation, ActiveAndAuthorized, Authorized
<1>6. ASSUME NEW k \in Keys, NEW i \in Institutions, NEW w \in Wallets,
             RevokeKycAttestation(k, i, w)
      PROVE  TypeOK'
  <2>1. attestations[i][w] \in KycAttestation
    BY <1>6 DEF RevokeKycAttestation
  <2>2. [attestations[i][w] EXCEPT !.status = KYC_STATUS_REVOKED] \in KycAttestation
    BY <2>1, RevokedType
  <2> QED BY <1>6, <2>2 DEF RevokeKycAttestation
<1>7. ASSUME NEW k \in Keys, NEW i \in Institutions, NEW w \in Wallets,
             NEW s \in RiskScores, UpdateRiskScore(k, i, w, s)
      PROVE  TypeOK'
  <2>1. attestations[i][w] \in KycAttestation
    BY <1>7 DEF UpdateRiskScore
  <2>2. s \in 0..MAX_RISK_SCORE
    BY <1>7, ScoreType DEF UpdateRiskScore
  <2>3. [attestations[i][w] EXCEPT !.risk_score = s] \in KycAttestation
    BY <2>1, <2>2, RescoredType
  <2> QED BY <1>7, <2>3 DEF UpdateRiskScore
<1>8. ASSUME NEW k \in Keys, NEW i \in Institutions, NEW w \in Wallets,
             NEW e \in Institutions, AcceptExternalAttestation(k, i, e, w)
      PROVE  TypeOK'
  <2>1. Accepted(e, attestations[e][w]) \in KycAttestation
    BY <1>8, AcceptedType DEF AcceptExternalAttestation
  <2> QED BY <1>8, <2>1, IssueType
          DEF AcceptExternalAttestation, ActiveAndAuthorized, Authorized
<1>9. ASSUME NEW k \in Keys, NEW i \in Institutions, NEW w \in Wallets,
             NEW p \in ProofIds, NEW g \in ZkGrants, RecordZkProof(k, i, w, p, g)
      PROVE  TypeOK'
  <2>1. [kyc_level |-> g.kyc_level, expires_at |-> g.expires_at,
         status |-> ZK_PROOF_STATUS_VERIFIED] \in ZkProofRecord
    BY <1>9, ZkProofType DEF RecordZkProof
  <2> QED BY <1>9, <2>1 DEF RecordZkProof
<1>10. ASSUME NEW k \in Keys, NEW i \in Institutions, NEW w \in Wallets,
              NEW p \in ProofIds, VerifyZkAttestation(k, i, w, p)
       PROVE  TypeOK'
  <2> DEFINE proof == zkProofs[i][w][p]
  <2>1. proof \in ZkProofRecord
    BY <1>10 DEF VerifyZkAttestation
  <2>2. [kyc_hash |-> i, kyc_level |-> proof.kyc_level, risk_score |-> 0,
         status |-> KYC_STATUS_ACTIVE, expires_at |-> proof.expires_at,
         original_institution |-> None] \in KycAttestation
    BY <2>1, FromProofType
  <2> QED BY <1>10, <2>2, IssueType DEF VerifyZkAttestation, ActiveAndAuthorized, Authorized
<1>11. Tick => TypeOK'
  BY DEF Tick
<1> QED
  <2> HIDE DEF TypeOK
  <2> QED BY <1>1, <1>2, <1>3, <1>4, <1>5, <1>6, <1>7, <1>8, <1>9, <1>10, <1>11
          DEF RegistryNext

(* Type correctness of the identity half.                                  *)
THEOREM RegistryTypeCorrect == RegistrySpec => []TypeOK
<1>1. TypeOK /\ UNCHANGED registryVars => TypeOK'
  BY DEF TypeOK, registryVars
<1>2. TypeOK /\ [RegistryNext]_registryVars => TypeOK'
  BY <1>1, RegistryTypeStep
<1> QED BY RegistryTypeInit, <1>2, PTL DEF RegistrySpec

-----------------------------------------------------------------------------
(* Provenance.                                                             *)

SameKyc(a, b) ==
    /\ a.kyc_hash = b.kyc_hash
    /\ a.kyc_level = b.kyc_level
    /\ a.expires_at = b.expires_at

(* The three ways an instruction writes an attestation: as a first-party   *)
(* one, in a vacant place or from a recorded proof; over one whose         *)
(* provenance and KYC it keeps; or in a vacant place, as a copy of the     *)
(* existing attestation it names as provenance.                            *)
WrittenTo(i, w, x) ==
    /\ attestations' = [attestations EXCEPT ![i][w] = x]
    /\ UNCHANGED clock
    /\ \/ /\ x.original_institution = None
          /\ attestations[i][w] = None \/ ProofBacks(i, w, x, clock)
       \/ /\ attestations[i][w] # None
          /\ x.original_institution = attestations[i][w].original_institution
          /\ SameKyc(x, attestations[i][w])
          /\ x.status \in {attestations[i][w].status, KYC_STATUS_REVOKED}
       \/ /\ attestations[i][w] = None
          /\ x.original_institution \in Institutions
          /\ attestations[x.original_institution][w] # None
          /\ SameKyc(x, attestations[x.original_institution][w])

(* Each of the three keeps provenance well founded.  The third is the one  *)
(* that matters: nobody's provenance can be the vacant place, so filling   *)
(* it cannot close a cycle.                                                *)
LEMMA WriteKeepsProvenance ==
    ASSUME TypeOK, ProvenanceWellFounded, NEW i \in Institutions, NEW w \in Wallets,
           NEW x \in KycAttestation, WrittenTo(i, w, x)
    PROVE  ProvenanceWellFounded'
<1>1. x # None
  BY NoneAssumption
<1>2. /\ attestations'[i][w] = x
      /\ \A j \in Institutions, v \in Wallets :
            (j # i \/ v # w) => attestations'[j][v] = attestations[j][v]
  BY DEF TypeOK, WrittenTo
<1>3. \A j \in Institutions, v \in Wallets :
         attestations[j][v] # None => attestations'[j][v] # None
  BY <1>1, <1>2
<1>4. \A j \in Institutions, v \in Wallets : IsAccepted(attestations[j][v]) =>
         attestations[j][v].original_institution \in Institutions
  <2> TAKE j \in Institutions, v \in Wallets
  <2> HAVE IsAccepted(attestations[j][v])
  <2>1. attestations[j][v] \in KycAttestation
    BY DEF TypeOK, IsAccepted
  <2> QED BY <2>1 DEF KycAttestation, IsAccepted
<1>5. ASSUME NEW v \in Wallets, NEW j \in Institutions, IsAccepted(attestations'[j][v])
      PROVE  attestations'[attestations'[j][v].original_institution][v] # None
  <2>1. CASE j # i \/ v # w
    BY <1>2, <1>3, <1>4, <1>5, <2>1 DEF ProvenanceWellFounded
  <2>2. CASE j = i /\ v = w
    <3>1. x.original_institution # None
      BY <1>2, <1>5, <2>2 DEF IsAccepted
    <3>2. CASE attestations[i][w] # None /\
               x.original_institution = attestations[i][w].original_institution
      BY <1>2, <1>3, <1>4, <2>2, <3>1, <3>2 DEF ProvenanceWellFounded, IsAccepted
    <3>3. CASE x.original_institution \in Institutions /\
               attestations[x.original_institution][w] # None
      BY <1>2, <1>3, <2>2, <3>3
    <3> QED BY <3>1, <3>2, <3>3 DEF WrittenTo
  <2> QED BY <2>1, <2>2
<1>6. ASSUME NEW v \in Wallets,
             NEW group \in SUBSET {j \in Institutions : IsAccepted(attestations'[j][v])},
             group # {}
      PROVE  \E j \in group : attestations'[j][v].original_institution \notin group
  <2> DEFINE accepted == {j \in Institutions : IsAccepted(attestations[j][v])}
             rest == group \ {i}
  <2>1. \A S \in SUBSET accepted : S # {} =>
           \E j \in S : attestations[j][v].original_institution \notin S
    BY DEF ProvenanceWellFounded
  <2>2. CASE v # w \/ i \notin group
    <3>1. \A j \in group : j \in Institutions /\ attestations'[j][v] = attestations[j][v]
      BY <1>2, <2>2
    <3>2. group \in SUBSET accepted
      BY <3>1
    <3> QED BY <1>6, <2>1, <3>1, <3>2
  <2>3. CASE v = w /\ i \in group
    <3>1. x.original_institution # None
      BY <1>2, <2>3 DEF IsAccepted
    <3>2. rest \in SUBSET accepted
      BY <1>2, <2>3
    <3>3. CASE attestations[i][w] # None /\
               x.original_institution = attestations[i][w].original_institution
      <4>1. i \in accepted
        BY <2>3, <3>1, <3>3 DEF IsAccepted
      <4>2. group \in SUBSET accepted
        BY <3>2, <4>1
      <4>3. PICK j \in group : attestations[j][v].original_institution \notin group
        BY <1>6, <2>1, <4>2
      <4>4. attestations'[j][v].original_institution = attestations[j][v].original_institution
        BY <1>2, <2>3, <3>3
      <4> QED BY <4>3, <4>4
    <3>4. CASE attestations[i][w] = None /\
               attestations[x.original_institution][w] # None
      <4>1. CASE rest = {}
        <5>1. group = {i}
          BY <2>3, <4>1
        <5> QED BY <1>2, <2>3, <3>4, <5>1
      <4>2. CASE rest # {}
        <5>1. PICK j \in rest : attestations[j][v].original_institution \notin rest
          BY <2>1, <3>2, <4>2
        <5>2. attestations[attestations[j][v].original_institution][v] # None
          BY <3>2, <5>1 DEF ProvenanceWellFounded
        <5>3. attestations[j][v].original_institution # i
          BY <2>3, <3>4, <5>2
        <5>4. attestations'[j][v] = attestations[j][v]
          BY <1>2, <5>1
        <5> QED BY <5>1, <5>3, <5>4
      <4> QED BY <4>1, <4>2
    <3> QED BY <3>1, <3>3, <3>4 DEF WrittenTo
  <2> QED BY <2>2, <2>3
<1> QED BY <1>5, <1>6 DEF ProvenanceWellFounded

(* A proof record is never closed or rewritten to None.                    *)
LEMMA ZkProofsPersist ==
    ASSUME TypeOK, RegistryNext, NEW i \in Institutions, NEW w \in Wallets,
           NEW p \in ProofIds, zkProofs'[i][w][p] = None
    PROVE  zkProofs[i][w][p] = None
<1>1. ASSUME NEW k \in Keys, NEW j \in Institutions, NEW v \in Wallets,
             NEW q \in ProofIds, NEW g \in ZkGrants, RecordZkProof(k, j, v, q, g)
      PROVE  zkProofs[i][w][p] = None
  <2>1. [kyc_level |-> g.kyc_level, expires_at |-> g.expires_at,
         status |-> ZK_PROOF_STATUS_VERIFIED] # None
    BY <1>1, ZkProofType, NoneAssumption DEF RecordZkProof
  <2> QED BY <1>1, <2>1 DEF RecordZkProof, TypeOK
<1>2. CASE UNCHANGED zkProofs
  BY <1>2
<1>3. ASSUME NEW k \in Keys, NEW j \in Institutions
      PROVE  /\ \A a \in Keys, c \in Jurisdictions :
                   RegisterInstitution(k, j, a, c) => UNCHANGED zkProofs
             /\ \A t \in Institutions :
                   /\ \A terms \in TrustTerms :
                         AddTrustedInstitution(k, j, t, terms) => UNCHANGED zkProofs
                   /\ RemoveTrustedInstitution(k, j, t) => UNCHANGED zkProofs
             /\ \A v \in Wallets :
                   /\ \A g \in KycGrants :
                         CreateKycAttestation(k, j, v, g) => UNCHANGED zkProofs
                   /\ RevokeKycAttestation(k, j, v) => UNCHANGED zkProofs
                   /\ \A s \in RiskScores :
                         UpdateRiskScore(k, j, v, s) => UNCHANGED zkProofs
                   /\ \A e \in Institutions :
                         AcceptExternalAttestation(k, j, e, v) => UNCHANGED zkProofs
                   /\ \A q \in ProofIds :
                         VerifyZkAttestation(k, j, v, q) => UNCHANGED zkProofs
  BY DEF RegisterInstitution, AddTrustedInstitution, RemoveTrustedInstitution,
         CreateKycAttestation, RevokeKycAttestation, UpdateRiskScore,
         AcceptExternalAttestation, VerifyZkAttestation
<1>4. ASSUME NEW k \in Keys, InitializeRegistry(k)
      PROVE  UNCHANGED zkProofs
  BY <1>4 DEF InitializeRegistry
<1>5. Tick => UNCHANGED zkProofs
  BY DEF Tick
<1> QED BY <1>1, <1>2, <1>3, <1>4, <1>5 DEF RegistryNext

(* Only Tick moves the clock, and forward.                                 *)
LEMMA ClockAdvances ==
    ASSUME TypeOK, RegistryNext
    PROVE  clock \in Nat /\ clock' \in Nat /\ clock <= clock'
<1>1. clock \in Nat
  BY DEF TypeOK
<1>2. ASSUME NEW k \in Keys, NEW j \in Institutions
      PROVE  /\ \A a \in Keys, c \in Jurisdictions :
                   RegisterInstitution(k, j, a, c) => UNCHANGED clock
             /\ \A t \in Institutions :
                   /\ \A terms \in TrustTerms :
                         AddTrustedInstitution(k, j, t, terms) => UNCHANGED clock
                   /\ RemoveTrustedInstitution(k, j, t) => UNCHANGED clock
             /\ \A v \in Wallets :
                   /\ \A g \in KycGrants :
                         CreateKycAttestation(k, j, v, g) => UNCHANGED clock
                   /\ RevokeKycAttestation(k, j, v) => UNCHANGED clock
                   /\ \A s \in RiskScores :
                         UpdateRiskScore(k, j, v, s) => UNCHANGED clock
                   /\ \A e \in Institutions :
                         AcceptExternalAttestation(k, j, e, v) => UNCHANGED clock
                   /\ \A q \in ProofIds :
                         /\ \A g \in ZkGrants :
                               RecordZkProof(k, j, v, q, g) => UNCHANGED clock
                         /\ VerifyZkAttestation(k, j, v, q) => UNCHANGED clock
  BY DEF RegisterInstitution, AddTrustedInstitution, RemoveTrustedInstitution,
         CreateKycAttestation, RevokeKycAttestation, UpdateRiskScore,
         AcceptExternalAttestation, RecordZkProof, VerifyZkAttestation
<1>3. ASSUME NEW k \in Keys, InitializeRegistry(k)
      PROVE  UNCHANGED clock
  BY <1>3 DEF InitializeRegistry
<1>4. Tick => clock' = clock + 1
  BY DEF Tick
<1>5. clock' = clock \/ clock' = clock + 1
  BY <1>2, <1>3, <1>4 DEF RegistryNext
<1> QED BY <1>1, <1>5

(* The instructions that issue leave an attestation behind.                *)
LEMMA IssuedExists ==
    ASSUME TypeOK, NEW k \in Keys, NEW i \in Institutions, NEW w \in Wallets,
           \/ \E g \in KycGrants : CreateKycAttestation(k, i, w, g)
           \/ \E e \in Institutions : AcceptExternalAttestation(k, i, e, w)
           \/ \E p \in ProofIds : VerifyZkAttestation(k, i, w, p)
    PROVE  attestations'[i][w] # None
<1>1. \A x \in KycAttestation : IssueAttestation(i, w, x) => attestations'[i][w] # None
  BY NoneAssumption DEF IssueAttestation, TypeOK
<1>2. ASSUME NEW g \in KycGrants, CreateKycAttestation(k, i, w, g)
      PROVE  attestations'[i][w] # None
  BY <1>1, <1>2, GrantType, FirstPartyType DEF CreateKycAttestation
<1>3. ASSUME NEW e \in Institutions, AcceptExternalAttestation(k, i, e, w)
      PROVE  attestations'[i][w] # None
  <2>1. attestations[e][w] \in KycAttestation
    BY <1>3 DEF AcceptExternalAttestation, TypeOK
  <2> QED BY <1>1, <1>3, <2>1, AcceptedType DEF AcceptExternalAttestation
<1>4. ASSUME NEW p \in ProofIds, VerifyZkAttestation(k, i, w, p)
      PROVE  attestations'[i][w] # None
  <2>1. zkProofs[i][w][p] \in ZkProofRecord
    BY <1>4 DEF VerifyZkAttestation, TypeOK
  <2> QED BY <1>1, <1>4, <2>1, FromProofType DEF VerifyZkAttestation
<1> QED BY <1>2, <1>3, <1>4

(* Every instruction either leaves the attestations alone or writes one in *)
(* one of the three ways.                                                  *)
LEMMA AttestationsWritten ==
    ASSUME TypeOK, RegistryNext
    PROVE  \/ UNCHANGED attestations
           \/ \E i \in Institutions, w \in Wallets, x \in KycAttestation : WrittenTo(i, w, x)
<1>1. ASSUME NEW k \in Keys, NEW i \in Institutions, NEW w \in Wallets,
             NEW g \in KycGrants, CreateKycAttestation(k, i, w, g)
      PROVE  \E x \in KycAttestation : WrittenTo(i, w, x)
  <2> DEFINE x == [kyc_hash |-> i, kyc_level |-> g.kyc_level, risk_score |-> g.risk_score,
                   status |-> KYC_STATUS_ACTIVE, expires_at |-> g.expires_at,
                   original_institution |-> None]
  <2>1. x \in KycAttestation
    BY <1>1, GrantType, FirstPartyType DEF CreateKycAttestation
  <2>2. attestations' = [attestations EXCEPT ![i][w] = x]
    BY <1>1 DEF CreateKycAttestation, IssueAttestation
  <2>3. x.original_institution = None /\ attestations[i][w] = None /\ UNCHANGED clock
    BY <1>1 DEF CreateKycAttestation, Vacant
  <2> QED BY <2>1, <2>2, <2>3 DEF WrittenTo
<1>2. ASSUME NEW k \in Keys, NEW i \in Institutions, NEW w \in Wallets,
             RevokeKycAttestation(k, i, w)
      PROVE  \E x \in KycAttestation : WrittenTo(i, w, x)
  <2> DEFINE x == [attestations[i][w] EXCEPT !.status = KYC_STATUS_REVOKED]
  <2>1. attestations[i][w] \in KycAttestation
    BY <1>2 DEF RevokeKycAttestation, TypeOK
  <2>2. x \in KycAttestation
    BY <2>1, RevokedType
  <2>3. /\ x.original_institution = attestations[i][w].original_institution
        /\ SameKyc(x, attestations[i][w])
        /\ x.status = KYC_STATUS_REVOKED
    BY <2>1 DEF KycAttestation, SameKyc
  <2>4. attestations' = [attestations EXCEPT ![i][w] = x]
    BY <1>2 DEF RevokeKycAttestation, TypeOK
  <2> QED BY <1>2, <2>2, <2>3, <2>4 DEF WrittenTo, RevokeKycAttestation
<1>3. ASSUME NEW k \in Keys, NEW i \in Institutions, NEW w \in Wallets,
             NEW s \in RiskScores, UpdateRiskScore(k, i, w, s)
      PROVE  \E x \in KycAttestation : WrittenTo(i, w, x)
  <2> DEFINE x == [attestations[i][w] EXCEPT !.risk_score = s]
  <2>1. attestations[i][w] \in KycAttestation
    BY <1>3 DEF UpdateRiskScore, TypeOK
  <2>2. s \in 0..MAX_RISK_SCORE
    BY <1>3, ScoreType DEF UpdateRiskScore
  <2>3. x \in KycAttestation
    BY <2>1, <2>2, RescoredType
  <2>4. /\ x.original_institution = attestations[i][w].original_institution
        /\ SameKyc(x, attestations[i][w])
        /\ x.status = attestations[i][w].status
    BY <2>1 DEF KycAttestation, SameKyc
  <2>5. attestations' = [attestations EXCEPT ![i][w] = x]
    BY <1>3 DEF UpdateRiskScore, TypeOK
  <2> QED BY <1>3, <2>3, <2>4, <2>5 DEF WrittenTo, UpdateRiskScore
<1>4. ASSUME NEW k \in Keys, NEW i \in Institutions, NEW w \in Wallets,
             NEW e \in Institutions, AcceptExternalAttestation(k, i, e, w)
      PROVE  \E x \in KycAttestation : WrittenTo(i, w, x)
  <2> DEFINE x == Accepted(e, attestations[e][w])
  <2>1. attestations[e][w] \in KycAttestation
    BY <1>4 DEF AcceptExternalAttestation, TypeOK
  <2>2. x \in KycAttestation
    BY <2>1, AcceptedType
  <2>3. x.original_institution = e /\ SameKyc(x, attestations[e][w])
    BY <2>1 DEF KycAttestation, Accepted, SameKyc
  <2>4. attestations' = [attestations EXCEPT ![i][w] = x]
    BY <1>4 DEF AcceptExternalAttestation, IssueAttestation
  <2>5. attestations[i][w] = None /\ attestations[e][w] # None /\ UNCHANGED clock
    BY <1>4 DEF AcceptExternalAttestation, Vacant
  <2> HIDE DEF x
  <2>6. WrittenTo(i, w, x)
    BY <2>3, <2>4, <2>5 DEF WrittenTo
  <2> QED BY <2>2, <2>6
<1>5. ASSUME NEW k \in Keys, NEW i \in Institutions, NEW w \in Wallets,
             NEW p \in ProofIds, VerifyZkAttestation(k, i, w, p)
      PROVE  \E x \in KycAttestation : WrittenTo(i, w, x)
  <2> DEFINE proof == zkProofs[i][w][p]
             x == [kyc_hash |-> i, kyc_level |-> proof.kyc_level, risk_score |-> 0,
                   status |-> KYC_STATUS_ACTIVE, expires_at |-> proof.expires_at,
                   original_institution |-> None]
  <2>1. proof \in ZkProofRecord
    BY <1>5 DEF VerifyZkAttestation, TypeOK
  <2>2. x \in KycAttestation
    BY <2>1, FromProofType
  <2>3. attestations' = [attestations EXCEPT ![i][w] = x]
    BY <1>5 DEF VerifyZkAttestation, IssueAttestation
  <2>4. x.original_institution = None /\ UNCHANGED clock
    BY <1>5 DEF VerifyZkAttestation
  <2>5. ProofBacks(i, w, x, clock)
    BY <1>5 DEF VerifyZkAttestation, ProofBacks
  <2> QED BY <2>2, <2>3, <2>4, <2>5 DEF WrittenTo
<1>6. ASSUME NEW k \in Keys, NEW i \in Institutions
      PROVE  /\ InitializeRegistry(k) => UNCHANGED attestations
             /\ \A a \in Keys, j \in Jurisdictions :
                   RegisterInstitution(k, i, a, j) => UNCHANGED attestations
             /\ \A t \in Institutions :
                   /\ \A terms \in TrustTerms :
                         AddTrustedInstitution(k, i, t, terms) => UNCHANGED attestations
                   /\ RemoveTrustedInstitution(k, i, t) => UNCHANGED attestations
             /\ \A w \in Wallets, p \in ProofIds, g \in ZkGrants :
                   RecordZkProof(k, i, w, p, g) => UNCHANGED attestations
  BY DEF InitializeRegistry, RegisterInstitution, AddTrustedInstitution,
         RemoveTrustedInstitution, RecordZkProof
<1>7. Tick => UNCHANGED attestations
  BY DEF Tick
<1>8. ASSUME NEW k \in Keys, InitializeRegistry(k)
      PROVE  UNCHANGED attestations
  BY <1>8 DEF InitializeRegistry
<1> QED BY <1>1, <1>2, <1>3, <1>4, <1>5, <1>6, <1>7, <1>8 DEF RegistryNext

(* Every instruction keeps provenance well founded.                        *)
LEMMA ProvenanceStep ==
    ASSUME TypeOK, ProvenanceWellFounded, RegistryNext
    PROVE  ProvenanceWellFounded'
<1>1. CASE UNCHANGED attestations
  BY <1>1 DEF ProvenanceWellFounded
<1> QED BY <1>1, AttestationsWritten, WriteKeepsProvenance

(* No group of institutions attests anything at first.                     *)
LEMMA ProvenanceInit == Init => ProvenanceWellFounded
BY DEF Init, ProvenanceWellFounded, IsAccepted

(* No group of institutions attests a wallet only on each other's word.    *)
THEOREM ProvenanceCorrect == RegistrySpec => []ProvenanceWellFounded
<1>1. TypeOK /\ ProvenanceWellFounded /\ [RegistryNext]_registryVars
         => ProvenanceWellFounded'
  <2>1. UNCHANGED registryVars /\ ProvenanceWellFounded => ProvenanceWellFounded'
    BY DEF registryVars, ProvenanceWellFounded
  <2> QED BY <2>1, ProvenanceStep
<1> QED BY RegistryTypeCorrect, ProvenanceInit, <1>1, PTL DEF RegistrySpec

(* An acceptance copies; nothing but a recorded proof rewrites the copy or *)
(* its source afterwards.                                                  *)
LEMMA AcceptanceStep ==
    ASSUME TypeOK, AcceptanceAddsNothing, RegistryNext
    PROVE  AcceptanceAddsNothing'
<1>1. \A i \in Institutions, w \in Wallets, p \in ProofIds :
         zkProofs'[i][w][p] = None => zkProofs[i][w][p] = None
  BY ZkProofsPersist
<1> SUFFICES ASSUME NEW v \in Wallets,
                    \A i \in Institutions, p \in ProofIds : zkProofs'[i][v][p] = None,
                    NEW j \in Institutions, IsAccepted(attestations'[j][v])
             PROVE  LET a == attestations'[j][v]
                        source == attestations'[a.original_institution][v]
                    IN  source # None /\ SameKyc(a, source)
  BY DEF AcceptanceAddsNothing, SameKyc
<1>2. \A i \in Institutions, p \in ProofIds : zkProofs[i][v][p] = None
  BY <1>1
<1>3. \A i \in Institutions : IsAccepted(attestations[i][v]) =>
         /\ attestations[i][v].original_institution \in Institutions
         /\ attestations[attestations[i][v].original_institution][v] # None
         /\ SameKyc(attestations[i][v], attestations[attestations[i][v].original_institution][v])
  <2> TAKE i \in Institutions
  <2> HAVE IsAccepted(attestations[i][v])
  <2>1. attestations[i][v] \in KycAttestation
    BY DEF TypeOK, IsAccepted
  <2>2. attestations[i][v].original_institution \in Institutions
    BY <2>1 DEF KycAttestation, IsAccepted
  <2> QED BY <1>2, <2>2 DEF AcceptanceAddsNothing, SameKyc
<1>4. CASE UNCHANGED attestations
  BY <1>3, <1>4
<1>5. ASSUME NEW i \in Institutions, NEW w \in Wallets, NEW x \in KycAttestation,
             WrittenTo(i, w, x)
      PROVE  LET a == attestations'[j][v]
                 source == attestations'[a.original_institution][v]
             IN  source # None /\ SameKyc(a, source)
  <2> DEFINE old == attestations[i][w]
             o == attestations'[j][v].original_institution
  <2>1. /\ attestations'[i][w] = x
        /\ \A k \in Institutions, u \in Wallets :
              (k # i \/ u # w) => attestations'[k][u] = attestations[k][u]
    BY <1>5 DEF TypeOK, WrittenTo
  <2>2. x # None
    BY NoneAssumption
  <2>3. CASE v # w
    BY <1>3, <2>1, <2>3
  <2>4. CASE v = w
    <3>1. ~ProofBacks(i, w, x, clock)
      BY <1>2, <2>4 DEF ProofBacks
    <3>2. CASE old # None
      <4>1. /\ x.original_institution = old.original_institution
            /\ SameKyc(x, old)
        BY <1>5, <3>1, <3>2 DEF WrittenTo
      <4>2. \A k \in Institutions : attestations[k][w] # None =>
               /\ attestations'[k][w] # None
               /\ SameKyc(attestations'[k][w], attestations[k][w])
               /\ attestations'[k][w].original_institution
                    = attestations[k][w].original_institution
        BY <2>1, <2>2, <4>1 DEF SameKyc
      <4>3. IsAccepted(attestations[j][v])
        BY <2>1, <2>4, <3>2, <4>1 DEF IsAccepted
      <4>4. /\ o = attestations[j][v].original_institution
            /\ o \in Institutions
            /\ attestations[o][v] # None
            /\ SameKyc(attestations[j][v], attestations[o][v])
        BY <1>3, <2>4, <4>2, <4>3 DEF IsAccepted
      <4>5. SameKyc(attestations'[j][v], attestations[j][v])
        BY <2>4, <4>2, <4>3 DEF IsAccepted
      <4>6. attestations'[o][v] # None /\ SameKyc(attestations'[o][v], attestations[o][v])
        BY <2>4, <4>2, <4>4
      <4> QED BY <4>4, <4>5, <4>6 DEF SameKyc
    <3>3. CASE old = None
      <4>1. CASE j # i
        <5>1. attestations'[j][v] = attestations[j][v]
          BY <2>1, <4>1
        <5>2. o # i
          BY <1>3, <2>4, <3>3, <5>1
        <5> QED BY <1>3, <2>1, <5>1, <5>2
      <4>2. CASE j = i
        <5>1. attestations'[j][v] = x /\ x.original_institution # None
          BY <2>1, <2>4, <4>2 DEF IsAccepted
        <5>2. /\ o \in Institutions
              /\ attestations[o][v] # None
              /\ SameKyc(x, attestations[o][v])
          BY <1>5, <2>4, <3>3, <5>1 DEF WrittenTo
        <5>3. attestations'[o][v] = attestations[o][v]
          BY <2>1, <2>4, <3>3, <5>2
        <5> QED BY <5>1, <5>2, <5>3
      <4> QED BY <4>1, <4>2
    <3> QED BY <3>2, <3>3
  <2> QED BY <2>3, <2>4
<1> QED BY <1>4, <1>5, AttestationsWritten

(* An accepted attestation carries what the one it came from carries.      *)
THEOREM AcceptanceCorrect == RegistrySpec => []AcceptanceAddsNothing
<1>1. Init => AcceptanceAddsNothing
  BY DEF Init, AcceptanceAddsNothing, IsAccepted
<1>2. TypeOK /\ AcceptanceAddsNothing /\ [RegistryNext]_registryVars => AcceptanceAddsNothing'
  <2>1. UNCHANGED registryVars /\ AcceptanceAddsNothing => AcceptanceAddsNothing'
    BY DEF registryVars, AcceptanceAddsNothing
  <2> QED BY <2>1, AcceptanceStep
<1> QED BY RegistryTypeCorrect, <1>1, <1>2, PTL DEF RegistrySpec

(* Time only takes validity away, and so do revocation and rescoring; a    *)
(* grant or an acceptance needs a vacant place.  What is left is the proof.*)
LEMMA ValidityStep ==
    ASSUME TypeOK, RegistryNext, NEW j \in Institutions, NEW v \in Wallets,
           RegainsValidity(j, v)
    PROVE  ProofBacks(j, v, attestations'[j][v], clock')
<1> DEFINE old == attestations[j][v]
           new == attestations'[j][v]
<1>1. old \in KycAttestation
  BY DEF TypeOK, RegainsValidity
<1>2. ASSUME new = old
      PROVE  FALSE
  <2>1. clock \in Nat /\ clock' \in Nat /\ clock <= clock'
    BY ClockAdvances
  <2>2. old.expires_at \in Int
    BY <1>1 DEF KycAttestation
  <2> QED BY <1>2, <2>1, <2>2 DEF RegainsValidity, IsValid, IsActive, IsExpired
<1>3. ASSUME NEW i \in Institutions, NEW w \in Wallets, NEW x \in KycAttestation,
             WrittenTo(i, w, x)
      PROVE  ProofBacks(j, v, new, clock')
  <2>1. CASE i # j \/ w # v
    <3>1. new = old
      BY <1>3, <2>1 DEF TypeOK, WrittenTo
    <3> QED BY <1>2, <3>1
  <2>2. CASE i = j /\ w = v
    <3>1. new = x /\ old # None /\ clock' = clock
      BY <1>3, <2>2 DEF TypeOK, WrittenTo, RegainsValidity
    <3>2. CASE SameKyc(x, old) /\ x.status \in {old.status, KYC_STATUS_REVOKED}
      BY <3>1, <3>2 DEF RegainsValidity, IsValid, IsActive, IsExpired, SameKyc,
                        KYC_STATUS_REVOKED, KYC_STATUS_ACTIVE
    <3> QED BY <1>3, <2>2, <3>1, <3>2 DEF WrittenTo
  <2> QED BY <2>1, <2>2
<1> QED BY <1>2, <1>3, AttestationsWritten

(* Validity is regained only by a proof on record.                         *)
THEOREM ValidityCorrect == RegistrySpec => ValidityRegainedOnlyByProof
<1>1. TypeOK /\ [RegistryNext]_registryVars =>
         [\A i \in Institutions, w \in Wallets :
            RegainsValidity(i, w) => ProofBacks(i, w, attestations'[i][w], clock')]_registryVars
  BY ValidityStep
<1> QED BY RegistryTypeCorrect, <1>1, PTL DEF RegistrySpec, ValidityRegainedOnlyByProof

-----------------------------------------------------------------------------
(* Trust networks.                                                         *)

(* An institution account is never closed.                                 *)
LEMMA InstitutionsPersist ==
    ASSUME TypeOK, RegistryNext, NEW j \in Institutions, institutions[j] # None
    PROVE  institutions'[j] # None
<1>1. \A i \in Institutions, w \in Wallets : \A x :
         institutions[i] # None /\ IssueAttestation(i, w, x) => institutions'[j] # None
  <2> TAKE i \in Institutions, w \in Wallets
  <2> TAKE x
  <2> HAVE institutions[i] # None /\ IssueAttestation(i, w, x)
  <2>1. institutions[i] \in Institution
    BY DEF TypeOK
  <2>2. [institutions[i] EXCEPT !.attestation_count = @ + 1] # None
    BY <2>1, CountAttestationType, NoneAssumption DEF IssueAttestation
  <2> QED BY <2>2 DEF IssueAttestation, TypeOK
<1>2. ASSUME NEW k \in Keys, NEW i \in Institutions, NEW a \in Keys, NEW c \in Jurisdictions,
             RegisterInstitution(k, i, a, c)
      PROVE  institutions'[j] # None
  <2>1. j # i
    BY <1>2 DEF RegisterInstitution
  <2> QED BY <1>2, <2>1 DEF RegisterInstitution, TypeOK
<1>3. ASSUME NEW k \in Keys, NEW i \in Institutions, NEW w \in Wallets
      PROVE  /\ \A g \in KycGrants :
                   CreateKycAttestation(k, i, w, g) => institutions'[j] # None
             /\ \A e \in Institutions :
                   AcceptExternalAttestation(k, i, e, w) => institutions'[j] # None
             /\ \A p \in ProofIds :
                   VerifyZkAttestation(k, i, w, p) => institutions'[j] # None
  BY <1>1 DEF CreateKycAttestation, AcceptExternalAttestation, VerifyZkAttestation,
              ActiveAndAuthorized, Authorized
<1>4. ASSUME NEW k \in Keys, NEW i \in Institutions
      PROVE  /\ InitializeRegistry(k) => UNCHANGED institutions
             /\ \A t \in Institutions :
                   /\ \A terms \in TrustTerms :
                         AddTrustedInstitution(k, i, t, terms) => UNCHANGED institutions
                   /\ RemoveTrustedInstitution(k, i, t) => UNCHANGED institutions
             /\ \A w \in Wallets :
                   /\ RevokeKycAttestation(k, i, w) => UNCHANGED institutions
                   /\ \A s \in RiskScores :
                         UpdateRiskScore(k, i, w, s) => UNCHANGED institutions
                   /\ \A p \in ProofIds, g \in ZkGrants :
                         RecordZkProof(k, i, w, p, g) => UNCHANGED institutions
  BY DEF InitializeRegistry, AddTrustedInstitution, RemoveTrustedInstitution,
         RevokeKycAttestation, UpdateRiskScore, RecordZkProof
<1>5. Tick => UNCHANGED institutions
  BY DEF Tick
<1>6. ASSUME NEW k \in Keys, InitializeRegistry(k)
      PROVE  UNCHANGED institutions
  BY <1>6 DEF InitializeRegistry
<1> QED BY <1>2, <1>3, <1>4, <1>5, <1>6 DEF RegistryNext

(* What TrustNetworkSound asks of the list of institution i.               *)
SoundList(i, list) ==
    /\ Len(list) <= MAX_TRUSTED_INSTITUTIONS
    /\ \A k \in 1..Len(list) : list[k] # i /\ institutions[list[k]] # None
    /\ \A j, k \in 1..Len(list) : list[j] = list[k] => j = k

(* A list below capacity stays sound with one new institution appended.    *)
LEMMA AppendSound ==
    ASSUME NEW i \in Institutions, NEW list \in Seq(Institutions), SoundList(i, list),
           NEW t \in Institutions, t # i, institutions[t] # None, ~Contains(list, t),
           Len(list) < MAX_TRUSTED_INSTITUTIONS
    PROVE  SoundList(i, Append(list, t))
<1> DEFINE new == Append(list, t)
<1>1. Len(new) = Len(list) + 1 /\ new[Len(new)] = t
  OBVIOUS
<1>2. \A k \in 1..Len(list) : new[k] = list[k] /\ new[k] # t
  BY DEF Contains
<1>3. \A k \in 1..Len(new) : k \in 1..Len(list) \/ k = Len(new)
  BY <1>1
<1>4. Len(new) <= MAX_TRUSTED_INSTITUTIONS
  BY <1>1, BoundsAssumption
<1> HIDE DEF new
<1>5. \A k \in 1..Len(new) : new[k] # i /\ institutions[new[k]] # None
  BY <1>1, <1>2, <1>3 DEF SoundList
<1>6. \A j, k \in 1..Len(new) : new[j] = new[k] => j = k
  BY <1>1, <1>2, <1>3 DEF SoundList
<1> QED BY <1>4, <1>5, <1>6 DEF SoundList, new

(* A sound list stays sound with one entry swap-removed.                   *)
LEMMA SwapRemoveSound ==
    ASSUME NEW i \in Institutions, NEW list \in Seq(Institutions), SoundList(i, list),
           NEW pos \in 1..Len(list)
    PROVE  SoundList(i, SwapRemove(list, pos))
<1> DEFINE new == SwapRemove(list, pos)
           from(k) == IF k = pos THEN Len(list) ELSE k
<1>1. Len(new) = Len(list) - 1
  BY SwapRemoveType
<1>2. \A k \in 1..Len(new) : from(k) \in 1..Len(list) /\ new[k] = list[from(k)]
  BY <1>1 DEF SwapRemove
<1>3. \A j, k \in 1..Len(new) : from(j) = from(k) => j = k
  BY <1>1
<1>4. Len(new) <= MAX_TRUSTED_INSTITUTIONS
  BY <1>1, BoundsAssumption DEF SoundList
<1> HIDE DEF new, from
<1>5. \A k \in 1..Len(new) : new[k] # i /\ institutions[new[k]] # None
  BY <1>2 DEF SoundList
<1>6. ASSUME NEW j \in 1..Len(new), NEW k \in 1..Len(new), new[j] = new[k]
      PROVE  j = k
  <2>1. from(j) = from(k)
    BY <1>2, <1>6 DEF SoundList
  <2> QED BY <1>3, <2>1
<1> QED BY <1>4, <1>5, <1>6 DEF SoundList, new

(* No trust network exists at first.                                       *)
LEMMA TrustNetworkInit == Init => TrustNetworkSound
BY DEF Init, TrustNetworkSound

(* Every instruction keeps every trust network sound.                      *)
LEMMA TrustNetworkStep ==
    ASSUME TypeOK, TrustNetworkSound, RegistryNext
    PROVE  TrustNetworkSound'
<1> DEFINE list(i) == trustNetworks[i].trusted_institutions
<1>1. \A i \in Institutions : trustNetworks[i] # None =>
         institutions[i] # None /\ list(i) \in Seq(Institutions) /\ SoundList(i, list(i))
  BY DEF TypeOK, TrustNetwork, TrustNetworkSound, SoundList
<1>2. ASSUME NEW i \in Institutions, NEW l \in Seq(Institutions), SoundList(i, l)
      PROVE  /\ Len(l) <= MAX_TRUSTED_INSTITUTIONS
             /\ \A k \in 1..Len(l) : l[k] # i /\ institutions'[l[k]] # None
             /\ \A j, k \in 1..Len(l) : l[j] = l[k] => j = k
  BY <1>2, InstitutionsPersist DEF SoundList
<1>3. CASE UNCHANGED trustNetworks
  BY <1>1, <1>2, <1>3, InstitutionsPersist DEF TrustNetworkSound
<1>4. ASSUME NEW k \in Keys, NEW i \in Institutions, NEW t \in Institutions,
             \/ \E terms \in TrustTerms : AddTrustedInstitution(k, i, t, terms)
             \/ RemoveTrustedInstitution(k, i, t)
      PROVE  TrustNetworkSound'
  <2> DEFINE new == trustNetworks'[i].trusted_institutions
  <2>1. institutions[i] # None
    BY <1>4 DEF AddTrustedInstitution, RemoveTrustedInstitution,
                ActiveAndAuthorized, Authorized
  <2>2. \A j \in Institutions \ {i} : trustNetworks'[j] = trustNetworks[j]
    BY <1>4 DEF AddTrustedInstitution, RemoveTrustedInstitution, TypeOK
  <2>3. TrustedBy(i) \in Seq(Institutions) /\ SoundList(i, TrustedBy(i))
    BY <1>1, BoundsAssumption DEF TrustedBy, SoundList
  <2>4. ASSUME new \in Seq(Institutions), SoundList(i, new)
        PROVE  TrustNetworkSound'
    <3> DEFINE SoundAfter(l, j) ==
                  /\ Len(l) <= MAX_TRUSTED_INSTITUTIONS
                  /\ \A m \in 1..Len(l) : l[m] # j /\ institutions'[l[m]] # None
                  /\ \A m, n \in 1..Len(l) : l[m] = l[n] => m = n
    <3>1. SoundAfter(new, i) /\ institutions'[i] # None
      BY <1>2, <2>1, <2>4, InstitutionsPersist
    <3>2. ASSUME NEW j \in Institutions \ {i}, trustNetworks'[j] # None
          PROVE  SoundAfter(list(j), j) /\ institutions'[j] # None
      BY <1>1, <1>2, <2>2, <3>2, InstitutionsPersist
    <3>3. \A j \in Institutions \ {i} : list(j)' = list(j)
      BY <2>2
    <3> QED BY <3>1, <3>2, <3>3 DEF TrustNetworkSound
  <2>5. CASE \E terms \in TrustTerms : AddTrustedInstitution(k, i, t, terms)
    <3>1. new = Append(TrustedBy(i), t)
      BY <2>5 DEF AddTrustedInstitution, TypeOK
    <3>2. t # i /\ institutions[t] # None /\ ~Contains(TrustedBy(i), t)
          /\ Len(TrustedBy(i)) < MAX_TRUSTED_INSTITUTIONS
      BY <2>5 DEF AddTrustedInstitution
    <3>3. new \in Seq(Institutions) /\ SoundList(i, new)
      BY <2>3, <3>1, <3>2, AppendSound
    <3> QED BY <2>4, <3>3
  <2>6. CASE RemoveTrustedInstitution(k, i, t)
    <3>1. PICK pos \in 1..Len(list(i)) : new = SwapRemove(list(i), pos)
      BY <2>6 DEF RemoveTrustedInstitution, TypeOK, TrustNetwork
    <3>2. list(i) \in Seq(Institutions) /\ SoundList(i, list(i))
      BY <1>1, <2>6 DEF RemoveTrustedInstitution
    <3>3. new \in Seq(Institutions) /\ SoundList(i, new)
      BY <3>1, <3>2, SwapRemoveType, SwapRemoveSound
    <3> QED BY <2>4, <3>3
  <2> QED BY <1>4, <2>5, <2>6
<1>5. ASSUME NEW k \in Keys, NEW i \in Institutions
      PROVE  /\ \A a \in Keys, c \in Jurisdictions :
                   RegisterInstitution(k, i, a, c) => UNCHANGED trustNetworks
             /\ \A w \in Wallets :
                   /\ \A g \in KycGrants :
                         CreateKycAttestation(k, i, w, g) => UNCHANGED trustNetworks
                   /\ RevokeKycAttestation(k, i, w) => UNCHANGED trustNetworks
                   /\ \A s \in RiskScores :
                         UpdateRiskScore(k, i, w, s) => UNCHANGED trustNetworks
                   /\ \A e \in Institutions :
                         AcceptExternalAttestation(k, i, e, w) => UNCHANGED trustNetworks
                   /\ \A p \in ProofIds :
                         /\ \A g \in ZkGrants :
                               RecordZkProof(k, i, w, p, g) => UNCHANGED trustNetworks
                         /\ VerifyZkAttestation(k, i, w, p) => UNCHANGED trustNetworks
  BY DEF RegisterInstitution, CreateKycAttestation, RevokeKycAttestation, UpdateRiskScore,
         AcceptExternalAttestation, RecordZkProof, VerifyZkAttestation
<1>6. ASSUME NEW k \in Keys, InitializeRegistry(k) \/ Tick
      PROVE  UNCHANGED trustNetworks
  BY <1>6 DEF InitializeRegistry, Tick
<1>7. Tick => UNCHANGED trustNetworks
  BY DEF Tick
<1> QED BY <1>3, <1>4, <1>5, <1>6, <1>7 DEF RegistryNext

(* A trust network's list stays sound through every addition and removal.  *)
THEOREM TrustNetworkCorrect == RegistrySpec => []TrustNetworkSound
<1>1. TypeOK /\ TrustNetworkSound /\ [RegistryNext]_registryVars => TrustNetworkSound'
  <2>1. UNCHANGED registryVars /\ TrustNetworkSound => TrustNetworkSound'
    BY DEF registryVars, TrustNetworkSound
  <2> QED BY <2>1, TrustNetworkStep
<1> QED BY RegistryTypeCorrect, TrustNetworkInit, <1>1, PTL DEF RegistrySpec

-----------------------------------------------------------------------------
(* Counters.                                                               *)

Attested(i) == {w \in Wallets : attestations[i][w] # None}

Registered == {i \in Institutions : institutions[i] # None}

(* CountersCoverAccounts, taken apart.                                     *)
AttestationsCounted ==
    \A i \in Institutions :
        IF institutions[i] = None
        THEN Attested(i) = {}
        ELSE Cardinality(Attested(i)) <= institutions[i].attestation_count

InstitutionsCounted ==
    IF registry = None
    THEN Registered = {}
    ELSE registry.institution_count = Cardinality(Registered)

(* The property in terms of the sets of existing accounts.                 *)
LEMMA CountersAre == CountersCoverAccounts <=> AttestationsCounted /\ InstitutionsCounted
BY DEF CountersCoverAccounts, AttestationsCounted, InstitutionsCounted, Attested, Registered

(* The same, of the next state.                                            *)
LEMMA CountersArePrimed ==
    CountersCoverAccounts' <=> AttestationsCounted' /\ InstitutionsCounted'
BY DEF CountersCoverAccounts, AttestationsCounted, InstitutionsCounted, Attested, Registered

(* There are finitely many accounts to count.                              *)
LEMMA FiniteAccounts ==
    /\ IsFiniteSet(Registered)
    /\ \A i \in Institutions : IsFiniteSet(Attested(i))
BY FinitenessAssumption, FS_Subset DEF Registered, Attested

(* An element more is at most one more to count.                           *)
LEMMA OneMore ==
    ASSUME NEW S, NEW x, IsFiniteSet(S)
    PROVE  /\ Cardinality(S) \in Nat
           /\ Cardinality(S \cup {x}) \in Nat
           /\ Cardinality(S \cup {x}) <= Cardinality(S) + 1
           /\ x \notin S => Cardinality(S \cup {x}) = Cardinality(S) + 1
<1>1. /\ IsFiniteSet(S \cup {x})
      /\ Cardinality(S \cup {x}) = IF x \in S THEN Cardinality(S) ELSE Cardinality(S) + 1
  BY FS_AddElement
<1>2. Cardinality(S) \in Nat /\ Cardinality(S \cup {x}) \in Nat
  BY <1>1, FS_CardinalityType
<1> QED BY <1>1, <1>2

(* Writing an attestation adds one to the count and at most one account.   *)
LEMMA IssueCounted ==
    ASSUME TypeOK, AttestationsCounted, InstitutionsCounted, UNCHANGED registry,
           NEW i \in Institutions, NEW w \in Wallets, NEW x, institutions[i] # None,
           x # None, IssueAttestation(i, w, x)
    PROVE  AttestationsCounted' /\ InstitutionsCounted'
<1>1. institutions[i] \in Institution
  BY DEF TypeOK
<1>2. /\ institutions'[i] # None
      /\ institutions'[i].attestation_count = institutions[i].attestation_count + 1
  <2>1. [institutions[i] EXCEPT !.attestation_count = @ + 1] \in Institution
    BY <1>1, CountAttestationType DEF IssueAttestation
  <2>2. institutions'[i] = [institutions[i] EXCEPT !.attestation_count = @ + 1]
    BY DEF IssueAttestation, TypeOK
  <2> QED BY <1>1, <2>1, <2>2, NoneAssumption DEF Institution
<1>3. \A j \in Institutions \ {i} : institutions'[j] = institutions[j]
  BY DEF IssueAttestation, TypeOK
<1>4. Attested(i)' = Attested(i) \cup {w}
  BY DEF IssueAttestation, TypeOK, Attested
<1>5. \A j \in Institutions \ {i} : Attested(j)' = Attested(j)
  BY DEF IssueAttestation, TypeOK, Attested
<1>6. Registered' = Registered
  BY <1>2, <1>3 DEF Registered
<1>7. Cardinality(Attested(i)') <= institutions'[i].attestation_count
  <2>1. IsFiniteSet(Attested(i))
    BY FiniteAccounts
  <2>2. /\ Cardinality(Attested(i)) \in Nat
        /\ Cardinality(Attested(i) \cup {w}) <= Cardinality(Attested(i)) + 1
    BY <2>1, OneMore
  <2>3. Cardinality(Attested(i) \cup {w}) \in Nat
    BY <2>1, OneMore
  <2>4. Cardinality(Attested(i)) <= institutions[i].attestation_count
    BY DEF AttestationsCounted
  <2>5. institutions[i].attestation_count \in Int
    BY <1>1, BoundsAssumption DEF Institution
  <2> QED BY <1>2, <1>4, <2>2, <2>3, <2>4, <2>5
<1>8. AttestationsCounted'
  BY <1>2, <1>3, <1>5, <1>7 DEF AttestationsCounted
<1>9. InstitutionsCounted'
  BY <1>6 DEF InstitutionsCounted
<1> QED BY <1>8, <1>9

(* The other instructions create no attestation and no institution.        *)
LEMMA NothingCounted ==
    ASSUME AttestationsCounted, InstitutionsCounted, UNCHANGED <<registry, institutions>>,
           \A i \in Institutions : Attested(i)' = Attested(i)
    PROVE  AttestationsCounted' /\ InstitutionsCounted'
<1>1. Registered' = Registered
  BY DEF Registered
<1> QED BY <1>1 DEF AttestationsCounted, InstitutionsCounted

(* Every instruction keeps the counters above what they count.             *)
LEMMA CountersStep ==
    ASSUME TypeOK, TypeOK', CountersCoverAccounts, RegistryNext
    PROVE  CountersCoverAccounts'
<1>1. AttestationsCounted /\ InstitutionsCounted
  BY CountersAre
<1> SUFFICES AttestationsCounted' /\ InstitutionsCounted'
  BY CountersArePrimed
<1>2. ASSUME NEW k \in Keys, InitializeRegistry(k)
      PROVE  AttestationsCounted' /\ InstitutionsCounted'
  <2>1. Registered = {} /\ Registered' = Registered
    BY <1>1, <1>2 DEF InitializeRegistry, InstitutionsCounted, Registered
  <2>2. \A i \in Institutions : Attested(i)' = Attested(i)
    BY <1>2 DEF InitializeRegistry, Attested
  <2>3. registry' # None /\ registry'.institution_count = 0
    <3>1. registry' \in RegistryAccount
      BY <1>2, BoundsAssumption DEF InitializeRegistry, RegistryAccount
    <3> QED BY <1>2, <3>1, NoneAssumption DEF InitializeRegistry
  <2>4. InstitutionsCounted'
    BY <2>1, <2>3, FS_EmptySet DEF InstitutionsCounted
  <2>5. AttestationsCounted'
    BY <1>1, <1>2, <2>2 DEF AttestationsCounted, InitializeRegistry
  <2> QED BY <2>4, <2>5
<1>3. ASSUME NEW k \in Keys, NEW i \in Institutions, NEW a \in Keys,
             NEW c \in Jurisdictions, RegisterInstitution(k, i, a, c)
      PROVE  AttestationsCounted' /\ InstitutionsCounted'
  <2>1. registry \in RegistryAccount
    BY <1>3 DEF RegisterInstitution, NotPaused, TypeOK
  <2>2. /\ registry' # None
        /\ registry'.institution_count = registry.institution_count + 1
    <3>1. [registry EXCEPT !.institution_count = @ + 1] \in RegistryAccount
      BY <1>3, <2>1, CountInstitutionType DEF RegisterInstitution
    <3> QED BY <1>3, <2>1, <3>1, NoneAssumption DEF RegisterInstitution, RegistryAccount
  <2>3. institutions'[i] # None /\ institutions'[i].attestation_count = 0
    <3>1. institutions'[i] = [authority |-> a, jurisdiction |-> c, active |-> TRUE,
                              attestation_count |-> 0]
      BY <1>3 DEF RegisterInstitution, TypeOK
    <3>2. institutions'[i] \in Institution
      BY <3>1, BoundsAssumption DEF Institution
    <3>3. institutions'[i].attestation_count = 0
      BY <3>1
    <3> QED BY <3>2, <3>3, NoneAssumption
  <2>4. \A j \in Institutions \ {i} : institutions'[j] = institutions[j]
    BY <1>3 DEF RegisterInstitution, TypeOK
  <2>5. Registered' = Registered \cup {i} /\ i \notin Registered
    BY <1>3, <2>3, <2>4 DEF RegisterInstitution, Registered
  <2>6. InstitutionsCounted'
    <3>1. Cardinality(Registered') = Cardinality(Registered) + 1
      <4>1. IsFiniteSet(Registered)
        BY FiniteAccounts
      <4> QED BY <2>5, <4>1, OneMore
    <3>2. registry.institution_count = Cardinality(Registered)
      BY <1>1, <2>1, NoneAssumption DEF InstitutionsCounted
    <3>3. registry'.institution_count = Cardinality(Registered')
      BY <2>2, <3>1, <3>2
    <3> QED BY <2>2, <3>3 DEF InstitutionsCounted
  <2>7. \A j \in Institutions : Attested(j)' = Attested(j)
    BY <1>3 DEF RegisterInstitution, Attested
  <2>8. Attested(i) = {}
    BY <1>1, <1>3 DEF AttestationsCounted, RegisterInstitution
  <2>9. AttestationsCounted'
    BY <1>1, <2>3, <2>4, <2>7, <2>8, FS_EmptySet DEF AttestationsCounted
  <2> QED BY <2>6, <2>9
<1>4. ASSUME NEW k \in Keys, NEW i \in Institutions, NEW w \in Wallets,
             \/ \E g \in KycGrants : CreateKycAttestation(k, i, w, g)
             \/ \E e \in Institutions : AcceptExternalAttestation(k, i, e, w)
             \/ \E p \in ProofIds : VerifyZkAttestation(k, i, w, p)
      PROVE  AttestationsCounted' /\ InstitutionsCounted'
  <2>1. institutions[i] # None /\ UNCHANGED registry
    BY <1>4 DEF CreateKycAttestation, AcceptExternalAttestation, VerifyZkAttestation,
                ActiveAndAuthorized, Authorized
  <2>2. PICK x : IssueAttestation(i, w, x)
    BY <1>4 DEF CreateKycAttestation, AcceptExternalAttestation, VerifyZkAttestation
  <2>3. x # None
    <3>1. attestations'[i][w] = x
      BY <2>2 DEF IssueAttestation, TypeOK
    <3>2. attestations'[i][w] # None
      BY <1>4, IssuedExists
    <3> QED BY <3>1, <3>2
  <2> QED BY <1>1, <2>1, <2>2, <2>3, IssueCounted
<1>5. ASSUME NEW k \in Keys, NEW i \in Institutions, NEW w \in Wallets,
             \/ RevokeKycAttestation(k, i, w)
             \/ \E s \in RiskScores : UpdateRiskScore(k, i, w, s)
      PROVE  AttestationsCounted' /\ InstitutionsCounted'
  <2>1. attestations[i][w] \in KycAttestation
    BY <1>5 DEF RevokeKycAttestation, UpdateRiskScore, TypeOK
  <2>2. attestations'[i][w] # None
    <3>1. [attestations[i][w] EXCEPT !.status = KYC_STATUS_REVOKED] # None
      BY <2>1, RevokedType, NoneAssumption
    <3>2. \A s \in RiskScores : ValidRiskScore(s) =>
             [attestations[i][w] EXCEPT !.risk_score = s] # None
      BY <2>1, ScoreType, RescoredType, NoneAssumption
    <3> QED BY <1>5, <3>1, <3>2 DEF RevokeKycAttestation, UpdateRiskScore, TypeOK
  <2>3. \A j \in Institutions, v \in Wallets :
           (j # i \/ v # w) => attestations'[j][v] = attestations[j][v]
    BY <1>5 DEF RevokeKycAttestation, UpdateRiskScore, TypeOK
  <2>4. \A j \in Institutions : Attested(j)' = Attested(j)
    BY <2>1, <2>2, <2>3, NoneAssumption DEF Attested
  <2> QED BY <1>1, <1>5, <2>4, NothingCounted DEF RevokeKycAttestation, UpdateRiskScore
<1>6. ASSUME UNCHANGED <<registry, institutions, attestations>>
      PROVE  AttestationsCounted' /\ InstitutionsCounted'
  BY <1>1, <1>6, NothingCounted DEF Attested
<1>7. ASSUME NEW k \in Keys, NEW i \in Institutions
      PROVE  /\ \A t \in Institutions :
                   /\ \A terms \in TrustTerms : AddTrustedInstitution(k, i, t, terms) =>
                         UNCHANGED <<registry, institutions, attestations>>
                   /\ RemoveTrustedInstitution(k, i, t) =>
                         UNCHANGED <<registry, institutions, attestations>>
             /\ \A w \in Wallets, p \in ProofIds, g \in ZkGrants :
                   RecordZkProof(k, i, w, p, g) =>
                      UNCHANGED <<registry, institutions, attestations>>
  BY DEF AddTrustedInstitution, RemoveTrustedInstitution, RecordZkProof
<1>8. Tick => UNCHANGED <<registry, institutions, attestations>>
  BY DEF Tick
<1> QED BY <1>2, <1>3, <1>4, <1>5, <1>6, <1>7, <1>8 DEF RegistryNext

(* The counters cover the accounts that exist.                             *)
THEOREM CountersCorrect == RegistrySpec => []CountersCoverAccounts
<1>1. Init => CountersCoverAccounts
  BY DEF Init, CountersCoverAccounts
<1>2. TypeOK /\ TypeOK' /\ CountersCoverAccounts /\ [RegistryNext]_registryVars
         => CountersCoverAccounts'
  <2>1. UNCHANGED registryVars /\ CountersCoverAccounts => CountersCoverAccounts'
    BY DEF registryVars, CountersCoverAccounts
  <2> QED BY <2>1, CountersStep
<1> QED BY RegistryTypeCorrect, <1>1, <1>2, PTL DEF RegistrySpec

=============================================================================
