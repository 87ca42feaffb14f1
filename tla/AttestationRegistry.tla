------------------------- MODULE AttestationRegistry -------------------------
(***************************************************************************)
(* The identity half of the PayClear on-chain program: the registry, the   *)
(* institutions (VASPs), their KYC attestations of wallets, the trust      *)
(* networks under which one institution accepts another's attestation, and *)
(* the ZK proof records that can be turned into attestations.              *)
(*                                                                         *)
(* An account is a PDA: its seeds are the arguments of the functions below *)
(* and None says that no account exists there yet.  No instruction closes  *)
(* an account.  An instruction is one action: the runtime locks the        *)
(* accounts it writes and rolls everything back when it fails, so it takes *)
(* effect whole or not at all.  Transfers are in CompliantTransfers.       *)
(***************************************************************************)
EXTENDS Integers, Sequences, FiniteSets

CONSTANTS
    Institutions,   \* institution PDAs, one for each institution_id
    Wallets,        \* the wallets that can be attested
    Keys,           \* the keypairs that can be an authority
    Jurisdictions,  \* ISO country codes
    ProofIds,       \* ZK proof identifiers
    KycGrants,      \* the (kyc_level, risk_score, expires_at) an authority asks for
    ZkGrants,       \* the (kyc_level, expires_at) of a recorded proof
    RiskScores,     \* the risk scores update_risk_score is called with
    TrustTerms,     \* the terms add_trusted_institution is called with
    MAX_TRUSTED_INSTITUTIONS,  \* 32 in the program
    U64Max,         \* where checked_add fails; 2^64 - 1 in the program
    MaxTime,        \* bound: the clock stops here
    None            \* no account at this address, and Pubkey::default()

U8 == 0..255

MAX_RISK_SCORE == 100

KYC_STATUS_PENDING == 0
KYC_STATUS_ACTIVE == 1
KYC_STATUS_SUSPENDED == 2
KYC_STATUS_REVOKED == 3

KYC_LEVEL_INSTITUTIONAL == 3

ZK_PROOF_STATUS_VERIFIED == 1

(* What the accounts hold.  Timestamps other than expiries are left out:   *)
(* no instruction reads them.  kyc_hash is abstracted to the institution   *)
(* whose KYC data, or whose recorded proof, it is the hash of.             *)
RegistryAccount ==
    [authority : Keys, institution_count : 0..U64Max,
     attestation_count : 0..U64Max, transfer_count : 0..U64Max,
     paused : BOOLEAN]

Institution ==
    [authority : Keys, jurisdiction : Jurisdictions, active : BOOLEAN,
     attestation_count : 0..U64Max]

KycAttestation ==
    [kyc_hash : Institutions, kyc_level : U8, risk_score : 0..MAX_RISK_SCORE,
     status : {KYC_STATUS_PENDING, KYC_STATUS_ACTIVE,
               KYC_STATUS_SUSPENDED, KYC_STATUS_REVOKED},
     expires_at : Int, original_institution : Institutions \cup {None}]

TrustNetwork ==
    [trusted_institutions : Seq(Institutions), min_accepted_kyc_level : U8,
     require_same_jurisdiction : BOOLEAN]

ZkProofRecord ==
    [kyc_level : 0..KYC_LEVEL_INSTITUTIONAL, expires_at : Int,
     status : {ZK_PROOF_STATUS_VERIFIED}]

ASSUME InputsAssumption ==
    /\ KycGrants \subseteq [kyc_level : U8, risk_score : U8, expires_at : Int]
    /\ ZkGrants \subseteq [kyc_level : U8, expires_at : Int]
    /\ RiskScores \subseteq U8
    /\ TrustTerms \subseteq [min_accepted_kyc_level : U8,
                             require_same_jurisdiction : BOOLEAN]

ASSUME BoundsAssumption ==
    /\ MAX_TRUSTED_INSTITUTIONS \in Nat
    /\ U64Max \in Nat
    /\ MaxTime \in Nat

ASSUME FinitenessAssumption == IsFiniteSet(Institutions) /\ IsFiniteSet(Wallets)

ASSUME NoneAssumption ==
    /\ None \notin Institutions
    /\ None \notin RegistryAccount
    /\ None \notin Institution
    /\ None \notin KycAttestation
    /\ None \notin TrustNetwork
    /\ None \notin ZkProofRecord

VARIABLES
    registry,       \* the singleton registry account
    institutions,   \* institution accounts
    attestations,   \* attestations[i][w]: institution i's attestation of w
    trustNetworks,  \* trust network accounts, one for each institution
    zkProofs,       \* zkProofs[i][w][p]: proof p of w's KYC recorded by i
    clock           \* Clock::get()?.unix_timestamp

registryVars == <<registry, institutions, attestations, trustNetworks,
                  zkProofs, clock>>

-----------------------------------------------------------------------------

Init ==
    /\ registry = None
    /\ institutions = [i \in Institutions |-> None]
    /\ attestations = [i \in Institutions |-> [w \in Wallets |-> None]]
    /\ trustNetworks = [i \in Institutions |-> None]
    /\ zkProofs = [i \in Institutions |->
                     [w \in Wallets |-> [p \in ProofIds |-> None]]]
    /\ clock = 1

(* Account constraints shared by the instructions.                         *)
NotPaused == registry # None /\ ~registry.paused

Authorized(i, signer) ==
    institutions[i] # None /\ institutions[i].authority = signer

ActiveAndAuthorized(i, signer) ==
    Authorized(i, signer) /\ institutions[i].active

CheckedAdd(n) == n < U64Max

(* Mutant of ValidRiskScore: the bound is that of the u8 argument.         *)
AnyU8RiskScore(score) == score <= 255

ValidRiskScore(score) == score <= MAX_RISK_SCORE

(* Mutant of Vacant: a revoked attestation may be replaced, as             *)
(* init_if_needed with a status check would allow.                         *)
VacantOrRevoked(i, w) ==
    attestations[i][w] # None => attestations[i][w].status = KYC_STATUS_REVOKED

(* The init constraint on the attestation PDA of (i, w).                   *)
Vacant(i, w) == attestations[i][w] = None

IsActive(attestation) == attestation.status = KYC_STATUS_ACTIVE

IsExpired(account, now) == account.expires_at > 0 /\ now > account.expires_at

IsValid(attestation, now) == IsActive(attestation) /\ ~IsExpired(attestation, now)

(* Mutant of IssueAttestation: only the first attestation is counted.      *)
IssueUncounted(i, w, attestation) ==
    /\ attestations' = [attestations EXCEPT ![i][w] = attestation]
    /\ institutions' = [institutions EXCEPT ![i].attestation_count = 1]

(* Writing an attestation PDA of institution i counts it on the            *)
(* institution; the registry's own attestation_count is left alone.        *)
IssueAttestation(i, w, attestation) ==
    /\ CheckedAdd(institutions[i].attestation_count)
    /\ attestations' = [attestations EXCEPT ![i][w] = attestation]
    /\ institutions' = [institutions EXCEPT ![i].attestation_count = @ + 1]

-----------------------------------------------------------------------------
(* The instructions.                                                       *)

InitializeRegistry(signer) ==
    /\ registry = None
    /\ registry' = [authority |-> signer, institution_count |-> 0,
                    attestation_count |-> 0, transfer_count |-> 0,
                    paused |-> FALSE]
    /\ UNCHANGED <<institutions, attestations, trustNetworks, zkProofs, clock>>

RegisterInstitution(signer, i, authority, jurisdiction) ==
    /\ NotPaused
    /\ signer = registry.authority
    /\ institutions[i] = None
    /\ institutions' = [institutions EXCEPT ![i] =
                          [authority |-> authority, jurisdiction |-> jurisdiction,
                           active |-> TRUE, attestation_count |-> 0]]
    /\ CheckedAdd(registry.institution_count)
    /\ registry' = [registry EXCEPT !.institution_count = @ + 1]
    /\ UNCHANGED <<attestations, trustNetworks, zkProofs, clock>>

CreateKycAttestation(signer, i, w, grant) ==
    /\ NotPaused
    /\ ActiveAndAuthorized(i, signer)
    /\ Vacant(i, w)
    /\ ValidRiskScore(grant.risk_score)
    /\ IssueAttestation(i, w, [kyc_hash |-> i,
                               kyc_level |-> grant.kyc_level,
                               risk_score |-> grant.risk_score,
                               status |-> KYC_STATUS_ACTIVE,
                               expires_at |-> grant.expires_at,
                               original_institution |-> None])
    /\ UNCHANGED <<registry, trustNetworks, zkProofs, clock>>

(* Neither the pause flag, nor the institution's active flag, nor the      *)
(* attestation's present status is looked at.                              *)
RevokeKycAttestation(signer, i, w) ==
    /\ Authorized(i, signer)
    /\ attestations[i][w] # None
    /\ attestations' = [attestations EXCEPT ![i][w].status = KYC_STATUS_REVOKED]
    /\ UNCHANGED <<registry, institutions, trustNetworks, zkProofs, clock>>

UpdateRiskScore(signer, i, w, score) ==
    /\ Authorized(i, signer)
    /\ attestations[i][w] # None
    /\ ValidRiskScore(score)
    /\ attestations' = [attestations EXCEPT ![i][w].risk_score = score]
    /\ UNCHANGED <<registry, institutions, trustNetworks, zkProofs, clock>>

Contains(list, x) == \E k \in 1..Len(list) : list[k] = x

(* init_if_needed: the list a new trust network account starts from.       *)
TrustedBy(i) ==
    IF trustNetworks[i] = None THEN <<>>
                               ELSE trustNetworks[i].trusted_institutions

(* The terms are those of the whole network: each call overwrites them.    *)
AddTrustedInstitution(signer, i, trusted, terms) ==
    /\ ActiveAndAuthorized(i, signer)
    /\ institutions[trusted] # None
    /\ institutions[trusted].active
    /\ i # trusted
    /\ ~Contains(TrustedBy(i), trusted)
    /\ Len(TrustedBy(i)) < MAX_TRUSTED_INSTITUTIONS
    /\ trustNetworks' = [trustNetworks EXCEPT ![i] =
           [trusted_institutions |-> Append(TrustedBy(i), trusted),
            min_accepted_kyc_level |-> terms.min_accepted_kyc_level,
            require_same_jurisdiction |-> terms.require_same_jurisdiction]]
    /\ UNCHANGED <<registry, institutions, attestations, zkProofs, clock>>

(* Mutant of SwapRemove: the last element is copied but not dropped.       *)
SwapWithoutShrink(list, pos) ==
    [k \in 1..Len(list) |-> IF k = pos THEN list[Len(list)] ELSE list[k]]

(* Vec::swap_remove: the last element takes the place of the removed one.  *)
SwapRemove(list, pos) ==
    [k \in 1..(Len(list) - 1) |-> IF k = pos THEN list[Len(list)] ELSE list[k]]

(* Iterator::position: the first place that holds x.                       *)
IsPosition(list, x, pos) ==
    list[pos] = x /\ \A k \in 1..(pos - 1) : list[k] # x

RemoveTrustedInstitution(signer, i, trusted) ==
    /\ Authorized(i, signer)
    /\ trustNetworks[i] # None
    /\ \E pos \in 1..Len(trustNetworks[i].trusted_institutions) :
          /\ IsPosition(trustNetworks[i].trusted_institutions, trusted, pos)
          /\ trustNetworks' = [trustNetworks EXCEPT ![i].trusted_institutions =
                                 SwapRemove(@, pos)]
    /\ UNCHANGED <<registry, institutions, attestations, zkProofs, clock>>

(* What the trust network of i asks of e's attestation.  The external      *)
(* institution need not be active.                                         *)
Acceptable(i, e, external) ==
    /\ Contains(TrustedBy(i), e)
    /\ IsActive(external)
    /\ ~IsExpired(external, clock)
    /\ external.kyc_level >= trustNetworks[i].min_accepted_kyc_level
    /\ trustNetworks[i].require_same_jurisdiction =>
          institutions[i].jurisdiction = institutions[e].jurisdiction

(* Mutant of Accepted: the expiry is not inherited.                        *)
AcceptedForever(e, external) ==
    [external EXCEPT !.status = KYC_STATUS_ACTIVE, !.original_institution = e,
                     !.expires_at = 0]

(* The attestation created under the accepting institution: a copy of the  *)
(* external one, with the external institution as its provenance.          *)
Accepted(e, external) ==
    [external EXCEPT !.status = KYC_STATUS_ACTIVE, !.original_institution = e]

AcceptExternalAttestation(signer, i, e, w) ==
    /\ NotPaused
    /\ ActiveAndAuthorized(i, signer)
    /\ institutions[e] # None
    /\ trustNetworks[i] # None
    /\ attestations[e][w] # None
    /\ Vacant(i, w)
    /\ Acceptable(i, e, attestations[e][w])
    /\ IssueAttestation(i, w, Accepted(e, attestations[e][w]))
    /\ UNCHANGED <<registry, trustNetworks, zkProofs, clock>>

RecordZkProof(signer, i, w, p, grant) ==
    /\ ActiveAndAuthorized(i, signer)
    /\ zkProofs[i][w][p] = None
    /\ grant.kyc_level <= KYC_LEVEL_INSTITUTIONAL
    /\ grant.expires_at > 0 => grant.expires_at > clock
    /\ zkProofs' = [zkProofs EXCEPT ![i][w][p] =
                      [kyc_level |-> grant.kyc_level,
                       expires_at |-> grant.expires_at,
                       status |-> ZK_PROOF_STATUS_VERIFIED]]
    /\ UNCHANGED <<registry, institutions, attestations, trustNetworks, clock>>

(* init_if_needed: an attestation that is already there, whatever its      *)
(* status and provenance, is overwritten and counted again.                *)
VerifyZkAttestation(signer, i, w, p) ==
    LET proof == zkProofs[i][w][p] IN
    /\ NotPaused
    /\ ActiveAndAuthorized(i, signer)
    /\ proof # None
    /\ proof.status = ZK_PROOF_STATUS_VERIFIED
    /\ ~IsExpired(proof, clock)
    /\ IssueAttestation(i, w, [kyc_hash |-> i,
                               kyc_level |-> proof.kyc_level,
                               risk_score |-> 0,
                               status |-> KYC_STATUS_ACTIVE,
                               expires_at |-> proof.expires_at,
                               original_institution |-> None])
    /\ UNCHANGED <<registry, trustNetworks, zkProofs, clock>>

(* The cluster's clock; MaxTime bounds it.                                 *)
Tick ==
    /\ clock < MaxTime
    /\ clock' = clock + 1
    /\ UNCHANGED <<registry, institutions, attestations, trustNetworks, zkProofs>>

RegistryNext ==
    \/ \E signer \in Keys :
          \/ InitializeRegistry(signer)
          \/ \E i \in Institutions :
                \/ \E authority \in Keys, jurisdiction \in Jurisdictions :
                      RegisterInstitution(signer, i, authority, jurisdiction)
                \/ \E trusted \in Institutions :
                      \/ \E terms \in TrustTerms :
                            AddTrustedInstitution(signer, i, trusted, terms)
                      \/ RemoveTrustedInstitution(signer, i, trusted)
                \/ \E w \in Wallets :
                      \/ \E grant \in KycGrants : CreateKycAttestation(signer, i, w, grant)
                      \/ RevokeKycAttestation(signer, i, w)
                      \/ \E score \in RiskScores : UpdateRiskScore(signer, i, w, score)
                      \/ \E e \in Institutions : AcceptExternalAttestation(signer, i, e, w)
                      \/ \E p \in ProofIds :
                            \/ \E grant \in ZkGrants : RecordZkProof(signer, i, w, p, grant)
                            \/ VerifyZkAttestation(signer, i, w, p)
    \/ Tick

RegistrySpec == Init /\ [][RegistryNext]_registryVars

-----------------------------------------------------------------------------
(* Properties.                                                             *)

(* Every account holds what its struct declares; in particular no path     *)
(* writes a risk score above MAX_RISK_SCORE.                               *)
TypeOK ==
    /\ registry \in RegistryAccount \cup {None}
    /\ institutions \in [Institutions -> Institution \cup {None}]
    /\ attestations \in [Institutions -> [Wallets -> KycAttestation \cup {None}]]
    /\ trustNetworks \in [Institutions -> TrustNetwork \cup {None}]
    /\ zkProofs \in [Institutions -> [Wallets -> [ProofIds -> ZkProofRecord \cup {None}]]]
    /\ clock \in Nat

IsAccepted(attestation) ==
    attestation # None /\ attestation.original_institution # None

(* Institutions may trust each other mutually and accept attestations that *)
(* were themselves accepted, yet no group of them can attest a wallet only *)
(* on each other's word: in every group holding accepted attestations of   *)
(* w, one was accepted from outside the group, from an attestation that    *)
(* exists.  accept_external_attestation's init is what this rests on.      *)
ProvenanceWellFounded ==
    \A w \in Wallets :
        /\ \A i \in Institutions : IsAccepted(attestations[i][w]) =>
              attestations[attestations[i][w].original_institution][w] # None
        /\ \A group \in SUBSET {i \in Institutions : IsAccepted(attestations[i][w])} :
              group # {} =>
                \E i \in group : attestations[i][w].original_institution \notin group

(* However long the chain of acceptances and whatever is revoked, rescored *)
(* or untrusted along it, an accepted attestation never carries a level,   *)
(* an expiry or a hash other than those of the attestation it came from,   *)
(* as long as no ZK proof of the wallet's KYC has rewritten either.        *)
AcceptanceAddsNothing ==
    \A w \in Wallets :
        (\A i \in Institutions, p \in ProofIds : zkProofs[i][w][p] = None) =>
        \A i \in Institutions : IsAccepted(attestations[i][w]) =>
            LET a == attestations[i][w]
                source == attestations[a.original_institution][w]
            IN  /\ source # None
                /\ a.kyc_level = source.kyc_level
                /\ a.expires_at = source.expires_at
                /\ a.kyc_hash = source.kyc_hash

(* No institution has more attestations than it has been counted for, and  *)
(* the registry's count of institutions is exact.                          *)
CountersCoverAccounts ==
    /\ \A i \in Institutions :
          LET attested == {w \in Wallets : attestations[i][w] # None} IN
          IF institutions[i] = None
          THEN attested = {}
          ELSE Cardinality(attested) <= institutions[i].attestation_count
    /\ LET registered == {i \in Institutions : institutions[i] # None} IN
       IF registry = None
       THEN registered = {}
       ELSE registry.institution_count = Cardinality(registered)

(* Through any sequence of additions and swap-removals a trust network     *)
(* holds distinct, registered institutions other than its owner, and no    *)
(* more than MAX_TRUSTED_INSTITUTIONS of them.                             *)
TrustNetworkSound ==
    \A i \in Institutions : trustNetworks[i] # None =>
        LET trusted == trustNetworks[i].trusted_institutions IN
        /\ institutions[i] # None
        /\ Len(trusted) <= MAX_TRUSTED_INSTITUTIONS
        /\ \A k \in 1..Len(trusted) :
              /\ trusted[k] # i
              /\ institutions[trusted[k]] # None
        /\ \A j, k \in 1..Len(trusted) : trusted[j] = trusted[k] => j = k

RegainsValidity(i, w) ==
    /\ attestations[i][w] # None
    /\ ~IsValid(attestations[i][w], clock)
    /\ IsValid(attestations'[i][w], clock')

ProofBacks(i, w, attestation, now) ==
    \E p \in ProofIds :
        /\ zkProofs[i][w][p] # None
        /\ ~IsExpired(zkProofs[i][w][p], now)
        /\ attestation.kyc_level = zkProofs[i][w][p].kyc_level
        /\ attestation.expires_at = zkProofs[i][w][p].expires_at

(* Once an attestation has been revoked or has expired it can be valid     *)
(* again only by a proof the institution has on record for that wallet,    *)
(* itself unexpired, whose level and expiry it then carries: neither a     *)
(* rescoring, nor a new grant, nor another institution's attestation       *)
(* brings it back.                                                         *)
ValidityRegainedOnlyByProof ==
    [][\A i \in Institutions, w \in Wallets :
          RegainsValidity(i, w) => ProofBacks(i, w, attestations'[i][w], clock')]_registryVars
=============================================================================
