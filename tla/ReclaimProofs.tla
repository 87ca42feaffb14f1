------------------------------ MODULE ReclaimProofs ------------------------------
(***************************************************************************)
(* Zero-knowledge proofs of KYC by the Reclaim protocol, off-chain: a      *)
(* proof is looked up, verified, stored once under its identifier, and     *)
(* logged.  The same proof may be sent by several requests at a time.      *)
(*                                                                         *)
(* Of a proof's signatures the code asks only that there are some.         *)
(***************************************************************************)
EXTENDS Integers, FiniteSets

CONSTANTS
    Proofs,         \* proofs, by their identifiers
    Submissions,    \* calls of POST /v1/proofs/verify
    ProviderLevels, \* ProviderLevels[p]: KYC level by name, for accepted providers
    Contents,       \* what a proof may say, see Content
    ProofTtl,       \* config.reclaim.proofTtlSeconds
    RowLifetime,    \* 24 hours after the verification
    Skew,           \* tolerated clock skew, 300 s
    MaxTime,        \* the last moment of a behaviour
    MaxErrors,      \* database calls that fail, in one behaviour
    Missing

ASSUME ReclaimBounds ==
    /\ ProofTtl \in Nat /\ RowLifetime \in Nat /\ Skew \in Nat
    /\ MaxTime \in Nat /\ MaxErrors \in Nat

\* trusted: a witness is a trusted attestor; claim: the parameters needed.
Content ==
    [trusted : BOOLEAN, signed : BOOLEAN, timestampS : Int,
     claim : {Missing} \cup [kycProvider : STRING, kycLevel : STRING,
                          verificationStatus : STRING, verifiedAt : Int \cup {Missing}]]

ASSUME ContentsAreProofs == Contents \subseteq Content

ASSUME LevelsAreKycLevels ==
    \A p \in DOMAIN ProviderLevels :
        \A level \in DOMAIN ProviderLevels[p] : ProviderLevels[p][level] \in 0..3

ZkProofRow ==
    [proofIdentifier : Proofs, storedBy : Submissions, kycLevel : 0..3,
     verifiedAt : Int \cup {Missing}, expiresAt : Int \cup {Missing}]

VerifySteps == {"idle", "looking-up", "storing", "logging",
                "recorded", "duplicate", "refused", "error"}

VARIABLES
    now,            \* the server's clock
    content,        \* content[p]: what proof p says
    zkProofs,       \* the rows of zk_proofs, each with the call that stored it
    submission,     \* submission[c]: the step, the proof, and the row to store
    proofEvents,    \* proofs with a zk_proof.verified event in the audit log
    dbErrors

reclaimVars == <<now, content, zkProofs, submission, proofEvents, dbErrors>>

ReclaimInit ==
    /\ now = 0
    /\ content \in [Proofs -> Contents]
    /\ zkProofs = {}
    /\ submission = [c \in Submissions |-> [step |-> "idle", proof |-> Missing, row |-> Missing]]
    /\ proofEvents = {}
    /\ dbErrors = 0

PassTime ==
    /\ now < MaxTime
    /\ now' = now + 1
    /\ UNCHANGED <<content, zkProofs, submission, proofEvents, dbErrors>>
-----------------------------------------------------------------------------
(* ReclaimVerificationService.verifyProof.                                 *)

NotExpired(c) == now - c.timestampS <= ProofTtl

NotInFuture(c) == c.timestampS <= now + Skew

\* A mutant of AcceptedClaim: the status is not looked at.
AcceptedUnapproved(claim) ==
    claim # Missing /\ claim.kycProvider \in DOMAIN ProviderLevels

AcceptedClaim(claim) ==
    /\ claim # Missing
    /\ claim.kycProvider \in DOMAIN ProviderLevels
    /\ claim.verificationStatus = "approved"

ValidProof(c) ==
    c.trusted /\ c.signed /\ NotExpired(c) /\ NotInFuture(c) /\ AcceptedClaim(c.claim)

\* A level the provider does not have counts as level 0.
MapReclaimKycLevel(provider, level) ==
    LET levels == ProviderLevels[provider]
    IN  IF level \in DOMAIN levels THEN levels[level] ELSE 0

\* The row's times come from the claim, not from the proof's time stamp.
RowOf(c) ==
    LET claim == content[submission[c].proof].claim
    IN  [proofIdentifier |-> submission[c].proof, storedBy |-> c,
         kycLevel |-> MapReclaimKycLevel(claim.kycProvider, claim.kycLevel),
         verifiedAt |-> claim.verifiedAt,
         expiresAt |-> IF claim.verifiedAt = Missing THEN Missing
                       ELSE claim.verifiedAt + RowLifetime]
-----------------------------------------------------------------------------
(* POST /v1/proofs/verify.                                                 *)

Ends(c, step) == submission' = [submission EXCEPT ![c].step = step, ![c].row = Missing]

DbThrows == dbErrors < MaxErrors /\ dbErrors' = dbErrors + 1

SubmitProof(c, p) ==
    /\ submission[c].step = "idle"
    /\ submission' = [submission EXCEPT ![c].step = "looking-up", ![c].proof = p]
    /\ UNCHANGED <<now, content, zkProofs, proofEvents, dbErrors>>

\* Verified in the same turn; a stored proof is refused whoever sends it.
LookUpAndVerify(c) ==
    LET p == submission[c].proof
        stored == \E row \in zkProofs : row.proofIdentifier = p
    IN  /\ submission[c].step = "looking-up"
        /\ \/ stored /\ Ends(c, "duplicate") /\ UNCHANGED dbErrors
           \/ ~stored /\ ~ValidProof(content[p]) /\ Ends(c, "refused") /\ UNCHANGED dbErrors
           \/ /\ ~stored /\ ValidProof(content[p])
              /\ submission' = [submission EXCEPT ![c].step = "storing", ![c].row = RowOf(c)]
              /\ UNCHANGED dbErrors
           \/ DbThrows /\ Ends(c, "error")
        /\ UNCHANGED <<now, content, zkProofs, proofEvents>>

\* A mutant of Storable: the identifier's column is not unique.
StorableTwice(row) == row.verifiedAt # Missing

\* The identifier is unique, and an invalid date is refused.
Storable(row) ==
    /\ row.verifiedAt # Missing
    /\ \A other \in zkProofs : other.proofIdentifier # row.proofIdentifier

StoreProof(c) ==
    LET row == submission[c].row
    IN  /\ submission[c].step = "storing"
        /\ \/ /\ Storable(row)
              /\ zkProofs' = zkProofs \cup {row}
              /\ submission' = [submission EXCEPT ![c].step = "logging", ![c].row = Missing]
              /\ UNCHANGED dbErrors
           \/ ~Storable(row) /\ Ends(c, "error") /\ UNCHANGED <<zkProofs, dbErrors>>
           \/ DbThrows /\ Ends(c, "error") /\ UNCHANGED zkProofs
        /\ UNCHANGED <<now, content, proofEvents>>

\* When this fails the proof stays stored, and every retry is a duplicate.
LogVerified(c) ==
    /\ submission[c].step = "logging"
    /\ \/ /\ proofEvents' = proofEvents \cup {submission[c].proof}
          /\ Ends(c, "recorded") /\ UNCHANGED dbErrors
       \/ DbThrows /\ Ends(c, "error") /\ UNCHANGED proofEvents
    /\ UNCHANGED <<now, content, zkProofs>>
-----------------------------------------------------------------------------
HandleSubmission(c) == LookUpAndVerify(c) \/ StoreProof(c) \/ LogVerified(c)

ReclaimNext ==
    \/ PassTime
    \/ \E c \in Submissions : HandleSubmission(c) \/ \E p \in Proofs : SubmitProof(c, p)

ReclaimSpec == ReclaimInit /\ [][ReclaimNext]_reclaimVars
-----------------------------------------------------------------------------
(* The clock, proofs, rows and submissions keep to their types.            *)
ReclaimTypeOK ==
    /\ now \in 0..MaxTime
    /\ content \in [Proofs -> Contents]
    /\ zkProofs \subseteq ZkProofRow
    /\ submission \in [Submissions ->
          [step : VerifySteps, proof : Proofs \cup {Missing}, row : ZkProofRow \cup {Missing}]]
    /\ proofEvents \subseteq Proofs
    /\ dbErrors \in 0..MaxErrors

(* A proof is recorded once, however many requests look it up before any   *)
(* of them stores it; whoever is told that it was recorded, the row is     *)
(* that call's own and the event is in the audit log.                      *)
RecordedOnce ==
    /\ \A r1, r2 \in zkProofs : r1.proofIdentifier = r2.proofIdentifier => r1 = r2
    /\ \A c \in Submissions : submission[c].step = "recorded" =>
          /\ \E row \in zkProofs : row.storedBy = c /\ row.proofIdentifier = submission[c].proof
          /\ submission[c].proof \in proofEvents

(* A row is of an approved claim with a trusted witness and a time stamp   *)
(* not in the future; a proof that had outlived its time to live before    *)
(* the first moment is never stored, by whichever call at whatever moment. *)
StoredProofsWereValid ==
    \A row \in zkProofs :
        LET c == content[row.proofIdentifier]
        IN  /\ c.trusted /\ c.signed /\ c.claim.verificationStatus = "approved"
            /\ -ProofTtl <= c.timestampS /\ c.timestampS <= now + Skew
=============================================================================
