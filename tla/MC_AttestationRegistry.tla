----------------------- MODULE MC_AttestationRegistry -----------------------
(***************************************************************************)
(* Small instances of AttestationRegistry for TLC.                         *)
(***************************************************************************)
EXTENDS AttestationRegistry, TLC

Grants == {[kyc_level |-> 1, risk_score |-> 20, expires_at |-> 1],
           [kyc_level |-> 2, risk_score |-> 20, expires_at |-> 0]}

\* One grant above the documented range of levels, one with a score above 100.
WideGrants == {[kyc_level |-> 2, risk_score |-> 20, expires_at |-> 0],
               [kyc_level |-> 7, risk_score |-> 20, expires_at |-> 1],
               [kyc_level |-> 2, risk_score |-> 130, expires_at |-> 0]}

ZkGrantChoices == {[kyc_level |-> 3, expires_at |-> 0],
                   [kyc_level |-> 2, expires_at |-> 2],
                   [kyc_level |-> 2, expires_at |-> 1]}

OneTerm == {[min_accepted_kyc_level |-> 1, require_same_jurisdiction |-> FALSE]}

TwoTerms == {[min_accepted_kyc_level |-> 1, require_same_jurisdiction |-> TRUE],
             [min_accepted_kyc_level |-> 2, require_same_jurisdiction |-> FALSE]}

InstitutionSymmetry == Permutations(Institutions)

\* Networks are edited at full length before the first attestation, and hold
\* one institution each once there is one.
LongNetworksFirst ==
    \/ \A i \in Institutions, w \in Wallets : attestations[i][w] = None
    \/ \A i \in Institutions : Len(TrustedBy(i)) <= 1
=============================================================================
