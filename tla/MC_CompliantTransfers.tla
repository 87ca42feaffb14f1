----------------------- MODULE MC_CompliantTransfers -----------------------
(***************************************************************************)
(* Small instances of CompliantTransfers for TLC.                          *)
(***************************************************************************)
EXTENDS CompliantTransfers, TLC

\* A grant that expires at time 1.
Expiring == {[kyc_level |-> 1, risk_score |-> 20, expires_at |-> 1]}

Lasting == {[kyc_level |-> 1, risk_score |-> 20, expires_at |-> 0]}

Policy(level, threshold, max, daily) ==
    [min_kyc_level |-> level, max_risk_score |-> 50,
     travel_rule_threshold |-> threshold, max_transfer_amount |-> max,
     daily_limit |-> daily, require_both_attested |-> TRUE]

\* The travel rule applies from 2 on, or never and only 1 may be moved.
Thresholds == {Policy(1, 2, 0, 0), Policy(0, 0, 1, 0)}

TravelRulePolicy == {Policy(1, 2, 0, 0)}

InstitutionAndWalletSymmetry == Permutations(Institutions) \cup Permutations(Wallets)

WalletAndNonceSymmetry == Permutations(Wallets) \cup Permutations(Nonces)
=============================================================================
