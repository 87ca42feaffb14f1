--------------------------- MODULE MC_EntityLifecycle ---------------------------
(***************************************************************************)
(* Small instances of EntityLifecycle for TLC.                             *)
(***************************************************************************)
EXTENDS EntityLifecycle

OneJurisdiction == [i \in Institutions |-> "US"]

LaxTerms == {[minKycLevel |-> 1, requireSameJurisdiction |-> TRUE]}

OneGrant == {[kycLevel |-> 1, riskScore |-> 20]}

StatusPatches == {<<"status", ACTIVE>>}

\* Copies and deliveries meet, changes of trust and deliveries do not; a
\* request in progress meets a review or an alert, which meet on one row.
\* Wallets but one have rows only where an alert meets one institution's
\* own calls.
Main == CHOOSE w \in Wallets : TRUE

Reviewed == \E r \in Reviews : review[r].step # "none"

Alerted == \E a \in Alerts : alert[a].step # "none"

Idle == \A q \in Requests : request[q].step = "idle"

NoTrust == \A p \in Institutions \X Institutions : trustNetwork[p] = None

OneWallet == \A e \in Keys : entities[e] # None => e[2] = Main

OneOwner == \E i \in Institutions : \A e \in Keys : entities[e] # None => e[1] = i

Focused ==
    /\ Reviewed \/ Alerted => NoTrust
    /\ (\A i \in Institutions : active[i]) \/ (Idle /\ applicants = {} /\ ~Reviewed /\ ~Alerted)
    /\ Reviewed /\ Alerted => Idle /\ Cardinality({e \in Keys : entities[e] # None}) = 1
    /\ \A a \in applicants : a[2] = Main
    /\ \A q \in Requests : request[q].key # None => request[q].key[2] = Main
    /\ OneWallet \/ (OneOwner /\ Idle /\ NoTrust /\ ~Reviewed /\ applicants = {}
                     /\ \A i \in Institutions : active[i])

FocusedSpec == EntityInit /\ [][EntityNext /\ Focused']_entityVars /\ EntityFairness
=============================================================================
