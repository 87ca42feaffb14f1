------------------------------- MODULE MC_Services -------------------------------
(***************************************************************************)
(* Small instances, for TLC, of what the API does with other services:     *)
(* screenings, zero-knowledge proofs, the public endpoints and webhooks.   *)
(* They share no table that one writes and another reads, so that TLC      *)
(* takes them one at a time: the one that moves first goes on alone.       *)
(***************************************************************************)
EXTENDS Screening, ReclaimProofs, ComplianceApi, WebhookDelivery

\* Scores of 0 and 12 points, and none.
SomeScores == {0, 120, NaN}

\* Screenings share nothing but the bound on failures: one is under way at
\* a time, the next only after one that no call failed.
UnderWay == {s \in Screenings : screening[s].step \notin {"idle", "done", "failed"}}

OneByOne ==
    /\ Cardinality(UnderWay) <= 1
    /\ (\A s \in Screenings : screening[s].step # "idle") =>
          UnderWay = {} \/ failures = 0

\* The levels of the accepted providers, two of them under two names each.
SomeProviders == [sumsub |-> [basic |-> 1, institutional |-> 3]]

\* A proof as it should be, and all that differ from it in one respect or two.
SomeContents ==
    LET Claims == [kycProvider : {"sumsub", "other"}, kycLevel : {"basic", "other"},
                   verificationStatus : {"approved", "other"}, verifiedAt : {0, Missing}]
    IN  [trusted : BOOLEAN, signed : BOOLEAN, timestampS : {-2, -1, 0, 2}, claim : {
            [kycProvider |-> "sumsub", kycLevel |-> "basic",
             verificationStatus |-> "approved", verifiedAt |-> 0]}]
        \cup
        [trusted : {TRUE}, signed : {TRUE}, timestampS : {0}, claim : Claims \cup {Missing}]

\* The server stops once, or one of its calls fails once.
OneFault == crashes + throws <= 1

FewPoints == [w \in KytWallets |-> 5]

EveryWebhook == [e \in Events |-> Webhooks]

ReclaimStill == ReclaimInit /\ content = [p \in Proofs |-> CHOOSE c \in Contents : TRUE]

ComplianceStill == ComplianceInit /\ onChain = {} /\ deployment.sumsub /\ deployment.publicRow

ServicesInit ==
    /\ ScreeningInit /\ DeliveryInit
    /\ \/ ReclaimStill /\ ComplianceInit
       \/ ReclaimInit /\ ComplianceStill

ServicesNext ==
    \/ /\ ReclaimStill /\ ComplianceStill /\ DeliveryInit
       /\ ScreeningNext /\ OneByOne'
       /\ UNCHANGED <<reclaimVars, complianceVars, deliveryVars>>
    \/ /\ ScreeningInit /\ ComplianceStill /\ DeliveryInit
       /\ ReclaimNext
       /\ UNCHANGED <<screeningVars, complianceVars, deliveryVars>>
    \/ /\ ScreeningInit /\ ReclaimStill /\ DeliveryInit
       /\ ComplianceNext
       /\ UNCHANGED <<screeningVars, reclaimVars, deliveryVars>>
    \/ /\ ScreeningInit /\ ReclaimStill /\ ComplianceStill
       /\ DeliveryNext /\ OneFault'
       /\ UNCHANGED <<screeningVars, reclaimVars, complianceVars>>

ServicesSpec ==
    /\ ServicesInit
    /\ [][ServicesNext]_<<screeningVars, reclaimVars, complianceVars, deliveryVars>>
    /\ ScreeningFairness /\ DeliveryFairness
-----------------------------------------------------------------------------
(* Every state keeps to its type: tries, polls and attempts to their       *)
(* bounds, and what was stored of an answer to what the columns hold.      *)
ServicesTypeOK == ScreeningTypeOK /\ ReclaimTypeOK /\ DeliveryTypeOK
=============================================================================
