-------------------------- MODULE TransferSettlement --------------------------
(***************************************************************************)
(* What the on-chain program promises about a transfer, without accounts,  *)
(* attestations or policies: terms are offered for a nonce once and never  *)
(* amended, the beneficiary agrees to the offer at most once, and a nonce  *)
(* settles at most once; a settlement the travel rule applies to settles   *)
(* exactly the terms that were agreed.                                     *)
(***************************************************************************)
CONSTANTS
    Nonces,     \* identifiers of transfers
    Terms,      \* what a transfer moves
    None        \* no offer

VARIABLES
    offer,      \* offer[n]: the terms offered for n, or None
    agreed,     \* the nonces whose offer was agreed to
    settled     \* the settlements so far

settlementVars == <<offer, agreed, settled>>

Settlement == [nonce : Nonces, terms : Terms, required : BOOLEAN]

SettlementInit ==
    /\ offer = [n \in Nonces |-> None]
    /\ agreed = {}
    /\ settled = {}

Offer(n, terms) ==
    /\ offer[n] = None
    /\ offer' = [offer EXCEPT ![n] = terms]
    /\ UNCHANGED <<agreed, settled>>

Agree(n) ==
    /\ offer[n] # None
    /\ n \notin agreed
    /\ agreed' = agreed \cup {n}
    /\ UNCHANGED <<offer, settled>>

Settle(n, terms, required) ==
    /\ \A s \in settled : s.nonce # n
    /\ required => n \in agreed /\ offer[n] = terms
    /\ settled' = settled \cup {[nonce |-> n, terms |-> terms, required |-> required]}
    /\ UNCHANGED <<offer, agreed>>

SettlementNext ==
    \E n \in Nonces :
        \/ \E terms \in Terms : Offer(n, terms)
        \/ Agree(n)
        \/ \E terms \in Terms, required \in BOOLEAN : Settle(n, terms, required)

SettlementSpec == SettlementInit /\ [][SettlementNext]_settlementVars
=============================================================================
