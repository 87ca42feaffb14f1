------------------------- MODULE CompliantTransfers -------------------------
(***************************************************************************)
(* The whole PayClear on-chain program in its direct integration mode      *)
(* (Mode A): the identity half of AttestationRegistry together with        *)
(* compliance policies, travel rule records and execute_compliant_transfer,*)
(* which checks both wallets' attestations against a policy and moves the  *)
(* tokens by a call to the token program.                                  *)
(***************************************************************************)
EXTENDS AttestationRegistry

CONSTANTS
    Mints,          \* token mints
    Nonces,         \* transfer nonces, chosen off chain
    Amounts,        \* the amounts instructions are called with
    PolicyIds,      \* each institution numbers its own policies
    PolicyChoices,  \* the params set_compliance_policy is called with
    InitialBalance  \* every wallet's balance in every mint

TRAVEL_RULE_PENDING == 0
TRAVEL_RULE_APPROVED == 1
TRAVEL_RULE_REJECTED == 2
TRAVEL_RULE_SETTLED == 3

TRANSFER_STATUS_COMPLETED == 1

(* The jurisdiction lists and Civic fields of a policy are stored and read *)
(* by no instruction of this mode; daily_limit and require_both_attested   *)
(* neither, but they are kept.                                             *)
PolicyParams ==
    [min_kyc_level : U8, max_risk_score : U8, travel_rule_threshold : Nat,
     max_transfer_amount : Nat, daily_limit : Nat, require_both_attested : BOOLEAN]

CompliancePolicy == [params : PolicyParams, active : BOOLEAN]

TravelRuleRecord ==
    [originator_institution : Institutions, beneficiary_institution : Institutions,
     originator_wallet : Keys, beneficiary_wallet : Wallets,
     amount : Amounts, token_mint : Mints,
     status : {TRAVEL_RULE_PENDING, TRAVEL_RULE_APPROVED,
               TRAVEL_RULE_REJECTED, TRAVEL_RULE_SETTLED}]

(* compliance_policy is the PDA's seeds; travel_rule_record is the nonce   *)
(* its PDA is derived from.                                                *)
TransferRecord ==
    [sender : Wallets, receiver : Wallets, mint : Mints, amount : Amounts,
     compliance_policy : Institutions \X PolicyIds,
     travel_rule_record : Nonces \cup {None},
     sender_risk_score : 0..MAX_RISK_SCORE, receiver_risk_score : 0..MAX_RISK_SCORE,
     status : {TRANSFER_STATUS_COMPLETED}, timestamp : Nat]

ComplianceTransferEvent ==
    [transfer_nonce : Nonces, sender : Wallets, receiver : Wallets, mint : Mints,
     amount : Amounts, travel_rule_required : BOOLEAN]

ASSUME TransferInputsAssumption ==
    /\ Amounts \subseteq Nat
    /\ PolicyChoices \subseteq PolicyParams
    /\ InitialBalance \in Nat
    /\ IsFiniteSet(Nonces)

ASSUME TransferNoneAssumption ==
    /\ None \notin Nonces
    /\ None \notin CompliancePolicy
    /\ None \notin TravelRuleRecord
    /\ None \notin TransferRecord
    /\ None \notin [amount : Amounts, mint : Mints]

VARIABLES
    policies,       \* policies[i][p]: compliance policy accounts
    travelRules,    \* travelRules[n]: travel rule record accounts
    transfers,      \* transfers[n]: transfer record accounts
    events,         \* the ComplianceTransferEvents emitted so far
    balances        \* balances[w][m]: w's token account of mint m (token program)

transferVars == <<policies, travelRules, transfers, events, balances>>

vars == <<registry, institutions, attestations, trustNetworks, zkProofs, clock,
          policies, travelRules, transfers, events, balances>>

-----------------------------------------------------------------------------

ProgramInit ==
    /\ Init
    /\ policies = [i \in Institutions |-> [p \in PolicyIds |-> None]]
    /\ travelRules = [n \in Nonces |-> None]
    /\ transfers = [n \in Nonces |-> None]
    /\ events = {}
    /\ balances = [w \in Wallets |-> [m \in Mints |-> InitialBalance]]

(* init_if_needed: a policy in use can be replaced between two transfers.  *)
SetCompliancePolicy(signer, i, p, params) ==
    /\ ActiveAndAuthorized(i, signer)
    /\ ValidRiskScore(params.max_risk_score)
    /\ policies' = [policies EXCEPT ![i][p] = [params |-> params, active |-> TRUE]]
    /\ UNCHANGED <<registryVars, travelRules, transfers, events, balances>>

(* Mutant of UnusedNonce: the record of a nonce can be written again.      *)
AnyNonce(n) == TRUE

(* The init constraint on the travel rule PDA of nonce n.                  *)
UnusedNonce(n) == travelRules[n] = None

(* The wallet recorded for the originator is the signing authority's.      *)
RecordTravelRule(signer, originator, beneficiary, n, wallet, amount, mint) ==
    /\ ActiveAndAuthorized(originator, signer)
    /\ institutions[beneficiary] # None
    /\ UnusedNonce(n)
    /\ travelRules' = [travelRules EXCEPT ![n] =
           [originator_institution |-> originator,
            beneficiary_institution |-> beneficiary,
            originator_wallet |-> signer,
            beneficiary_wallet |-> wallet,
            amount |-> amount,
            token_mint |-> mint,
            status |-> TRAVEL_RULE_PENDING]]
    /\ UNCHANGED <<registryVars, policies, transfers, events, balances>>

ApproveTravelRule(signer, beneficiary, n) ==
    /\ ActiveAndAuthorized(beneficiary, signer)
    /\ travelRules[n] # None
    /\ travelRules[n].beneficiary_institution = beneficiary
    /\ travelRules[n].status = TRAVEL_RULE_PENDING
    /\ travelRules' = [travelRules EXCEPT ![n].status = TRAVEL_RULE_APPROVED]
    /\ UNCHANGED <<registryVars, policies, transfers, events, balances>>

(* Mutant of Compliant: an attestation past its expiry is still taken.     *)
CompliantIfActive(attestation, params, now) ==
    /\ IsActive(attestation)
    /\ attestation.kyc_level >= params.min_kyc_level
    /\ attestation.risk_score <= params.max_risk_score

(* Checks 1 to 4 of execute_compliant_transfer, for one of the two wallets.*)
Compliant(attestation, params, now) ==
    /\ IsValid(attestation, now)
    /\ attestation.kyc_level >= params.min_kyc_level
    /\ attestation.risk_score <= params.max_risk_score

WithinLimit(params, amount) ==
    params.max_transfer_amount > 0 => amount <= params.max_transfer_amount

TravelRuleRequired(params, amount) ==
    amount >= params.travel_rule_threshold /\ params.travel_rule_threshold > 0

(* Mutant of TravelRuleMatches: the status is checked, the terms are not.  *)
TravelRuleApprovedOnly(rule, n, amount, mint) ==
    /\ rule # None
    /\ travelRules[rule].status = TRAVEL_RULE_APPROVED

(* Check 6: the optional account passed as rule must be the approved       *)
(* record of this nonce, amount and mint.                                  *)
TravelRuleMatches(rule, n, amount, mint) ==
    /\ rule # None
    /\ travelRules[rule].status = TRAVEL_RULE_APPROVED
    /\ rule = n
    /\ travelRules[rule].amount = amount
    /\ travelRules[rule].token_mint = mint

Debited(wallet, mint, amount) ==
    [balances EXCEPT ![wallet][mint] = @ - amount]

(* Mutant of MoveTokens: the source account's funds are not checked.       *)
MoveUncovered(sender, payee, mint, amount) ==
    balances' = [Debited(sender, mint, amount) EXCEPT ![payee][mint] = @ + amount]

(* The token program's transfer_checked.  The receiving token account is   *)
(* any account of the mint: its owner, the payee, is not compared with     *)
(* receiver_wallet.  A transfer to oneself changes nothing.                *)
MoveTokens(sender, payee, mint, amount) ==
    /\ balances[sender][mint] >= amount
    /\ balances' = [Debited(sender, mint, amount) EXCEPT ![payee][mint] = @ + amount]

(* The accounts of one execute_compliant_transfer: any institution's       *)
(* attestation of each wallet, any institution's policy, and a travel rule *)
(* record or none.                                                         *)
TransferAccounts ==
    [sender : Wallets, receiver : Wallets, payee : Wallets, mint : Mints,
     sender_attestation : Institutions, receiver_attestation : Institutions,
     policy : Institutions \X PolicyIds, rule : Nonces \cup {None}]

AccountsExist(a) ==
    /\ attestations[a.sender_attestation][a.sender] # None
    /\ attestations[a.receiver_attestation][a.receiver] # None
    /\ policies[a.policy[1]][a.policy[2]] # None
    /\ policies[a.policy[1]][a.policy[2]].active
    /\ a.rule # None => travelRules[a.rule] # None

(* Mutant of UnusedTransfer: a completed transfer can be recorded over.    *)
AnyTransfer(n) == TRUE

(* The init constraint on the transfer record PDA of nonce n.              *)
UnusedTransfer(n) == transfers[n] = None

ExecuteCompliantTransfer(a, n, amount) ==
    LET sender == attestations[a.sender_attestation][a.sender]
        receiver == attestations[a.receiver_attestation][a.receiver]
        params == policies[a.policy[1]][a.policy[2]].params
    IN
    /\ NotPaused
    /\ UnusedTransfer(n)
    /\ AccountsExist(a)
    /\ Compliant(sender, params, clock)
    /\ Compliant(receiver, params, clock)
    /\ WithinLimit(params, amount)
    /\ TravelRuleRequired(params, amount) => TravelRuleMatches(a.rule, n, amount, a.mint)
    /\ MoveTokens(a.sender, a.payee, a.mint, amount)
    /\ transfers' = [transfers EXCEPT ![n] =
           [sender |-> a.sender, receiver |-> a.receiver, mint |-> a.mint,
            amount |-> amount, compliance_policy |-> a.policy,
            travel_rule_record |-> a.rule,
            sender_risk_score |-> sender.risk_score,
            receiver_risk_score |-> receiver.risk_score,
            status |-> TRANSFER_STATUS_COMPLETED, timestamp |-> clock]]
    /\ CheckedAdd(registry.transfer_count)
    /\ registry' = [registry EXCEPT !.transfer_count = @ + 1]
    /\ events' = events \cup
           {[transfer_nonce |-> n, sender |-> a.sender, receiver |-> a.receiver,
             mint |-> a.mint, amount |-> amount,
             travel_rule_required |-> TravelRuleRequired(params, amount)]}
    /\ UNCHANGED <<institutions, attestations, trustNetworks, zkProofs, clock,
                   policies, travelRules>>

TransferNext ==
    \/ \E signer \in Keys, i \in Institutions :
          \/ \E p \in PolicyIds, params \in PolicyChoices :
                SetCompliancePolicy(signer, i, p, params)
          \/ \E j \in Institutions, n \in Nonces, w \in Wallets,
                amount \in Amounts, mint \in Mints :
                RecordTravelRule(signer, i, j, n, w, amount, mint)
          \/ \E n \in Nonces : ApproveTravelRule(signer, i, n)
    \/ \E a \in TransferAccounts, n \in Nonces, amount \in Amounts :
          ExecuteCompliantTransfer(a, n, amount)

Next ==
    \/ RegistryNext /\ UNCHANGED transferVars
    \/ TransferNext

Spec == ProgramInit /\ [][Next]_vars

-----------------------------------------------------------------------------
(* Properties.                                                             *)

(* Every account of the transfer half holds what its struct declares and   *)
(* no balance goes below zero.                                             *)
TransferTypeOK ==
    /\ policies \in [Institutions -> [PolicyIds -> CompliancePolicy \cup {None}]]
    /\ travelRules \in [Nonces -> TravelRuleRecord \cup {None}]
    /\ transfers \in [Nonces -> TransferRecord \cup {None}]
    /\ events \subseteq ComplianceTransferEvent
    /\ balances \in [Wallets -> [Mints -> Nat]]

(* A transfer the travel rule applied to when it was executed has, then    *)
(* and for ever after, an approved travel rule record of its own nonce,    *)
(* amount and mint, whatever becomes of the policy in the meantime.        *)
RequiredTransfersBacked ==
    \A e \in events : e.travel_rule_required =>
        LET rule == travelRules[e.transfer_nonce] IN
        /\ rule # None
        /\ rule.status = TRAVEL_RULE_APPROVED
        /\ rule.amount = e.amount
        /\ rule.token_mint = e.mint

Receipt(e, record) ==
    /\ record # None
    /\ record.sender = e.sender
    /\ record.receiver = e.receiver
    /\ record.mint = e.mint
    /\ record.amount = e.amount

(* The three traces of a transfer agree: each emitted event has the        *)
(* transfer record of its nonce as receipt, each record was announced, and *)
(* the registry has counted each exactly once.                             *)
TracesAgree ==
    /\ \A e \in events : Receipt(e, transfers[e.transfer_nonce])
    /\ \A n \in Nonces : transfers[n] # None => \E e \in events : e.transfer_nonce = n
    /\ LET completed == {n \in Nonces : transfers[n] # None} IN
       IF registry = None
       THEN completed = {}
       ELSE registry.transfer_count = Cardinality(completed)

(* The program as a settlement protocol: a travel rule record is an offer, *)
(* its approval the agreement, and each event emitted a settlement.        *)
TransferTerms == [amount : Amounts, mint : Mints]

OfferedTerms(record) ==
    IF record = None THEN None
    ELSE [amount |-> record.amount, mint |-> record.token_mint]

offer == [n \in Nonces |-> OfferedTerms(travelRules[n])]

agreed == {n \in Nonces : /\ travelRules[n] # None
                          /\ travelRules[n].status = TRAVEL_RULE_APPROVED}

SettlementOf(e) ==
    [nonce |-> e.transfer_nonce, terms |-> [amount |-> e.amount, mint |-> e.mint],
     required |-> e.travel_rule_required]

settled == {SettlementOf(e) : e \in events}

Settlements == INSTANCE TransferSettlement WITH
    Nonces <- Nonces, Terms <- TransferTerms, None <- None,
    offer <- offer, agreed <- agreed, settled <- settled

(* The program implements the settlement protocol: no instruction, in any  *)
(* order, amends an offer, withdraws an agreement, settles a nonce twice   *)
(* or settles, where the travel rule applies, anything but agreed terms.   *)
ImplementsSettlement == Settlements!SettlementSpec

HasValidKyc(w, params) ==
    \E i \in Institutions :
        /\ attestations[i][w] # None
        /\ IsValid(attestations[i][w], clock)
        /\ attestations[i][w].kyc_level >= params.min_kyc_level
        /\ attestations[i][w].risk_score <= params.max_risk_score

(* Executed(n): the step creates the transfer record of nonce n.           *)
Executed(n) == transfers[n] = None /\ transfers'[n] # None

(* The gate as seen from the tokens: the program debits a wallet only in a *)
(* step that leaves a record of it as sender, for what left, under a       *)
(* policy that sender and named receiver each satisfied at that moment     *)
(* with a valid attestation, expiry included.                              *)
TokensLeaveOnlyThroughTheGate ==
    [][\A w \in Wallets, m \in Mints : balances'[w][m] < balances[w][m] =>
          \E n \in Nonces :
              LET record == transfers'[n]
                  policy == policies[record.compliance_policy[1]]
                                    [record.compliance_policy[2]]
              IN  /\ Executed(n)
                  /\ record.sender = w
                  /\ record.mint = m
                  /\ record.amount = balances[w][m] - balances'[w][m]
                  /\ HasValidKyc(w, policy.params)
                  /\ HasValidKyc(record.receiver, policy.params)]_vars

-----------------------------------------------------------------------------
(* What the repository says of the program, and the program does not do.   *)

(* execute_compliant_transfer.rs:152 "Verify travel rule record matches    *)
(* this transfer": the wallet the beneficiary's institution approved is    *)
(* the wallet the transfer names.                                          *)
TravelRuleNamesTheReceiver ==
    \A e \in events : e.travel_rule_required =>
        travelRules[e.transfer_nonce].beneficiary_wallet = e.receiver
=============================================================================
