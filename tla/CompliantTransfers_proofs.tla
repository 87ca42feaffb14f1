----------------------- MODULE CompliantTransfers_proofs -----------------------
(***************************************************************************)
(* Proofs about the whole on-chain program.                                *)
(***************************************************************************)
EXTENDS CompliantTransfers, AttestationRegistry_proofs

-----------------------------------------------------------------------------
(* Types.                                                                  *)

(* Constant-level facts about the records the instructions build.          *)
LEMMA CountTransferType ==
    ASSUME NEW r \in RegistryAccount, CheckedAdd(r.transfer_count)
    PROVE  [r EXCEPT !.transfer_count = @ + 1] \in RegistryAccount
BY BoundsAssumption DEF RegistryAccount, CheckedAdd

(* The policy account that is written is of its type.                      *)
LEMMA PolicyType ==
    ASSUME NEW params \in PolicyChoices
    PROVE  [params |-> params, active |-> TRUE] \in CompliancePolicy
BY TransferInputsAssumption DEF CompliancePolicy

(* A new travel rule record is of its type.                                *)
LEMMA TravelRuleType ==
    ASSUME NEW i \in Institutions, NEW j \in Institutions, NEW k \in Keys,
           NEW w \in Wallets, NEW amount \in Amounts, NEW mint \in Mints
    PROVE  [originator_institution |-> i, beneficiary_institution |-> j,
            originator_wallet |-> k, beneficiary_wallet |-> w, amount |-> amount,
            token_mint |-> mint, status |-> TRAVEL_RULE_PENDING] \in TravelRuleRecord
BY DEF TravelRuleRecord

(* An approved travel rule record is a travel rule record.                 *)
LEMMA ApprovedType ==
    ASSUME NEW r \in TravelRuleRecord
    PROVE  [r EXCEPT !.status = TRAVEL_RULE_APPROVED] \in TravelRuleRecord
BY DEF TravelRuleRecord

(* The record a transfer leaves is of its type.                            *)
LEMMA TransferRecordType ==
    ASSUME NEW a \in TransferAccounts, NEW amount \in Amounts, NEW t \in Nat,
           NEW s \in KycAttestation, NEW r \in KycAttestation
    PROVE  [sender |-> a.sender, receiver |-> a.receiver, mint |-> a.mint,
            amount |-> amount, compliance_policy |-> a.policy,
            travel_rule_record |-> a.rule,
            sender_risk_score |-> s.risk_score, receiver_risk_score |-> r.risk_score,
            status |-> TRANSFER_STATUS_COMPLETED, timestamp |-> t] \in TransferRecord
<1>1. s.risk_score \in 0..MAX_RISK_SCORE /\ r.risk_score \in 0..MAX_RISK_SCORE
  BY DEF KycAttestation
<1>2. /\ a.sender \in Wallets /\ a.receiver \in Wallets /\ a.mint \in Mints
      /\ a.policy \in Institutions \X PolicyIds /\ a.rule \in Nonces \cup {None}
  BY DEF TransferAccounts
<1> QED BY <1>1, <1>2 DEF TransferRecord

(* Whether the travel rule applies is a Boolean.                           *)
LEMMA RequiredType ==
    ASSUME NEW params \in PolicyParams, NEW amount \in Amounts
    PROVE  TravelRuleRequired(params, amount) \in BOOLEAN
BY DEF TravelRuleRequired

(* The event a transfer emits is of its type.                              *)
LEMMA EventType ==
    ASSUME NEW a \in TransferAccounts, NEW n \in Nonces, NEW amount \in Amounts,
           NEW required \in BOOLEAN
    PROVE  [transfer_nonce |-> n, sender |-> a.sender, receiver |-> a.receiver,
            mint |-> a.mint, amount |-> amount, travel_rule_required |-> required]
              \in ComplianceTransferEvent
BY DEF TransferAccounts, ComplianceTransferEvent

(* The token program never overdraws an account.                           *)
LEMMA MoveTokensType ==
    ASSUME balances \in [Wallets -> [Mints -> Nat]], NEW s \in Wallets, NEW p \in Wallets,
           NEW m \in Mints, NEW amount \in Amounts, MoveTokens(s, p, m, amount)
    PROVE  balances' \in [Wallets -> [Mints -> Nat]]
<1>1. amount \in Nat
  BY TransferInputsAssumption
<1>2. Debited(s, m, amount) \in [Wallets -> [Mints -> Nat]]
  BY <1>1 DEF MoveTokens, Debited
<1> QED BY <1>1, <1>2 DEF MoveTokens

(* Within an instruction's guards, the accounts a transfer reads exist.    *)
LEMMA TransferReads ==
    ASSUME TypeOK, TransferTypeOK, NEW a \in TransferAccounts, AccountsExist(a)
    PROVE  /\ attestations[a.sender_attestation][a.sender] \in KycAttestation
           /\ attestations[a.receiver_attestation][a.receiver] \in KycAttestation
           /\ policies[a.policy[1]][a.policy[2]].params \in PolicyParams
<1>1. /\ a.sender \in Wallets /\ a.receiver \in Wallets
      /\ a.sender_attestation \in Institutions /\ a.receiver_attestation \in Institutions
      /\ a.policy \in Institutions \X PolicyIds
  BY DEF TransferAccounts
<1>2. a.policy[1] \in Institutions /\ a.policy[2] \in PolicyIds
  BY <1>1
<1>3. policies[a.policy[1]][a.policy[2]] \in CompliancePolicy
  BY <1>2 DEF AccountsExist, TransferTypeOK
<1> QED BY <1>1, <1>3 DEF AccountsExist, TypeOK, CompliancePolicy

(* No account exists and balances are natural at first.                    *)
LEMMA TypeInit == ProgramInit => TypeOK /\ TransferTypeOK
<1>1. InitialBalance \in Nat
  BY TransferInputsAssumption
<1>2. ProgramInit => TransferTypeOK
  BY <1>1 DEF ProgramInit, TransferTypeOK
<1> QED BY <1>2, RegistryTypeInit DEF ProgramInit

(* Every instruction keeps both halves within their types.                 *)
LEMMA TypeStep ==
    ASSUME TypeOK, TransferTypeOK, Next
    PROVE  TypeOK' /\ TransferTypeOK'
<1>1. CASE RegistryNext /\ UNCHANGED transferVars
  BY <1>1, RegistryTypeStep DEF transferVars, TransferTypeOK
<1>2. ASSUME NEW k \in Keys, NEW i \in Institutions, NEW p \in PolicyIds,
             NEW params \in PolicyChoices, SetCompliancePolicy(k, i, p, params)
      PROVE  TypeOK' /\ TransferTypeOK'
  <2>1. TypeOK'
    BY <1>2 DEF SetCompliancePolicy, registryVars, TypeOK
  <2> QED BY <1>2, <2>1, PolicyType DEF SetCompliancePolicy, TransferTypeOK
<1>3. ASSUME NEW k \in Keys, NEW i \in Institutions, NEW j \in Institutions,
             NEW n \in Nonces, NEW w \in Wallets, NEW amount \in Amounts, NEW mint \in Mints,
             RecordTravelRule(k, i, j, n, w, amount, mint)
      PROVE  TypeOK' /\ TransferTypeOK'
  <2>1. TypeOK'
    BY <1>3 DEF RecordTravelRule, registryVars, TypeOK
  <2> QED BY <1>3, <2>1, TravelRuleType DEF RecordTravelRule, TransferTypeOK
<1>4. ASSUME NEW k \in Keys, NEW i \in Institutions, NEW n \in Nonces,
             ApproveTravelRule(k, i, n)
      PROVE  TypeOK' /\ TransferTypeOK'
  <2>1. TypeOK'
    BY <1>4 DEF ApproveTravelRule, registryVars, TypeOK
  <2>2. travelRules[n] \in TravelRuleRecord
    BY <1>4 DEF ApproveTravelRule, TransferTypeOK
  <2>3. [travelRules[n] EXCEPT !.status = TRAVEL_RULE_APPROVED] \in TravelRuleRecord
    BY <2>2, ApprovedType
  <2> QED BY <1>4, <2>1, <2>3 DEF ApproveTravelRule, TransferTypeOK
<1>5. ASSUME NEW a \in TransferAccounts, NEW n \in Nonces, NEW amount \in Amounts,
             ExecuteCompliantTransfer(a, n, amount)
      PROVE  TypeOK' /\ TransferTypeOK'
  <2> DEFINE params == policies[a.policy[1]][a.policy[2]].params
  <2>1. /\ attestations[a.sender_attestation][a.sender] \in KycAttestation
        /\ attestations[a.receiver_attestation][a.receiver] \in KycAttestation
        /\ params \in PolicyParams
    BY <1>5, TransferReads DEF ExecuteCompliantTransfer
  <2>2. registry' \in RegistryAccount
    <3>1. registry \in RegistryAccount
      BY <1>5 DEF ExecuteCompliantTransfer, NotPaused, TypeOK
    <3> QED BY <1>5, <3>1, CountTransferType DEF ExecuteCompliantTransfer
  <2>3. TypeOK'
    BY <1>5, <2>2 DEF ExecuteCompliantTransfer, TypeOK
  <2>4. transfers' \in [Nonces -> TransferRecord \cup {None}]
    <3>1. clock \in Nat
      BY DEF TypeOK
    <3> DEFINE record ==
           [sender |-> a.sender, receiver |-> a.receiver, mint |-> a.mint,
            amount |-> amount, compliance_policy |-> a.policy,
            travel_rule_record |-> a.rule,
            sender_risk_score |-> attestations[a.sender_attestation][a.sender].risk_score,
            receiver_risk_score |-> attestations[a.receiver_attestation][a.receiver].risk_score,
            status |-> TRANSFER_STATUS_COMPLETED, timestamp |-> clock]
    <3>2. record \in TransferRecord
      BY <2>1, <3>1, TransferRecordType
    <3>3. transfers' = [transfers EXCEPT ![n] = record]
      BY <1>5 DEF ExecuteCompliantTransfer
    <3> HIDE DEF record
    <3> QED BY <3>2, <3>3 DEF TransferTypeOK
  <2>5. events' \subseteq ComplianceTransferEvent
    <3> DEFINE required == TravelRuleRequired(params, amount)
               e == [transfer_nonce |-> n, sender |-> a.sender, receiver |-> a.receiver,
                     mint |-> a.mint, amount |-> amount, travel_rule_required |-> required]
    <3>1. required \in BOOLEAN
      BY <2>1, RequiredType
    <3>2. e \in ComplianceTransferEvent
      BY <3>1, EventType
    <3>3. events' = events \cup {e}
      BY <1>5 DEF ExecuteCompliantTransfer
    <3> HIDE DEF e
    <3> QED BY <3>2, <3>3 DEF TransferTypeOK
  <2>6. balances' \in [Wallets -> [Mints -> Nat]]
    BY <1>5, MoveTokensType
       DEF ExecuteCompliantTransfer, TransferAccounts, TransferTypeOK
  <2>7. UNCHANGED <<policies, travelRules>>
    BY <1>5 DEF ExecuteCompliantTransfer
  <2> QED BY <2>3, <2>4, <2>5, <2>6, <2>7 DEF TransferTypeOK
<1> QED BY <1>1, <1>2, <1>3, <1>4, <1>5 DEF Next, TransferNext

(* Type correctness of the whole program.                                  *)
THEOREM TypeCorrect == Spec => [](TypeOK /\ TransferTypeOK)
<1>1. TypeOK /\ TransferTypeOK /\ UNCHANGED vars => TypeOK' /\ TransferTypeOK'
  BY DEF TypeOK, TransferTypeOK, vars
<1>2. TypeOK /\ TransferTypeOK /\ [Next]_vars => TypeOK' /\ TransferTypeOK'
  BY <1>1, TypeStep
<1> QED BY TypeInit, <1>2, PTL DEF Spec

-----------------------------------------------------------------------------
(* What the instructions leave alone.                                      *)

(* Only ExecuteCompliantTransfer emits events, writes transfer records and *)
(* moves tokens; only the two travel rule instructions write travel rules. *)
LEMMA Untouched ==
    ASSUME Next
    PROVE  \/ UNCHANGED <<travelRules, transfers, events, balances>>
           \/ /\ UNCHANGED <<registryVars, transfers, events, balances>>
              /\ \/ \E k \in Keys, i, j \in Institutions, n \in Nonces, w \in Wallets,
                       amount \in Amounts, mint \in Mints :
                          RecordTravelRule(k, i, j, n, w, amount, mint)
                 \/ \E k \in Keys, i \in Institutions, n \in Nonces : ApproveTravelRule(k, i, n)
           \/ /\ UNCHANGED travelRules
              /\ \E a \in TransferAccounts, n \in Nonces, amount \in Amounts :
                    ExecuteCompliantTransfer(a, n, amount)
<1>1. CASE RegistryNext /\ UNCHANGED transferVars
  BY <1>1 DEF transferVars
<1>2. ASSUME NEW k \in Keys, NEW i \in Institutions, NEW p \in PolicyIds,
             NEW params \in PolicyChoices, SetCompliancePolicy(k, i, p, params)
      PROVE  UNCHANGED <<travelRules, transfers, events, balances>>
  BY <1>2 DEF SetCompliancePolicy
<1>3. ASSUME NEW k \in Keys, NEW i \in Institutions, NEW j \in Institutions,
             NEW n \in Nonces, NEW w \in Wallets, NEW amount \in Amounts, NEW mint \in Mints,
             RecordTravelRule(k, i, j, n, w, amount, mint)
      PROVE  UNCHANGED <<registryVars, transfers, events, balances>>
  BY <1>3 DEF RecordTravelRule
<1>4. ASSUME NEW k \in Keys, NEW i \in Institutions, NEW n \in Nonces,
             ApproveTravelRule(k, i, n)
      PROVE  UNCHANGED <<registryVars, transfers, events, balances>>
  BY <1>4 DEF ApproveTravelRule
<1>5. ASSUME NEW a \in TransferAccounts, NEW n \in Nonces, NEW amount \in Amounts,
             ExecuteCompliantTransfer(a, n, amount)
      PROVE  UNCHANGED travelRules
  BY <1>5 DEF ExecuteCompliantTransfer
<1> QED BY <1>1, <1>2, <1>3, <1>4, <1>5 DEF Next, TransferNext

(* The effects of one executed transfer that the results below need.       *)
LEMMA Executes ==
    ASSUME TypeOK, TransferTypeOK, NEW a \in TransferAccounts, NEW n \in Nonces,
           NEW amount \in Amounts, ExecuteCompliantTransfer(a, n, amount)
    PROVE  \E required \in BOOLEAN :
              LET e == [transfer_nonce |-> n, sender |-> a.sender, receiver |-> a.receiver,
                        mint |-> a.mint, amount |-> amount, travel_rule_required |-> required]
              IN  /\ events' = events \cup {e}
                  /\ required => /\ travelRules[n] # None
                                 /\ travelRules[n].status = TRAVEL_RULE_APPROVED
                                 /\ travelRules[n].amount = amount
                                 /\ travelRules[n].token_mint = a.mint
<1> DEFINE params == policies[a.policy[1]][a.policy[2]].params
           required == TravelRuleRequired(params, amount)
<1>1. params \in PolicyParams
  BY TransferReads DEF ExecuteCompliantTransfer
<1>2. required \in BOOLEAN
  BY <1>1, RequiredType
<1>3. required => TravelRuleMatches(a.rule, n, amount, a.mint)
  BY DEF ExecuteCompliantTransfer
<1>4. AccountsExist(a)
  BY DEF ExecuteCompliantTransfer
<1>5. required => /\ travelRules[n] # None
                  /\ travelRules[n].status = TRAVEL_RULE_APPROVED
                  /\ travelRules[n].amount = amount
                  /\ travelRules[n].token_mint = a.mint
  BY <1>3, <1>4 DEF TravelRuleMatches, AccountsExist
<1>6. events' = events \cup
         {[transfer_nonce |-> n, sender |-> a.sender, receiver |-> a.receiver,
           mint |-> a.mint, amount |-> amount, travel_rule_required |-> required]}
  BY DEF ExecuteCompliantTransfer
<1> HIDE DEF required
<1> QED BY <1>2, <1>5, <1>6

(* What a transfer writes in its record, for a nonce that had none.        *)
LEMMA Recorded ==
    ASSUME TypeOK, TransferTypeOK, NEW a \in TransferAccounts, NEW n \in Nonces,
           NEW amount \in Amounts, ExecuteCompliantTransfer(a, n, amount)
    PROVE  /\ transfers[n] = None
           /\ transfers'[n] # None
           /\ transfers'[n].sender = a.sender
           /\ transfers'[n].receiver = a.receiver
           /\ transfers'[n].mint = a.mint
           /\ transfers'[n].amount = amount
           /\ transfers'[n].compliance_policy = a.policy
           /\ \A m \in Nonces \ {n} : transfers'[m] = transfers[m]
<1>1. transfers'[n] \in TransferRecord \cup {None}
  BY TypeStep DEF Next, TransferNext, TransferTypeOK
<1>2. transfers'[n] =
         [sender |-> a.sender, receiver |-> a.receiver, mint |-> a.mint,
          amount |-> amount, compliance_policy |-> a.policy,
          travel_rule_record |-> a.rule,
          sender_risk_score |-> attestations[a.sender_attestation][a.sender].risk_score,
          receiver_risk_score |-> attestations[a.receiver_attestation][a.receiver].risk_score,
          status |-> TRANSFER_STATUS_COMPLETED, timestamp |-> clock]
  BY DEF ExecuteCompliantTransfer, TransferTypeOK
<1>3. transfers'[n] \in TransferRecord
  <2>1. clock \in Nat
    BY DEF TypeOK
  <2>2. /\ attestations[a.sender_attestation][a.sender] \in KycAttestation
        /\ attestations[a.receiver_attestation][a.receiver] \in KycAttestation
    BY TransferReads DEF ExecuteCompliantTransfer
  <2> QED BY <1>2, <2>1, <2>2, TransferRecordType
<1>4. transfers'[n] # None
  BY <1>3, TransferNoneAssumption
<1>5. transfers[n] = None /\ \A m \in Nonces \ {n} : transfers'[m] = transfers[m]
  BY DEF ExecuteCompliantTransfer, UnusedTransfer, TransferTypeOK
<1>6. /\ transfers'[n].sender = a.sender
      /\ transfers'[n].receiver = a.receiver
      /\ transfers'[n].mint = a.mint
      /\ transfers'[n].amount = amount
      /\ transfers'[n].compliance_policy = a.policy
  BY <1>2
<1> QED BY <1>4, <1>5, <1>6

-----------------------------------------------------------------------------
(* The travel rule.                                                        *)

Backed(e) ==
    /\ travelRules[e.transfer_nonce] # None
    /\ travelRules[e.transfer_nonce].status = TRAVEL_RULE_APPROVED
    /\ travelRules[e.transfer_nonce].amount = e.amount
    /\ travelRules[e.transfer_nonce].token_mint = e.mint

(* A record that backs a transfer can be neither replaced, its nonce being *)
(* taken, nor approved again.                                              *)
LEMMA BackedStep ==
    ASSUME TypeOK, TransferTypeOK, RequiredTransfersBacked, Next
    PROVE  RequiredTransfersBacked'
<1>1. \A e \in events : e.travel_rule_required => Backed(e)
  BY DEF RequiredTransfersBacked, Backed
<1>2. \A e \in events : e.transfer_nonce \in Nonces
  BY DEF TransferTypeOK, ComplianceTransferEvent
<1> SUFFICES ASSUME NEW e \in events', e.travel_rule_required
             PROVE  Backed(e)'
  BY DEF RequiredTransfersBacked, Backed
<1>3. CASE UNCHANGED <<travelRules, transfers, events, balances>>
  BY <1>1, <1>3 DEF Backed
<1>4. ASSUME NEW k \in Keys, NEW i \in Institutions, NEW j \in Institutions,
             NEW n \in Nonces, NEW w \in Wallets, NEW amount \in Amounts, NEW mint \in Mints,
             RecordTravelRule(k, i, j, n, w, amount, mint), UNCHANGED events
      PROVE  Backed(e)'
  <2>1. e.transfer_nonce # n
    BY <1>1, <1>4 DEF Backed, RecordTravelRule, UnusedNonce
  <2>2. travelRules'[e.transfer_nonce] = travelRules[e.transfer_nonce]
    BY <1>2, <1>4, <2>1 DEF RecordTravelRule, TransferTypeOK
  <2> QED BY <1>1, <1>4, <2>2 DEF Backed
<1>5. ASSUME NEW k \in Keys, NEW i \in Institutions, NEW n \in Nonces,
             ApproveTravelRule(k, i, n), UNCHANGED events
      PROVE  Backed(e)'
  <2>1. e.transfer_nonce # n
    BY <1>1, <1>5 DEF Backed, ApproveTravelRule, TRAVEL_RULE_APPROVED, TRAVEL_RULE_PENDING
  <2>2. travelRules'[e.transfer_nonce] = travelRules[e.transfer_nonce]
    BY <1>2, <1>5, <2>1 DEF ApproveTravelRule, TransferTypeOK
  <2> QED BY <1>1, <1>5, <2>2 DEF Backed
<1>6. ASSUME NEW a \in TransferAccounts, NEW n \in Nonces, NEW amount \in Amounts,
             ExecuteCompliantTransfer(a, n, amount), UNCHANGED travelRules
      PROVE  Backed(e)'
  <2>1. CASE e \in events
    BY <1>1, <1>6, <2>1 DEF Backed
  <2>2. CASE e \notin events
    BY <1>6, <2>2, Executes DEF Backed
  <2> QED BY <2>1, <2>2
<1> QED BY <1>3, <1>4, <1>5, <1>6, Untouched

(* A transfer the travel rule applied to keeps its approved record.        *)
THEOREM TravelRuleCorrect == Spec => []RequiredTransfersBacked
<1>1. ProgramInit => RequiredTransfersBacked
  BY DEF ProgramInit, RequiredTransfersBacked
<1>2. TypeOK /\ TransferTypeOK /\ RequiredTransfersBacked /\ [Next]_vars
         => RequiredTransfersBacked'
  <2>1. UNCHANGED vars /\ RequiredTransfersBacked => RequiredTransfersBacked'
    BY DEF vars, RequiredTransfersBacked
  <2> QED BY <2>1, BackedStep
<1> QED BY TypeCorrect, <1>1, <1>2, PTL DEF Spec

-----------------------------------------------------------------------------
(* The three traces of a transfer.                                         *)

Completed == {n \in Nonces : transfers[n] # None}

Announced ==
    /\ \A e \in events : Receipt(e, transfers[e.transfer_nonce])
    /\ \A n \in Nonces : transfers[n] # None => \E e \in events : e.transfer_nonce = n

TransfersCounted ==
    IF registry = None
    THEN Completed = {}
    ELSE registry.transfer_count = Cardinality(Completed)

(* The property in two parts: events against records, records against the count. *)
LEMMA TracesAre == TracesAgree <=> Announced /\ TransfersCounted
BY DEF TracesAgree, Announced, TransfersCounted, Completed

(* The same, of the next state.                                            *)
LEMMA TracesArePrimed == TracesAgree' <=> Announced' /\ TransfersCounted'
BY DEF TracesAgree, Announced, TransfersCounted, Completed

(* The identity half keeps the registry's count of transfers.              *)
LEMMA TransferCountKept ==
    ASSUME TypeOK, RegistryNext
    PROVE  \/ UNCHANGED registry
           \/ registry = None /\ registry' # None /\ registry'.transfer_count = 0
           \/ /\ registry # None /\ registry' # None
              /\ registry'.transfer_count = registry.transfer_count
<1>1. ASSUME NEW k \in Keys, InitializeRegistry(k)
      PROVE  registry = None /\ registry' # None /\ registry'.transfer_count = 0
  <2>1. registry' \in RegistryAccount
    BY <1>1, BoundsAssumption DEF InitializeRegistry, RegistryAccount
  <2>2. registry'.transfer_count = 0
    BY <1>1 DEF InitializeRegistry
  <2> QED BY <1>1, <2>1, <2>2, NoneAssumption DEF InitializeRegistry
<1>2. ASSUME NEW k \in Keys, NEW i \in Institutions, NEW a \in Keys,
             NEW c \in Jurisdictions, RegisterInstitution(k, i, a, c)
      PROVE  /\ registry # None /\ registry' # None
             /\ registry'.transfer_count = registry.transfer_count
  <2>1. registry \in RegistryAccount
    BY <1>2 DEF RegisterInstitution, NotPaused, TypeOK
  <2>2. registry' \in RegistryAccount
    BY <1>2, <2>1, CountInstitutionType DEF RegisterInstitution
  <2>3. registry'.transfer_count = registry.transfer_count
    BY <1>2, <2>1 DEF RegisterInstitution, RegistryAccount
  <2> QED BY <2>1, <2>2, <2>3, NoneAssumption
<1>3. ASSUME NEW k \in Keys, NEW i \in Institutions
      PROVE  /\ \A t \in Institutions :
                   /\ \A terms \in TrustTerms :
                         AddTrustedInstitution(k, i, t, terms) => UNCHANGED registry
                   /\ RemoveTrustedInstitution(k, i, t) => UNCHANGED registry
             /\ \A w \in Wallets :
                   /\ \A g \in KycGrants :
                         CreateKycAttestation(k, i, w, g) => UNCHANGED registry
                   /\ RevokeKycAttestation(k, i, w) => UNCHANGED registry
                   /\ \A s \in RiskScores :
                         UpdateRiskScore(k, i, w, s) => UNCHANGED registry
                   /\ \A e \in Institutions :
                         AcceptExternalAttestation(k, i, e, w) => UNCHANGED registry
                   /\ \A p \in ProofIds :
                         /\ \A g \in ZkGrants :
                               RecordZkProof(k, i, w, p, g) => UNCHANGED registry
                         /\ VerifyZkAttestation(k, i, w, p) => UNCHANGED registry
  BY DEF AddTrustedInstitution, RemoveTrustedInstitution, CreateKycAttestation,
         RevokeKycAttestation, UpdateRiskScore, AcceptExternalAttestation,
         RecordZkProof, VerifyZkAttestation
<1>4. Tick => UNCHANGED registry
  BY DEF Tick
<1> QED BY <1>1, <1>2, <1>3, <1>4 DEF RegistryNext

(* Every instruction keeps events, records and count in agreement.         *)
LEMMA TracesStep ==
    ASSUME TypeOK, TransferTypeOK, TracesAgree, Next
    PROVE  TracesAgree'
<1>1. Announced /\ TransfersCounted
  BY TracesAre
<1> SUFFICES Announced' /\ TransfersCounted'
  BY TracesArePrimed
<1>2. CASE UNCHANGED <<registry, transfers, events>>
  BY <1>1, <1>2 DEF Announced, TransfersCounted, Completed
<1>3. CASE RegistryNext /\ UNCHANGED transferVars
  <2>1. Announced' /\ Completed' = Completed
    BY <1>1, <1>3 DEF transferVars, Announced, Completed
  <2>2. TransfersCounted'
    BY <1>1, <1>3, <2>1, TransferCountKept, FS_EmptySet DEF TransfersCounted
  <2> QED BY <2>1, <2>2
<1>4. ASSUME NEW a \in TransferAccounts, NEW n \in Nonces, NEW amount \in Amounts,
             ExecuteCompliantTransfer(a, n, amount)
      PROVE  Announced' /\ TransfersCounted'
  <2>1. PICK e : /\ events' = events \cup {e}
                 /\ e.transfer_nonce = n /\ e.sender = a.sender /\ e.receiver = a.receiver
                 /\ e.mint = a.mint /\ e.amount = amount
    <3> DEFINE new(required) ==
           [transfer_nonce |-> n, sender |-> a.sender, receiver |-> a.receiver,
            mint |-> a.mint, amount |-> amount, travel_rule_required |-> required]
    <3>1. PICK required \in BOOLEAN : events' = events \cup {new(required)}
      BY <1>4, Executes
    <3> DEFINE d == new(required)
    <3>2. /\ d.transfer_nonce = n /\ d.sender = a.sender /\ d.receiver = a.receiver
          /\ d.mint = a.mint /\ d.amount = amount
      OBVIOUS
    <3>3. events' = events \cup {d}
      BY <3>1
    <3> HIDE DEF d
    <3> QED BY <3>2, <3>3
  <2>2. Receipt(e, transfers[n])'
    BY <1>4, <2>1, Recorded DEF Receipt
  <2>3. \A d \in events : d.transfer_nonce \in Nonces \ {n}
    <3> TAKE d \in events
    <3>1. d.transfer_nonce \in Nonces
      BY DEF TransferTypeOK, ComplianceTransferEvent
    <3>2. transfers[d.transfer_nonce] # None
      BY <1>1 DEF Announced, Receipt
    <3> QED BY <1>4, <3>1, <3>2, Recorded
  <2>4. \A d \in events : transfers'[d.transfer_nonce] = transfers[d.transfer_nonce]
    BY <1>4, <2>3, Recorded
  <2>5. \A d \in events' : Receipt(d, transfers'[d.transfer_nonce])
    BY <1>1, <2>1, <2>2, <2>4 DEF Announced, Receipt
  <2>6. \A m \in Nonces : transfers'[m] # None => \E d \in events' : d.transfer_nonce = m
    BY <1>1, <1>4, <2>1, Recorded DEF Announced
  <2>7. Completed' = Completed \cup {n} /\ n \notin Completed
    BY <1>4, Recorded DEF Completed
  <2>8. IsFiniteSet(Completed)
    BY TransferInputsAssumption, FS_Subset DEF Completed
  <2>9. /\ registry # None /\ registry' # None
        /\ registry'.transfer_count = registry.transfer_count + 1
    <3>1. registry \in RegistryAccount
      BY <1>4 DEF ExecuteCompliantTransfer, NotPaused, TypeOK
    <3>2. [registry EXCEPT !.transfer_count = @ + 1] \in RegistryAccount
      BY <1>4, <3>1, CountTransferType DEF ExecuteCompliantTransfer
    <3>3. registry' = [registry EXCEPT !.transfer_count = @ + 1]
      BY <1>4 DEF ExecuteCompliantTransfer
    <3>4. registry'.transfer_count = registry.transfer_count + 1
      BY <3>1, <3>3 DEF RegistryAccount
    <3> QED BY <3>1, <3>2, <3>3, <3>4, NoneAssumption
  <2>10. TransfersCounted'
    <3>1. Cardinality(Completed') = Cardinality(Completed) + 1
      BY <2>7, <2>8, OneMore
    <3>2. registry.transfer_count = Cardinality(Completed)
      BY <1>1, <2>9 DEF TransfersCounted
    <3> QED BY <2>9, <3>1, <3>2 DEF TransfersCounted
  <2> QED BY <2>5, <2>6, <2>10 DEF Announced
<1>5. ASSUME NEW k \in Keys, NEW i \in Institutions
      PROVE  /\ \A p \in PolicyIds, params \in PolicyChoices :
                   SetCompliancePolicy(k, i, p, params) =>
                      UNCHANGED <<registry, transfers, events>>
             /\ \A j \in Institutions, n \in Nonces, w \in Wallets,
                   amount \in Amounts, mint \in Mints :
                   RecordTravelRule(k, i, j, n, w, amount, mint) =>
                      UNCHANGED <<registry, transfers, events>>
             /\ \A n \in Nonces : ApproveTravelRule(k, i, n) =>
                   UNCHANGED <<registry, transfers, events>>
  BY DEF SetCompliancePolicy, RecordTravelRule, ApproveTravelRule, registryVars
<1> QED BY <1>2, <1>3, <1>4, <1>5 DEF Next, TransferNext

(* Events, transfer records and the registry's count agree.                *)
THEOREM TracesCorrect == Spec => []TracesAgree
<1>1. ProgramInit => TracesAgree
  BY DEF ProgramInit, Init, TracesAgree
<1>2. TypeOK /\ TransferTypeOK /\ TracesAgree /\ [Next]_vars => TracesAgree'
  <2>1. UNCHANGED vars /\ TracesAgree => TracesAgree'
    BY DEF vars, TracesAgree
  <2> QED BY <2>1, TracesStep
<1> QED BY TypeCorrect, <1>1, <1>2, PTL DEF Spec

-----------------------------------------------------------------------------
(* The gate.                                                               *)

(* A transfer that debits a wallet satisfies what the gate asks.           *)
LEMMA GateStep ==
    ASSUME TypeOK, TransferTypeOK, NEW w \in Wallets, NEW m \in Mints,
           NEW a \in TransferAccounts, NEW n \in Nonces, NEW amount \in Amounts,
           ExecuteCompliantTransfer(a, n, amount), balances'[w][m] < balances[w][m]
    PROVE  LET record == transfers'[n]
               policy == policies[record.compliance_policy[1]][record.compliance_policy[2]]
           IN  /\ Executed(n)
               /\ record.sender = w
               /\ record.mint = m
               /\ record.amount = balances[w][m] - balances'[w][m]
               /\ HasValidKyc(w, policy.params)
               /\ HasValidKyc(record.receiver, policy.params)
<1> DEFINE params == policies[a.policy[1]][a.policy[2]].params
<1>1. /\ amount \in Nat
      /\ a.sender \in Wallets /\ a.payee \in Wallets /\ a.mint \in Mints
      /\ a.receiver \in Wallets
      /\ a.sender_attestation \in Institutions /\ a.receiver_attestation \in Institutions
  BY TransferInputsAssumption DEF TransferAccounts
<1>2. balances \in [Wallets -> [Mints -> Nat]]
  BY DEF TransferTypeOK
<1> DEFINE debited == Debited(a.sender, a.mint, amount)
<1>3. /\ debited \in [Wallets -> [Mints -> Int]]
      /\ debited[a.sender][a.mint] = balances[a.sender][a.mint] - amount
      /\ (w # a.sender \/ m # a.mint) => debited[w][m] = balances[w][m]
  BY <1>1, <1>2 DEF Debited
<1>4. balances' = [debited EXCEPT ![a.payee][a.mint] = @ + amount]
  BY DEF ExecuteCompliantTransfer, MoveTokens
<1> HIDE DEF debited
<1>5. balances'[w][m] =
         IF w = a.payee /\ m = a.mint THEN debited[w][m] + amount ELSE debited[w][m]
  BY <1>1, <1>3, <1>4
<1>6. w = a.sender /\ m = a.mint /\ amount = balances[w][m] - balances'[w][m]
  BY <1>1, <1>2, <1>3, <1>5
<1>7. /\ HasValidKyc(a.sender, params)
      /\ HasValidKyc(a.receiver, params)
  BY <1>1 DEF ExecuteCompliantTransfer, AccountsExist, Compliant, HasValidKyc
<1>8. /\ transfers[n] = None /\ transfers'[n] # None
      /\ transfers'[n].sender = a.sender /\ transfers'[n].receiver = a.receiver
      /\ transfers'[n].mint = a.mint /\ transfers'[n].amount = amount
      /\ transfers'[n].compliance_policy = a.policy
  BY Recorded
<1> QED BY <1>6, <1>7, <1>8 DEF Executed

(* Tokens leave a wallet only in a compliant, recorded transfer.           *)
THEOREM GateCorrect == Spec => TokensLeaveOnlyThroughTheGate
<1> DEFINE Gated(w, m) ==
       \E n \in Nonces :
          LET record == transfers'[n]
              policy == policies[record.compliance_policy[1]][record.compliance_policy[2]]
          IN  /\ Executed(n)
              /\ record.sender = w
              /\ record.mint = m
              /\ record.amount = balances[w][m] - balances'[w][m]
              /\ HasValidKyc(w, policy.params)
              /\ HasValidKyc(record.receiver, policy.params)
<1>1. ASSUME TypeOK, TransferTypeOK, Next, NEW w \in Wallets, NEW m \in Mints,
             balances'[w][m] < balances[w][m]
      PROVE  Gated(w, m)
  <2>1. balances[w][m] \in Nat
    BY <1>1 DEF TransferTypeOK
  <2>2. ~UNCHANGED balances
    BY <1>1, <2>1
  <2>3. PICK a \in TransferAccounts, n \in Nonces, amount \in Amounts :
           ExecuteCompliantTransfer(a, n, amount)
    BY <1>1, <2>2, Untouched
  <2> QED BY <1>1, <2>3, GateStep
<1>2. TypeOK /\ TransferTypeOK /\ [Next]_vars =>
         [\A w \in Wallets, m \in Mints :
            balances'[w][m] < balances[w][m] => Gated(w, m)]_vars
  BY <1>1
<1> QED BY TypeCorrect, <1>2, PTL DEF Spec, TokensLeaveOnlyThroughTheGate

-----------------------------------------------------------------------------
(* The program implements TransferSettlement.                              *)

(* The terms a travel rule record offers are terms, never None.            *)
LEMMA OfferedTermsOf ==
    ASSUME NEW r \in TravelRuleRecord
    PROVE  /\ OfferedTerms(r) = [amount |-> r.amount, mint |-> r.token_mint]
           /\ OfferedTerms(r) \in TransferTerms
           /\ OfferedTerms(r) # None
<1>1. r # None
  BY TransferNoneAssumption
<1>2. OfferedTerms(r) = [amount |-> r.amount, mint |-> r.token_mint]
  BY <1>1 DEF OfferedTerms
<1>3. OfferedTerms(r) \in TransferTerms
  BY <1>2 DEF TravelRuleRecord, TransferTerms
<1> QED BY <1>2, <1>3, TransferNoneAssumption DEF TransferTerms

(* The initial state maps to the protocol's initial state.                 *)
LEMMA SettlementInitially == ProgramInit => Settlements!SettlementInit
BY DEF ProgramInit, Settlements!SettlementInit, offer, agreed, settled, OfferedTerms

(* A recorded travel rule offers its terms.                                *)
LEMMA RecordOffers ==
    ASSUME TypeOK, TransferTypeOK, NEW k \in Keys, NEW i \in Institutions,
           NEW j \in Institutions, NEW n \in Nonces, NEW w \in Wallets,
           NEW amount \in Amounts, NEW mint \in Mints,
           RecordTravelRule(k, i, j, n, w, amount, mint)
    PROVE  Settlements!Offer(n, [amount |-> amount, mint |-> mint])
<1> DEFINE r == [originator_institution |-> i, beneficiary_institution |-> j,
                 originator_wallet |-> k, beneficiary_wallet |-> w, amount |-> amount,
                 token_mint |-> mint, status |-> TRAVEL_RULE_PENDING]
<1>1. travelRules[n] = None /\ travelRules' = [travelRules EXCEPT ![n] = r]
  BY DEF RecordTravelRule, UnusedNonce
<1>2. /\ r \in TravelRuleRecord
      /\ r.amount = amount /\ r.token_mint = mint
      /\ r.status # TRAVEL_RULE_APPROVED
  BY TravelRuleType DEF TRAVEL_RULE_PENDING, TRAVEL_RULE_APPROVED
<1>3. OfferedTerms(r) = [amount |-> amount, mint |-> mint]
  BY <1>2, OfferedTermsOf
<1> HIDE DEF r
<1>4. travelRules'[n] = r /\ \A m \in Nonces \ {n} : travelRules'[m] = travelRules[m]
  BY <1>1 DEF TransferTypeOK
<1>5. offer[n] = None
  BY <1>1 DEF offer, OfferedTerms
<1>6. offer' = [offer EXCEPT ![n] = [amount |-> amount, mint |-> mint]]
  BY <1>3, <1>4 DEF offer
<1>7. agreed' = agreed
  BY <1>1, <1>2, <1>4 DEF agreed
<1>8. settled' = settled
  BY DEF RecordTravelRule, settled
<1> QED BY <1>5, <1>6, <1>7, <1>8 DEF Settlements!Offer

(* An approval agrees to the offer and leaves its terms alone.             *)
LEMMA ApprovalAgrees ==
    ASSUME TypeOK, TransferTypeOK, NEW k \in Keys, NEW i \in Institutions,
           NEW n \in Nonces, ApproveTravelRule(k, i, n)
    PROVE  Settlements!Agree(n)
<1> DEFINE r == [travelRules[n] EXCEPT !.status = TRAVEL_RULE_APPROVED]
<1>1. travelRules[n] \in TravelRuleRecord
  BY DEF ApproveTravelRule, TransferTypeOK
<1>2. r \in TravelRuleRecord
  BY <1>1, ApprovedType
<1>3. /\ r.amount = travelRules[n].amount /\ r.token_mint = travelRules[n].token_mint
      /\ r.status = TRAVEL_RULE_APPROVED
  BY <1>1 DEF TravelRuleRecord
<1>4. travelRules' = [travelRules EXCEPT ![n] = r]
  BY DEF ApproveTravelRule, TransferTypeOK
<1> HIDE DEF r
<1>5. travelRules'[n] = r /\ \A m \in Nonces \ {n} : travelRules'[m] = travelRules[m]
  BY <1>4 DEF TransferTypeOK
<1>6. OfferedTerms(r) = OfferedTerms(travelRules[n]) /\ OfferedTerms(r) # None
  BY <1>1, <1>2, <1>3, OfferedTermsOf
<1>7. offer[n] # None /\ offer' = offer
  BY <1>5, <1>6 DEF offer
<1>8. n \notin agreed
  BY DEF ApproveTravelRule, agreed, TRAVEL_RULE_APPROVED, TRAVEL_RULE_PENDING
<1>9. r # None
  BY <1>2, TransferNoneAssumption
<1>10. agreed' = agreed \cup {n}
  BY <1>3, <1>5, <1>9 DEF agreed
<1>11. settled' = settled
  BY DEF ApproveTravelRule, settled
<1> QED BY <1>7, <1>8, <1>10, <1>11 DEF Settlements!Agree

(* An executed transfer settles its nonce.                                 *)
LEMMA TransferSettles ==
    ASSUME TypeOK, TransferTypeOK, TracesAgree, NEW a \in TransferAccounts,
           NEW n \in Nonces, NEW amount \in Amounts, ExecuteCompliantTransfer(a, n, amount),
           UNCHANGED travelRules
    PROVE  \E required \in BOOLEAN :
              Settlements!Settle(n, [amount |-> amount, mint |-> a.mint], required)
<1> DEFINE new(required) ==
       [transfer_nonce |-> n, sender |-> a.sender, receiver |-> a.receiver,
        mint |-> a.mint, amount |-> amount, travel_rule_required |-> required]
<1>1. PICK required \in BOOLEAN :
         /\ events' = events \cup {new(required)}
         /\ required => /\ travelRules[n] # None
                        /\ travelRules[n].status = TRAVEL_RULE_APPROVED
                        /\ travelRules[n].amount = amount
                        /\ travelRules[n].token_mint = a.mint
  BY Executes
<1>2. \A s \in settled : s.nonce # n
  <2> TAKE s \in settled
  <2>1. PICK e \in events : s = SettlementOf(e)
    BY DEF settled
  <2>2. s.nonce = e.transfer_nonce
    BY <2>1 DEF SettlementOf
  <2>3. transfers[e.transfer_nonce] # None
    BY DEF TracesAgree, Receipt
  <2> QED BY <2>2, <2>3, Recorded
<1>3. required => n \in agreed /\ offer[n] = [amount |-> amount, mint |-> a.mint]
  BY <1>1 DEF agreed, offer, OfferedTerms
<1>4. SettlementOf(new(required)) =
         [nonce |-> n, terms |-> [amount |-> amount, mint |-> a.mint], required |-> required]
  BY DEF SettlementOf
<1>5. settled' = settled \cup {SettlementOf(new(required))}
  <2> DEFINE e == new(required)
  <2>1. events' = events \cup {e}
    BY <1>1
  <2> HIDE DEF e
  <2>2. settled' = settled \cup {SettlementOf(e)}
    BY <2>1 DEF settled
  <2> QED BY <2>2 DEF e
<1>6. offer' = offer /\ agreed' = agreed
  BY DEF offer, agreed
<1>7. Settlements!Settle(n, [amount |-> amount, mint |-> a.mint], required)
  BY <1>2, <1>3, <1>4, <1>5, <1>6 DEF Settlements!Settle
<1> QED BY <1>7

(* Steps that leave records and events alone map to stutters.              *)
LEMMA SettlementStutters ==
    ASSUME UNCHANGED <<travelRules, events>>
    PROVE  UNCHANGED Settlements!settlementVars
BY DEF Settlements!settlementVars, offer, agreed, settled

(* Every instruction maps to a step of the protocol or to a stutter.       *)
LEMMA SettlementStep ==
    ASSUME TypeOK, TransferTypeOK, TracesAgree, Next
    PROVE  Settlements!SettlementNext \/ UNCHANGED Settlements!settlementVars
<1>1. CASE UNCHANGED <<travelRules, transfers, events, balances>>
  BY <1>1, SettlementStutters
<1>2. ASSUME NEW k \in Keys, NEW i \in Institutions, NEW j \in Institutions,
             NEW n \in Nonces, NEW w \in Wallets, NEW amount \in Amounts, NEW mint \in Mints,
             RecordTravelRule(k, i, j, n, w, amount, mint)
      PROVE  Settlements!SettlementNext
  <2>1. [amount |-> amount, mint |-> mint] \in TransferTerms
    BY DEF TransferTerms
  <2> QED BY <1>2, <2>1, RecordOffers DEF Settlements!SettlementNext
<1>3. ASSUME NEW k \in Keys, NEW i \in Institutions, NEW n \in Nonces,
             ApproveTravelRule(k, i, n)
      PROVE  Settlements!SettlementNext
  BY <1>3, ApprovalAgrees DEF Settlements!SettlementNext
<1>4. ASSUME NEW a \in TransferAccounts, NEW n \in Nonces, NEW amount \in Amounts,
             ExecuteCompliantTransfer(a, n, amount), UNCHANGED travelRules
      PROVE  Settlements!SettlementNext
  <2>1. [amount |-> amount, mint |-> a.mint] \in TransferTerms
    BY DEF TransferTerms, TransferAccounts
  <2> QED BY <1>4, <2>1, TransferSettles DEF Settlements!SettlementNext
<1> QED BY <1>1, <1>2, <1>3, <1>4, Untouched

(* The on-chain program implements the settlement protocol.                *)
THEOREM SettlementImplemented == Spec => ImplementsSettlement
<1>1. TypeOK /\ TransferTypeOK /\ TracesAgree /\ [Next]_vars
         => [Settlements!SettlementNext]_Settlements!settlementVars
  <2>1. UNCHANGED vars => UNCHANGED Settlements!settlementVars
    BY SettlementStutters DEF vars
  <2> QED BY <2>1, SettlementStep
<1> QED BY TypeCorrect, TracesCorrect, SettlementInitially, <1>1, PTL
        DEF Spec, ImplementsSettlement, Settlements!SettlementSpec

-----------------------------------------------------------------------------
(* What the identity half promises, in the whole program.                  *)

(* Nothing the transfer half does closes a cycle of acceptances.           *)
THEOREM ProgramProvenance == Spec => []ProvenanceWellFounded
<1>1. ProgramInit => ProvenanceWellFounded
  BY ProvenanceInit DEF ProgramInit
<1>2. ASSUME TransferNext
      PROVE  UNCHANGED attestations
  <2>1. ASSUME NEW k \in Keys, NEW i \in Institutions
        PROVE  /\ \A p \in PolicyIds, params \in PolicyChoices :
                     SetCompliancePolicy(k, i, p, params) => UNCHANGED attestations
               /\ \A j \in Institutions, n \in Nonces, w \in Wallets,
                     amount \in Amounts, mint \in Mints :
                     RecordTravelRule(k, i, j, n, w, amount, mint) => UNCHANGED attestations
               /\ \A n \in Nonces : ApproveTravelRule(k, i, n) => UNCHANGED attestations
    BY DEF SetCompliancePolicy, RecordTravelRule, ApproveTravelRule, registryVars
  <2>2. ASSUME NEW a \in TransferAccounts, NEW n \in Nonces, NEW amount \in Amounts,
               ExecuteCompliantTransfer(a, n, amount)
        PROVE  UNCHANGED attestations
    BY <2>2 DEF ExecuteCompliantTransfer
  <2> QED BY <1>2, <2>1, <2>2 DEF TransferNext
<1>3. TypeOK /\ ProvenanceWellFounded /\ [Next]_vars => ProvenanceWellFounded'
  <2>1. UNCHANGED attestations /\ ProvenanceWellFounded => ProvenanceWellFounded'
    BY DEF ProvenanceWellFounded
  <2> QED BY <1>2, <2>1, ProvenanceStep DEF Next, vars
<1> QED BY TypeCorrect, <1>1, <1>3, PTL DEF Spec

(* The transfer half counts no institution and no attestation.             *)
LEMMA TransferHalfCountsNothing ==
    ASSUME TypeOK, TypeOK', CountersCoverAccounts, TransferNext
    PROVE  CountersCoverAccounts'
<1>1. AttestationsCounted /\ InstitutionsCounted
  BY CountersAre
<1>2. CASE UNCHANGED <<registry, institutions, attestations>>
  BY <1>1, <1>2, NothingCounted, CountersArePrimed DEF Attested
<1>3. ASSUME NEW a \in TransferAccounts, NEW n \in Nonces, NEW amount \in Amounts,
             ExecuteCompliantTransfer(a, n, amount)
      PROVE  CountersCoverAccounts'
  <2>1. registry \in RegistryAccount
    BY <1>3 DEF ExecuteCompliantTransfer, NotPaused, TypeOK
  <2>2. [registry EXCEPT !.transfer_count = @ + 1] \in RegistryAccount
    BY <1>3, <2>1, CountTransferType DEF ExecuteCompliantTransfer
  <2>3. registry' = [registry EXCEPT !.transfer_count = @ + 1]
    BY <1>3 DEF ExecuteCompliantTransfer
  <2>4. registry'.institution_count = registry.institution_count
    BY <2>1, <2>3 DEF RegistryAccount
  <2>5. registry # None /\ registry' # None
    BY <2>1, <2>2, <2>3, NoneAssumption
  <2>6. UNCHANGED <<institutions, attestations>>
    BY <1>3 DEF ExecuteCompliantTransfer
  <2>7. Registered' = Registered /\ \A i \in Institutions : Attested(i)' = Attested(i)
    BY <2>6 DEF Registered, Attested
  <2>8. AttestationsCounted' /\ InstitutionsCounted'
    BY <1>1, <2>4, <2>5, <2>6, <2>7 DEF AttestationsCounted, InstitutionsCounted
  <2> QED BY <2>8, CountersArePrimed
<1>4. ASSUME NEW k \in Keys, NEW i \in Institutions
      PROVE  /\ \A p \in PolicyIds, params \in PolicyChoices :
                   SetCompliancePolicy(k, i, p, params) =>
                      UNCHANGED <<registry, institutions, attestations>>
             /\ \A j \in Institutions, n \in Nonces, w \in Wallets,
                   amount \in Amounts, mint \in Mints :
                   RecordTravelRule(k, i, j, n, w, amount, mint) =>
                      UNCHANGED <<registry, institutions, attestations>>
             /\ \A n \in Nonces : ApproveTravelRule(k, i, n) =>
                   UNCHANGED <<registry, institutions, attestations>>
  BY DEF SetCompliancePolicy, RecordTravelRule, ApproveTravelRule, registryVars
<1> QED BY <1>2, <1>3, <1>4 DEF TransferNext

(* The counters cover the accounts in the whole program too.               *)
THEOREM ProgramCounters == Spec => []CountersCoverAccounts
<1>1. ProgramInit => CountersCoverAccounts
  BY DEF ProgramInit, Init, CountersCoverAccounts
<1>2. TypeOK /\ TypeOK' /\ CountersCoverAccounts /\ [Next]_vars => CountersCoverAccounts'
  <2>1. UNCHANGED vars /\ CountersCoverAccounts => CountersCoverAccounts'
    BY DEF vars, CountersCoverAccounts
  <2> QED BY <2>1, CountersStep, TransferHalfCountsNothing DEF Next
<1> QED BY TypeCorrect, <1>1, <1>2, PTL DEF Spec

=============================================================================
