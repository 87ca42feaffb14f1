-------------------------------- MODULE SdkClient --------------------------------
(***************************************************************************)
(* PayClearClient of the SDK: every method derives the addresses of its    *)
(* accounts, sends one instruction and waits for its confirmation.  A      *)
(* method that throws may leave a transaction under way, which can still   *)
(* be executed after the caller tried again.                               *)
(*                                                                         *)
(* Of the program only this is used: the accounts an instruction needs     *)
(* exist, and one that it initialises does not.  Its other conditions are  *)
(* AttestationRegistry's and CompliantTransfers', here a reason to lapse.  *)
(***************************************************************************)
EXTENDS Integers, FiniteSets

CONSTANTS
    Callers,        \* users of the SDK
    Requests,       \* what a caller may ask for: records, see Instruction
    Deployed,       \* addresses of accounts there are from the start
    MaxTries,       \* calls of a method with the same parameters
    Absent          \* an optional parameter that is not given

ASSUME TriesArePositive == MaxTries \in Nat \ {0}
-----------------------------------------------------------------------------
(* Program-derived addresses: their seeds.                                 *)

RegistryPDA == <<"registry">>
InstitutionPDA(id) == <<"institution", id>>
KycAttestationPDA(institution, wallet) == <<"kyc", institution, wallet>>
PolicyPDA(institution, policyId) == <<"policy", institution, policyId>>
TravelRulePDA(nonce) == <<"travel_rule", nonce>>
TransferPDA(nonce) == <<"transfer", nonce>>
ExtraAccountMetaListPDA(mint) == <<"extra-account-metas", mint>>
TrustNetworkPDA(institution) == <<"trust_network", institution>>
ZkProofPDA(institution, wallet, id) == <<"zk_proof", institution, wallet, id>>

\* An instruction: the accounts that must exist, and what it makes of one
\* that it initialises always (init) or where it is missing (open).
Needing(needs) == [needs |-> needs, init |-> {}, open |-> {}]
Creating(needs, address) == [needs |-> needs, init |-> {address}, open |-> {}]
Opening(needs, address) == [needs |-> needs, init |-> {}, open |-> {address}]
-----------------------------------------------------------------------------
(* The methods.  r.institution and the like are the parameters; key is the *)
(* nonce or the policy's id.                                               *)

InitializeRegistryCall == Creating({}, RegistryPDA)

RegisterInstitutionCall(r) == Creating({RegistryPDA}, InstitutionPDA(r.institution))

CreateKycAttestationCall(r) ==
    LET i == InstitutionPDA(r.institution)
    IN  Creating({RegistryPDA, i}, KycAttestationPDA(i, r.wallet))

RevokeKycAttestationCall(r) ==
    LET i == InstitutionPDA(r.institution)
    IN  Needing({i, KycAttestationPDA(i, r.wallet)})

UpdateRiskScoreCall(r) ==
    LET i == InstitutionPDA(r.institution)
    IN  Needing({i, KycAttestationPDA(i, r.wallet)})

SetCompliancePolicyCall(r, policyId) ==
    LET i == InstitutionPDA(r.institution)
    IN  Opening({i}, PolicyPDA(i, policyId))

RecordTravelRuleCall(r, nonce) ==
    Creating({InstitutionPDA(r.institution), InstitutionPDA(r.other)}, TravelRulePDA(nonce))

ApproveTravelRuleCall(r) ==
    Needing({InstitutionPDA(r.institution), TravelRulePDA(r.travelRuleNonce)})

\* The sender is the client's own wallet.
ExecuteCompliantTransferCall(r, nonce) ==
    LET i == InstitutionPDA(r.institution)
        j == InstitutionPDA(r.other)
    IN  Creating({RegistryPDA, KycAttestationPDA(i, r.sender), KycAttestationPDA(j, r.wallet),
                  PolicyPDA(i, r.policyId)}
                   \cup (IF r.travelRuleNonce = Absent THEN {} ELSE {TravelRulePDA(r.travelRuleNonce)}),
                 TransferPDA(nonce))

AddTrustedInstitutionCall(r) ==
    LET i == InstitutionPDA(r.institution)
    IN  Opening({i, InstitutionPDA(r.other)}, TrustNetworkPDA(i))

RemoveTrustedInstitutionCall(r) ==
    LET i == InstitutionPDA(r.institution)
    IN  Needing({i, TrustNetworkPDA(i)})

AcceptExternalAttestationCall(r) ==
    LET i == InstitutionPDA(r.institution)
        j == InstitutionPDA(r.other)
    IN  Creating({RegistryPDA, i, j, TrustNetworkPDA(i), KycAttestationPDA(j, r.wallet)},
                 KycAttestationPDA(i, r.wallet))

RecordZkProofCall(r) ==
    LET i == InstitutionPDA(r.institution)
    IN  Creating({i}, ZkProofPDA(i, r.wallet, r.proofIdentifier))

\* Both kinds of hook have their accounts under one address.
InitializeTransferHookCall(r) ==
    Creating({PolicyPDA(InstitutionPDA(r.institution), r.policyId)}, ExtraAccountMetaListPDA(r.mint))

InitializeCivicTransferHookCall(r) ==
    Creating({PolicyPDA(InstitutionPDA(r.institution), r.policyId)}, ExtraAccountMetaListPDA(r.mint))

Instruction(r, key) ==
    CASE r.method = "initializeRegistry"          -> InitializeRegistryCall
      [] r.method = "registerInstitution"         -> RegisterInstitutionCall(r)
      [] r.method = "createKycAttestation"        -> CreateKycAttestationCall(r)
      [] r.method = "revokeKycAttestation"        -> RevokeKycAttestationCall(r)
      [] r.method = "updateRiskScore"             -> UpdateRiskScoreCall(r)
      [] r.method = "setCompliancePolicy"         -> SetCompliancePolicyCall(r, key)
      [] r.method = "recordTravelRule"            -> RecordTravelRuleCall(r, key)
      [] r.method = "approveTravelRule"           -> ApproveTravelRuleCall(r)
      [] r.method = "executeCompliantTransfer"    -> ExecuteCompliantTransferCall(r, key)
      [] r.method = "addTrustedInstitution"       -> AddTrustedInstitutionCall(r)
      [] r.method = "removeTrustedInstitution"    -> RemoveTrustedInstitutionCall(r)
      [] r.method = "acceptExternalAttestation"   -> AcceptExternalAttestationCall(r)
      [] r.method = "recordZkProof"               -> RecordZkProofCall(r)
      [] r.method = "initializeTransferHook"      -> InitializeTransferHookCall(r)
      [] r.method = "initializeCivicTransferHook" -> InitializeCivicTransferHookCall(r)
-----------------------------------------------------------------------------
Methods ==
    {"initializeRegistry", "registerInstitution", "createKycAttestation", "revokeKycAttestation",
     "updateRiskScore", "setCompliancePolicy", "recordTravelRule", "approveTravelRule",
     "executeCompliantTransfer", "addTrustedInstitution", "removeTrustedInstitution",
     "acceptExternalAttestation", "recordZkProof", "initializeTransferHook",
     "initializeCivicTransferHook"}

ASSUME RequestsNameMethods == \A r \in Requests : r.method \in Methods

VARIABLES
    caller,         \* caller[c]: the step, the request, and the calls made so far
    flying,         \* transactions that can still be executed
    executed,       \* transactions that were
    accounts        \* addresses of accounts

sdkVars == <<caller, flying, executed, accounts>>

SdkInit ==
    /\ caller = [c \in Callers |-> [step |-> "idle", request |-> Absent, try |-> 0]]
    /\ flying = {} /\ executed = {}
    /\ accounts = Deployed

\* The transaction of a try of c.
Of(c, try) == {tx \in flying \cup executed : tx.by = c /\ tx.try = try}

\* generateNonce: 32 random bytes, like no others.
GenerateNonce(c, try) == <<"random", c, try>>

\* A mutant of KeyOf: the key given is not looked at.
KeyAlwaysGenerated(r, c, try) == GenerateNonce(c, try)

KeyOf(r, c, try) == IF r.key = Absent THEN GenerateNonce(c, try) ELSE r.key

\* The first call, or a call again after one that threw.
CallMethod(c, r) ==
    LET try == caller[c].try + 1
    IN  /\ \/ caller[c].step = "idle"
           \/ caller[c].step = "threw" /\ r = caller[c].request /\ try <= MaxTries
        /\ caller' = [caller EXCEPT ![c] = [step |-> "waiting", request |-> r, try |-> try]]
        /\ flying' = flying \cup {[by |-> c, try |-> try, key |-> KeyOf(r, c, try),
                                   instruction |-> Instruction(r, KeyOf(r, c, try))]}
        /\ UNCHANGED <<executed, accounts>>

\* The order of transactions is the cluster's, not that of the calls.
Execute(tx) ==
    /\ tx.instruction.needs \subseteq accounts
    /\ tx.instruction.init \cap accounts = {}
    /\ accounts' = accounts \cup tx.instruction.init \cup tx.instruction.open
    /\ executed' = executed \cup {tx}
    /\ flying' = flying \ {tx}
    /\ UNCHANGED caller

\* Refused by the program, lost, or older than its blockhash may be.
Lapse(tx) ==
    /\ flying' = flying \ {tx}
    /\ UNCHANGED <<caller, executed, accounts>>

\* A mutant of Confirmed: sent is taken for confirmed.
ConfirmedWhenSent(c) == Of(c, caller[c].try) # {}

Confirmed(c) == Of(c, caller[c].try) \cap executed # {}

\* rpc() answers: the signature, with the nonce and the record's address.
Return(c) ==
    /\ caller[c].step = "waiting" /\ Confirmed(c)
    /\ caller' = [caller EXCEPT ![c].step = "returned"]
    /\ UNCHANGED <<flying, executed, accounts>>

\* Simulation fails, the confirmation times out, the node is unreachable.
Throw(c) ==
    /\ caller[c].step = "waiting"
    /\ caller' = [caller EXCEPT ![c].step = "threw"]
    /\ UNCHANGED <<flying, executed, accounts>>

SdkNext ==
    \/ \E c \in Callers : Return(c) \/ Throw(c) \/ \E r \in Requests : CallMethod(c, r)
    \/ \E tx \in flying : Execute(tx) \/ Lapse(tx)

SdkSpec == SdkInit /\ [][SdkNext]_sdkVars
-----------------------------------------------------------------------------
\* The tries of c that went through.
Executions(c) == {tx \in executed : tx.by = c}

(* A request that initialises an account is carried out once at most when  *)
(* its caller chose the key, or when the address follows from what it      *)
(* asks: a retry after a lost answer, and the first transaction executed   *)
(* late, never move tokens or attest a second time.                        *)
OnceUnderItsKey ==
    \A c \in Callers :
        (caller[c].request # Absent
           /\ (caller[c].request.key # Absent
                 \/ caller[c].request.method \notin {"executeCompliantTransfer", "recordTravelRule"}))
          => Cardinality({tx \in Executions(c) : tx.instruction.init # {}}) <= 1

(* No account is initialised twice, by whichever callers and methods, and  *)
(* what a method returns is true: its own transaction was executed, and    *)
(* the account it names is there.                                          *)
ReturnedIsExecuted ==
    /\ \A t, u \in executed : t # u => t.instruction.init \cap u.instruction.init = {}
    /\ \A c \in Callers : caller[c].step = "returned" =>
          \E tx \in Executions(c) :
              tx.try = caller[c].try /\ tx.instruction.init \cup tx.instruction.open \subseteq accounts
=============================================================================
