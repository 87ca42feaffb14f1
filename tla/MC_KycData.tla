-------------------------------- MODULE MC_KycData --------------------------------
(***************************************************************************)
(* Small instances, for TLC, of what becomes of KYC data: hashed as        *)
(* canonical JSON, disclosed field by field, and attested by the calls of  *)
(* the SDK.  The three share no state: the one that moves first goes on    *)
(* alone.                                                                  *)
(***************************************************************************)
EXTENDS CanonicalJson, SelectiveDisclosure, SdkClient, TLC

SomeOrder == <<"fullName", "name", "nationality">>

Str    == [type |-> "string", of |-> "a"]
Date   == [type |-> "date", of |-> "a"]
Yes    == [type |-> "boolean", of |-> "true"]
Undef  == [type |-> "undefined", of |-> ""]
Fun    == [type |-> "function", of |-> ""]
Symbol == [type |-> "symbol", of |-> ""]
NaN    == [type |-> "number", of |-> "NaN"]

List(items) == [type |-> "array", of |-> items]
Obj(pairs)  == [type |-> "object", of |-> pairs]

\* Two objects, and two objects of these, that say the same in different orders and words.
Name1 == Obj(<< <<"name", Yes>>, <<"fullName", Date>> >>)
Name2 == Obj(<< <<"fullName", Str>>, <<"nationality", Symbol>>, <<"name", Yes>> >>)
Card1 == Obj(<< <<"nationality", Name1>>, <<"name", List(<<Fun>>)>> >>)
Card2 == Obj(<< <<"name", List(<<Undef>>)>>, <<"fullName", Undef>>, <<"nationality", Name2>> >>)

SomeAssigned == {Str, Undef, Fun, NaN, Card1, Card2}

SomeValues ==
    SomeAssigned \cup {Date, Yes, Symbol, List(<<Fun>>), List(<<Undef>>), Name1, Name2}

\* Trees of three, five and seven leaves.
SomePii ==
    {[fullName |-> "a"], [dateOfBirth |-> "a"], [fullName |-> "a", addressCountry |-> "b"],
     [fullName |-> "a", addressCountry |-> "b", dateOfBirth |-> "c", nationality |-> "d"]}

SomeLists ==
    {<<"kycLevel">>, <<"fullName", "jurisdiction", "fullName">>,
     <<"dateOfBirth", "kycLevel">>, <<"entityType">>, <<>>}

\* Either one entity, its acceptances and proofs, or two entities of i1.
DisclosureFocus ==
    LET own == {e \in Holders \X Persons : entity[e] # Nothing /\ ~entity[e].accepted}
        more == {e \in Holders \X Persons : entity[e] # Nothing /\ entity[e].accepted}
    IN  /\ own \subseteq {"i1"} \X Persons
        /\ Cardinality(own) = 2 =>
              /\ more = {} /\ changes = 0
              /\ \A e \in Holders \X Persons : onChainHash[e] = Nothing
              /\ \A d \in Disclosures : disclosure[d].step = "idle"

\* A nonce or an id that the caller chose.
Own(name) == <<"own", name>>

\* A request, in which the parameters not given are absent.
Request(method, given) ==
    given @@ [method |-> method, institution |-> "i1", other |-> "i2", wallet |-> "w2",
              sender |-> "w1", policyId |-> Own("q1"), proofIdentifier |-> "p1", mint |-> "m1",
              travelRuleNonce |-> Absent, key |-> Absent]

SomeRequests ==
    {Request(method, <<>>) : method \in
        {"initializeRegistry", "registerInstitution", "revokeKycAttestation", "updateRiskScore",
         "setCompliancePolicy", "recordTravelRule", "addTrustedInstitution", "recordZkProof",
         "removeTrustedInstitution", "initializeTransferHook", "initializeCivicTransferHook",
         "executeCompliantTransfer"}}
    \cup {Request("executeCompliantTransfer", [key |-> Own("n1")]),
          Request("executeCompliantTransfer", [key |-> Own("n2"), travelRuleNonce |-> Own("n1")]),
          Request("recordTravelRule", [key |-> Own("n1")]),
          Request("approveTravelRule", [travelRuleNonce |-> Own("n1")]),
          Request("createKycAttestation", [wallet |-> "w3"]),
          Request("acceptExternalAttestation", [wallet |-> "w3"]),
          Request("registerInstitution", [institution |-> "i3"])}

\* Two institutions, with attestations of three wallets, and a policy.
SomeAccounts ==
    {RegistryPDA, InstitutionPDA("i1"), InstitutionPDA("i2"),
     KycAttestationPDA(InstitutionPDA("i1"), "w1"), KycAttestationPDA(InstitutionPDA("i2"), "w2"),
     KycAttestationPDA(InstitutionPDA("i2"), "w3"), PolicyPDA(InstitutionPDA("i1"), Own("q1")),
     TrustNetworkPDA(InstitutionPDA("i1"))}

KycDataSymmetry == Permutations(Sides) \cup Permutations(Persons) \cup Permutations(Callers)

KycDataInit == JsonInit /\ DisclosureInit /\ SdkInit

KycDataNext ==
    \/ DisclosureInit /\ SdkInit /\ JsonNext /\ UNCHANGED <<disclosureVars, sdkVars>>
    \/ JsonInit /\ SdkInit /\ DisclosureNext /\ DisclosureFocus' /\ UNCHANGED <<jsonVars, sdkVars>>
    \/ JsonInit /\ DisclosureInit /\ SdkNext /\ UNCHANGED <<jsonVars, disclosureVars>>

KycDataSpec == KycDataInit /\ [][KycDataNext]_<<jsonVars, disclosureVars, sdkVars>>
=============================================================================
