--------------------------- MODULE SelectiveDisclosure ---------------------------
(***************************************************************************)
(* Selective disclosure of KYC fields: an entity's row keeps the root of a *)
(* Merkle tree over its fields, the API proves single fields from the row  *)
(* as it is when asked, the SDK verifies such proofs, and it also writes   *)
(* the KYC hash of an attestation on chain.                                *)
(*                                                                         *)
(* The API and the SDK hold the tree's code twice; it is translated once.  *)
(* A digest is its preimage, tagged by its domain: a leaf, an inner node,  *)
(* or canonical JSON.  Encryption of the fields at rest is KeyManager's.   *)
(***************************************************************************)
EXTENDS Integers, Sequences, SequencesExt, OrderedNames

CONSTANTS
    Holders,        \* institutions with entities, strings
    Persons,        \* wallets
    PiiChoices,     \* what an entity may be created with: field |-> value
    KycLevels,      \* a subset of 0..3
    FieldLists,     \* field names asked for, sequences of strings
    OtherValue,     \* a value no field has
    Disclosures,    \* requests for a proof
    MaxChanges,     \* changes of level, in one behaviour
    Nothing

\* SORTED_KYC_FIELD_NAMES: the order of the leaves.
FieldNames ==
    <<"addressCity", "addressCountry", "addressLine1", "attestingInstitution",
      "dateOfBirth", "entityType", "fullName", "governmentIdHash",
      "governmentIdType", "jurisdiction", "kycLevel", "nationality">>

PrivateFields == ToSet(FieldNames) \ {"attestingInstitution", "entityType", "jurisdiction", "kycLevel"}

ASSUME ChoicesArePrivate ==
    \A pii \in PiiChoices : DOMAIN pii \subseteq PrivateFields

ASSUME LevelsAreSmall == KycLevels \subseteq 0..3 /\ MaxChanges \in Nat

ASSUME NamesAreSequences == \A names \in FieldLists : names \in Seq(ToSet(names))

\* OtherValue is no value of a field, public or private.
ASSUME OthersAreOther ==
    /\ \A pii \in PiiChoices : \A name \in DOMAIN pii : pii[name] # OtherValue
    /\ OtherValue \notin Holders \cup {"0", "1", "2", "3"}

VARIABLES
    entity,         \* entity[<<i, w>>]: the row of institution i for wallet w
    onChainHash,    \* onChainHash[<<i, w>>]: kyc_hash of the attestation
    disclosure,     \* disclosure[d]: the step, what is asked, the row read, the answer
    changes

disclosureVars == <<entity, onChainHash, disclosure, changes>>

\* createdAt: the level at the row's creation, nothing the code stores.
DisclosureInit ==
    /\ entity = [e \in Holders \X Persons |-> Nothing]
    /\ onChainHash = [e \in Holders \X Persons |-> Nothing]
    /\ disclosure = [d \in Disclosures |->
          [step |-> "idle", of |-> Nothing, names |-> <<>>, row |-> Nothing, answer |-> Nothing]]
    /\ changes = 0
-----------------------------------------------------------------------------
(* The tree: leaves sorted by name, an odd node paired with itself.        *)

\* A mutant of HashLeaf: the name is left out.
HashLeafUnnamed(fieldName, fieldValue) == <<"leaf", "", fieldValue>>

HashLeaf(fieldName, fieldValue) == <<"leaf", fieldName, fieldValue>>

HashInternal(left, right) == <<"node", left, right>>

Leaves(fields) ==
    LET names == InOrder(FieldNames, DOMAIN fields)
    IN  [n \in DOMAIN names |-> HashLeaf(names[n], fields[names[n]])]

\* The i-th node from 0, or the one before it when the level ends there.
NodeOr(level, i, other) == level[(IF i < Len(level) THEN i ELSE other) + 1]

NextLevel(level) ==
    [n \in 1..((Len(level) + 1) \div 2) |->
        HashInternal(level[2*n - 1], NodeOr(level, 2*n - 1, 2*n - 2))]

\* Level after level, from the leaves at 0: more of them than any tree has.
Levels(leaves) ==
    LET level[h \in 0..Len(leaves)] == IF h = 0 THEN leaves ELSE NextLevel(level[h - 1])
    IN  level

\* The loop ends at the first level of one hash.
Height(leaves) ==
    CHOOSE h \in 0..Len(leaves) :
        /\ Len(Levels(leaves)[h]) = 1
        /\ \A l \in 0..h - 1 : Len(Levels(leaves)[l]) > 1

\* The levels of the tree, from the leaves up.
BuildKycMerkleTree(fields) ==
    LET leaves == Leaves(fields)
    IN  [n \in 1..Height(leaves) + 1 |-> Levels(leaves)[n - 1]]

GetMerkleRoot(tree) == tree[Len(tree)][1]

\* A mutant of Sibling: every node is taken for a left one.
SiblingAfter(level, i) == [hash |-> NodeOr(level, i + 1, i), position |-> "right"]

Sibling(level, i) ==
    IF i % 2 = 1 THEN [hash |-> level[i], position |-> "left"]
    ELSE [hash |-> NodeOr(level, i + 1, i), position |-> "right"]

\* The index of a leaf's ancestor in every level.
Indices(tree, leafIndex) ==
    LET index[h \in 1..Len(tree)] == IF h = 1 THEN leafIndex ELSE index[h - 1] \div 2
    IN  index

CollectSiblings(tree, leafIndex) ==
    [h \in 1..Len(tree) - 1 |-> Sibling(tree[h], Indices(tree, leafIndex)[h])]

\* Any name without a leaf makes it throw; names repeated get an item each.
GenerateProof(fields, names) ==
    LET tree   == BuildKycMerkleTree(fields)
        leaves == tree[1]
        leafOf(name) == CHOOSE n \in DOMAIN leaves : leaves[n] = HashLeaf(name, fields[name])
    IN  [root |-> GetMerkleRoot(tree),
         items |-> [n \in DOMAIN names |->
            [fieldName |-> names[n], fieldValue |-> fields[names[n]],
             leafHash |-> leaves[leafOf(names[n])],
             siblings |-> CollectSiblings(tree, leafOf(names[n]) - 1)]]]

Combined(hash, sibling) ==
    IF sibling.position = "left" THEN HashInternal(sibling.hash, hash)
    ELSE HashInternal(hash, sibling.hash)

\* The hash after every sibling of the path.
Walk(leafHash, siblings) ==
    LET hash[n \in 0..Len(siblings)] == IF n = 0 THEN leafHash ELSE Combined(hash[n - 1], siblings[n])
    IN  hash

\* verifyProof of the SDK.
VerifyProof(root, proof, fields) ==
    /\ proof.items # <<>>
    /\ \A item \in ToSet(proof.items) :
        /\ item.fieldName \in DOMAIN fields
        /\ HashLeaf(item.fieldName, fields[item.fieldName]) = item.leafHash
        /\ root = Walk(item.leafHash, item.siblings)[Len(item.siblings)]
-----------------------------------------------------------------------------
(* entity.service: the fields of a row, when created and when proved.      *)

LevelText(level) == <<"0", "1", "2", "3">>[level + 1]

WithPublicFields(pii, level, institution) ==
    [name \in DOMAIN pii \cup {"kycLevel", "attestingInstitution"}
                \cup (IF "addressCountry" \in DOMAIN pii THEN {"jurisdiction"} ELSE {}) |->
        IF name = "kycLevel" THEN LevelText(level)
        ELSE IF name = "attestingInstitution" THEN institution
        ELSE IF name = "jurisdiction" THEN pii["addressCountry"]
        ELSE pii[name]]

BuildKycFieldMap(pii, level, institution) == WithPublicFields(pii, level, institution)

\* A mutant of RowFieldMap: the attesting institution is not among the fields.
RowFieldMapAnonymous(row) ==
    LET fields == WithPublicFields(row.pii, row.kycLevel, row.institution)
    IN  [name \in DOMAIN fields \ {"attestingInstitution"} |-> fields[name]]

\* Rebuilt from the row by other lines, which must name the same fields.
RowFieldMap(row) == WithPublicFields(row.pii, row.kycLevel, row.institution)

\* The roots of fields an institution can give, and a row.
Roots ==
    {GetMerkleRoot(BuildKycMerkleTree(BuildKycFieldMap(pii, level, i))) :
        pii \in PiiChoices, level \in KycLevels, i \in Holders}

Rows ==
    [institution : Holders, kycLevel : KycLevels, pii : PiiChoices \cup {<<>>},
     accepted : BOOLEAN, createdAt : KycLevels, kycHash : Roots]

ASSUME NothingIsNoRow == Nothing \notin Rows

CreateEntity(i, w, pii, level) ==
    /\ entity[<<i, w>>] = Nothing
    /\ entity' = [entity EXCEPT ![<<i, w>>] =
          [institution |-> i, kycLevel |-> level, pii |-> pii, accepted |-> FALSE, createdAt |-> level,
           kycHash |-> GetMerkleRoot(BuildKycMerkleTree(BuildKycFieldMap(pii, level, i)))]]
    /\ UNCHANGED <<onChainHash, disclosure, changes>>

\* Level and hash are copied, no PII.  When j is accepted is EntityLifecycle's.
AcceptExternalEntity(i, j, w) ==
    /\ i # j /\ entity[<<i, w>>] = Nothing /\ entity[<<j, w>>] # Nothing
    /\ entity' = [entity EXCEPT ![<<i, w>>] =
          [institution |-> i, kycLevel |-> entity[<<j, w>>].kycLevel, pii |-> <<>>, accepted |-> TRUE,
           createdAt |-> entity[<<j, w>>].kycLevel, kycHash |-> entity[<<j, w>>].kycHash]]
    /\ UNCHANGED <<onChainHash, disclosure, changes>>

\* updateEntity and Sumsub's review; the hash stays.
SetKycLevel(i, w, level) ==
    /\ changes < MaxChanges
    /\ entity[<<i, w>>] # Nothing /\ entity[<<i, w>>].kycLevel # level
    /\ entity' = [entity EXCEPT ![<<i, w>>].kycLevel = level]
    /\ changes' = changes + 1
    /\ UNCHANGED <<onChainHash, disclosure>>

\* hashKycData: canonical JSON of the PII fields, see CanonicalJson.
HashKycData(pii) == <<"json", 1, pii>>

\* PayClearClient.createKycAttestation, called with the entity's KYC data.
CreateKycAttestationOnChain(i, w) ==
    /\ entity[<<i, w>>] # Nothing /\ ~entity[<<i, w>>].accepted /\ onChainHash[<<i, w>>] = Nothing
    /\ onChainHash' = [onChainHash EXCEPT ![<<i, w>>] = HashKycData(entity[<<i, w>>].pii)]
    /\ UNCHANGED <<entity, disclosure, changes>>
-----------------------------------------------------------------------------
(* GET /v1/entities/:wallet/proof.                                         *)

AskForProof(d, i, w, names) ==
    /\ disclosure[d].step = "idle"
    /\ disclosure' = [disclosure EXCEPT ![d].of = <<i, w>>, ![d].names = names,
          ![d].step = IF names = <<>> THEN "refused" ELSE "reading"]
    /\ UNCHANGED <<entity, onChainHash, changes>>

ReadEntity(d) ==
    LET row == entity[disclosure[d].of]
    IN  /\ disclosure[d].step = "reading"
        /\ disclosure' = [disclosure EXCEPT ![d].row = row,
              ![d].step = IF row = Nothing THEN "refused" ELSE "decrypting"]
        /\ UNCHANGED <<entity, onChainHash, changes>>

\* After the key: tree, proof and answer in one turn, from the row read.
GenerateDisclosureProof(d) ==
    LET fields == RowFieldMap(disclosure[d].row)
        names  == disclosure[d].names
    IN  /\ disclosure[d].step = "decrypting"
        /\ ToSet(names) \subseteq DOMAIN fields
        /\ disclosure' = [disclosure EXCEPT ![d].step = "answered", ![d].answer =
              [merkleRoot |-> GetMerkleRoot(BuildKycMerkleTree(fields)),
               disclosedFields |-> [name \in ToSet(names) |-> fields[name]],
               proof |-> GenerateProof(fields, names)]]
        /\ UNCHANGED <<entity, onChainHash, changes>>

\* A name without a leaf, or a key that cannot be had.
DisclosureFails(d) ==
    /\ disclosure[d].step \in {"reading", "decrypting"}
    /\ disclosure' = [disclosure EXCEPT ![d].step = "refused"]
    /\ UNCHANGED <<entity, onChainHash, changes>>

DisclosureNext ==
    \/ \E i \in Holders, w \in Persons :
        \/ \E pii \in PiiChoices, level \in KycLevels : CreateEntity(i, w, pii, level)
        \/ \E j \in Holders : AcceptExternalEntity(i, j, w)
        \/ \E level \in KycLevels : SetKycLevel(i, w, level)
        \/ CreateKycAttestationOnChain(i, w)
        \/ \E d \in Disclosures, names \in FieldLists : AskForProof(d, i, w, names)
    \/ \E d \in Disclosures :
        ReadEntity(d) \/ GenerateDisclosureProof(d) \/ DisclosureFails(d)

DisclosureSpec == DisclosureInit /\ [][DisclosureNext]_disclosureVars
-----------------------------------------------------------------------------
Answered == {d \in Disclosures : disclosure[d].step = "answered"}

(* A proof the API answers verifies under its own root for the values it   *)
(* discloses, in a tree of any shape, and for no other value of any of     *)
(* them; the row may have changed since it was read.                       *)
ProofsVerify ==
    \A d \in Answered :
        LET answer == disclosure[d].answer
        IN  /\ VerifyProof(answer.merkleRoot, answer.proof, answer.disclosedFields)
            /\ \A name \in ToSet(disclosure[d].names) :
                  ~VerifyProof(answer.merkleRoot, answer.proof,
                               [answer.disclosedFields EXCEPT ![name] = OtherValue])

(* A root commits to one set of fields: two rows of the same root were     *)
(* created of the same fields and values, and a proof that verifies under  *)
(* a row's hash was made of the fields and values of that row, whichever   *)
(* row was read for it and however it has changed since.                   *)
RootsCommit ==
    LET own == {e \in Holders \X Persons : entity[e] # Nothing /\ ~entity[e].accepted}
        fieldsOf(e) == BuildKycFieldMap(entity[e].pii, entity[e].createdAt, entity[e].institution)
    IN  /\ \A e, f \in own : entity[e].kycHash = entity[f].kycHash => fieldsOf(e) = fieldsOf(f)
        /\ \A d \in Answered, e \in own :
              VerifyProof(entity[e].kycHash, disclosure[d].answer.proof,
                          disclosure[d].answer.disclosedFields)
                => RowFieldMap(disclosure[d].row) = fieldsOf(e)

(* A proof is one against the row's stored hash exactly when the row was   *)
(* created from its own fields and had the level of its creation when it   *)
(* was read: a change of level, or an acceptance without PII, breaks it,   *)
(* and a level that is set back mends it.                                  *)
StoredHashHoldsAtItsLevel ==
    \A d \in Answered :
        LET row == disclosure[d].row
        IN  VerifyProof(row.kycHash, disclosure[d].answer.proof, disclosure[d].answer.disclosedFields)
              <=> ~row.accepted /\ row.kycLevel = row.createdAt

(* The root the API answers is the one on chain, where there is one.       *)
RootIsOnChain ==
    \A d \in Answered : onChainHash[disclosure[d].of] # Nothing =>
        disclosure[d].answer.merkleRoot = onChainHash[disclosure[d].of]
=============================================================================
