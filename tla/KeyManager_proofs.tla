---------------------------- MODULE KeyManager_proofs ----------------------------
(***************************************************************************)
(* Theorems about KeyManager: whatever the number of requests, and         *)
(* whatever fails, expires or crashes between their steps, the cache hands *)
(* out live keys only and every stored row is under one key.               *)
(***************************************************************************)
EXTENDS KeyManager, TLAPS

(* What a call has and holds, by the step it is at.                        *)
CallInv(c) ==
    LET me == calls[c]
    IN  /\ me.step \in {"new", "fetching"} => buffers[c] = None
        /\ me.step \in {"fetching", "storing key", "auditing", "using"} =>
              me.institution \in Institutions
        /\ me.step = "storing key" =>
              /\ me.op = "createInstitution" /\ buffers[c] = me.institution
              /\ institutionRows[me.institution] # None
        /\ me.step = "auditing" =>
              /\ institutionRows[me.institution] # None
              /\ institutionRows[me.institution].encryptedDek # None
        /\ me.step \in {"fetching", "using"} =>
              /\ me.op \in {"createEntity", "getEntity"} /\ me.wallet \in Wallets
        /\ me.step = "using" =>
              me.held \in Calls /\ buffers[me.held] \in {me.institution, Zero}

(* What is cached for an institution was made by one of its own calls.     *)
CacheInv(i) ==
    cache[i] # None =>
        /\ calls[cache[i]].step \notin {"new", "fetching", "storing key"}
        /\ calls[cache[i]].institution = i

(* What is in memory, and so lost in a crash.                              *)
MemoryInv ==
    /\ \A c \in Calls : CallInv(c)
    /\ \A i \in Institutions : CacheInv(i)
    /\ CacheHoldsTheLiveKeys
    /\ ZeroedInUseOnlyByOverlap

KeyInv ==
    /\ KeyTypeOK
    /\ MemoryInv
    /\ RowsUnderOneKey
    /\ ApiKeyImpliesDek

-----------------------------------------------------------------------------
(* What encryptEntityPii returns, and that the key it used reads it back.  *)
LEMMA EncryptedReadsBack ==
    ASSUME NEW present \in SUBSET PiiFields, NEW key \in Institutions \cup {Zero}
    PROVE  /\ EncryptEntityPii(present, key) \in EncryptedPii
           /\ DecryptEntityPii(EncryptEntityPii(present, key), key)
BY DEF EncryptEntityPii, EncryptedPii, Ciphertext, EncryptField, DecryptEntityPii, DecryptFails

(* A call that only moves on keeps everything else it knows.               *)
LEMMA GoesType ==
    ASSUME KeyTypeOK, NEW c \in Calls, NEW step \in Steps, Goes(c, step)
    PROVE  /\ calls' \in [Calls -> CallRecord]
           /\ calls'[c] = [calls[c] EXCEPT !.step = step]
           /\ \A d \in Calls \ {c} : calls'[d] = calls[d]
BY DEF Goes, KeyTypeOK, CallRecord

(* A call that asks for its key: a hit holds the cached buffer itself.     *)
LEMMA GetDekType ==
    ASSUME KeyTypeOK, NEW c \in Calls, NEW call \in CallRecord,
           call.institution \in Institutions, GetDek(c, call)
    PROVE  /\ calls' \in [Calls -> CallRecord]
           /\ \A d \in Calls \ {c} : calls'[d] = calls[d]
           /\ calls'[c].op = call.op /\ calls'[c].institution = call.institution
           /\ calls'[c].wallet = call.wallet
           /\ \/ /\ cache[call.institution] # None
                 /\ calls'[c].step = "using" /\ calls'[c].held = cache[call.institution]
              \/ calls'[c].step = "fetching"
<1>1. cache[call.institution] \in Calls \cup {None}
  BY DEF KeyTypeOK
<1> QED
  BY <1>1 DEF GetDek, KeyTypeOK, CallRecord, Steps

(* What CacheKey does to the buffers and to the cache.                     *)
LEMMA CacheKeyType ==
    ASSUME KeyTypeOK, NEW c \in Calls, NEW i \in Institutions, CacheKey(c, i)
    PROVE  /\ buffers' \in [Calls -> Institutions \cup {Zero, None}]
           /\ cache' \in [Institutions -> Calls \cup {None}]
           /\ cache'[i] = c /\ buffers'[c] = i
           /\ \A j \in Institutions \ {i} : cache'[j] = cache[j]
           /\ \A b \in Calls \ {c} : buffers'[b] = IF b = cache[i] THEN Zero ELSE buffers[b]
BY DEF CacheKey, KeyTypeOK

(* A request that finds a key starts; both do so in the same way.          *)
LEMMA StartsWithKey ==
    ASSUME KeyTypeOK, NEW c \in Calls, NEW i \in Institutions, NEW w \in Wallets,
           \/ \E present \in SUBSET PiiFields : CreateEntity(c, i, w, present)
           \/ GetEntity(c, i, w)
    PROVE  /\ calls' \in [Calls -> CallRecord]
           /\ \A d \in Calls \ {c} : calls'[d] = calls[d]
           /\ calls[c].step = "new" /\ i \in apiKeys
           /\ calls'[c].op \in {"createEntity", "getEntity"}
           /\ calls'[c].institution = i /\ calls'[c].wallet = w
           /\ \/ cache[i] # None /\ calls'[c].step = "using" /\ calls'[c].held = cache[i]
              \/ calls'[c].step = "fetching"
           /\ UNCHANGED <<institutionRows, entityRows, masterKey, cache, buffers, apiKeys>>
<1>1. CASE \E present \in SUBSET PiiFields : CreateEntity(c, i, w, present)
  <2>1. PICK present \in SUBSET PiiFields : CreateEntity(c, i, w, present)
    BY <1>1
  <2> DEFINE call == [Idle EXCEPT !.op = "createEntity", !.institution = i,
                                  !.wallet = w, !.present = present]
  <2>2. call \in CallRecord /\ call.op = "createEntity" /\ call.institution = i /\ call.wallet = w
    BY DEF Idle, CallRecord, EmptyPii, EncryptedPii, Operations, Steps
  <2>3. GetDek(c, call)
    BY <2>1 DEF CreateEntity
  <2>4. /\ calls[c].step = "new" /\ i \in apiKeys
        /\ UNCHANGED <<institutionRows, entityRows, masterKey, cache, buffers, apiKeys>>
    BY <2>1 DEF CreateEntity
  <2> HIDE DEF call
  <2>5. /\ calls' \in [Calls -> CallRecord]
        /\ \A d \in Calls \ {c} : calls'[d] = calls[d]
        /\ calls'[c].op = call.op /\ calls'[c].institution = i /\ calls'[c].wallet = w
        /\ \/ cache[i] # None /\ calls'[c].step = "using" /\ calls'[c].held = cache[i]
           \/ calls'[c].step = "fetching"
    BY <2>2, <2>3, GetDekType
  <2> QED
    BY <2>2, <2>4, <2>5
<1>2. CASE GetEntity(c, i, w)
  <2> DEFINE call == [Idle EXCEPT !.op = "getEntity", !.institution = i, !.wallet = w,
                                  !.pii = entityRows[<<i, w>>]]
  <2>1. entityRows[<<i, w>>] \in EncryptedPii
    BY <1>2 DEF GetEntity, KeyTypeOK
  <2>2. call \in CallRecord /\ call.op = "getEntity" /\ call.institution = i /\ call.wallet = w
    BY <2>1 DEF Idle, CallRecord, EmptyPii, Operations, Steps
  <2>3. GetDek(c, call)
    BY <1>2 DEF GetEntity
  <2>4. /\ calls[c].step = "new" /\ i \in apiKeys
        /\ UNCHANGED <<institutionRows, entityRows, masterKey, cache, buffers, apiKeys>>
    BY <1>2 DEF GetEntity
  <2> HIDE DEF call
  <2>5. /\ calls' \in [Calls -> CallRecord]
        /\ \A d \in Calls \ {c} : calls'[d] = calls[d]
        /\ calls'[c].op = call.op /\ calls'[c].institution = i /\ calls'[c].wallet = w
        /\ \/ cache[i] # None /\ calls'[c].step = "using" /\ calls'[c].held = cache[i]
           \/ calls'[c].step = "fetching"
    BY <2>2, <2>3, GetDekType
  <2> QED
    BY <2>2, <2>4, <2>5
<1> QED
  BY <1>1, <1>2
-----------------------------------------------------------------------------
LEMMA TypeStep ==
    ASSUME KeyInv, [KeyNext]_keyVars
    PROVE  KeyTypeOK'
<1> USE DEF KeyInv
<1>1. ASSUME NEW c \in Calls, NEW i \in Institutions, CreateInstitution(c, i)
      PROVE  KeyTypeOK'
  <2> DEFINE called == [Idle EXCEPT !.op = "createInstitution", !.institution = i]
  <2>1. /\ [called EXCEPT !.step = "storing key", !.held = c] \in CallRecord
        /\ [called EXCEPT !.step = "thrown"] \in CallRecord
    BY DEF Idle, CallRecord, EmptyPii, EncryptedPii, Operations, Steps
  <2>2. [encryptedDek |-> None, onchainPubkey |-> "pending"] \in InstitutionRow
    BY DEF InstitutionRow
  <2>3. /\ institutionRows' \in [Institutions -> InstitutionRow \cup {None}]
        /\ buffers' \in [Calls -> Institutions \cup {Zero, None}]
        /\ UNCHANGED <<entityRows, masterKey, cache, apiKeys>>
    BY <1>1, <2>2 DEF CreateInstitution, KeyTypeOK
  <2>4. \E call \in CallRecord : calls' = [calls EXCEPT ![c] = call]
    BY <1>1, <2>1 DEF CreateInstitution
  <2> QED
    BY <2>3, <2>4 DEF KeyTypeOK
<1>2. ASSUME NEW c \in Calls, CreateInstitutionKey(c)
      PROVE  KeyTypeOK'
  <2>1. calls[c].institution \in Institutions /\ CacheKey(c, calls[c].institution)
        /\ institutionRows[calls[c].institution] \in InstitutionRow
    BY <1>2 DEF CreateInstitutionKey, MemoryInv, CallInv, KeyTypeOK
  <2>2. institutionRows' \in [Institutions -> InstitutionRow \cup {None}]
    BY <1>2, <2>1 DEF CreateInstitutionKey, KeyTypeOK, InstitutionRow
  <2>3. calls' \in [Calls -> CallRecord]
    BY <1>2, GoesType DEF CreateInstitutionKey, Steps
  <2> QED
    BY <1>2, <2>1, <2>2, <2>3, CacheKeyType DEF CreateInstitutionKey, KeyTypeOK
<1>3. ASSUME NEW c \in Calls, ReturnApiKey(c)
      PROVE  KeyTypeOK'
  <2>1. calls' \in [Calls -> CallRecord]
    BY <1>3, GoesType DEF ReturnApiKey, Steps
  <2>2. calls[c].institution \in Institutions
    BY <1>3 DEF ReturnApiKey, KeyStored, MemoryInv, CallInv
  <2> QED
    BY <1>3, <2>1, <2>2 DEF ReturnApiKey, KeyTypeOK
<1>4. ASSUME NEW i \in Institutions, SetOnchainPubkey(i)
      PROVE  KeyTypeOK'
  BY <1>4 DEF SetOnchainPubkey, KeyTypeOK, InstitutionRow
<1>5. ASSUME NEW c \in Calls, NEW i \in Institutions, NEW w \in Wallets,
             \/ \E present \in SUBSET PiiFields : CreateEntity(c, i, w, present)
             \/ GetEntity(c, i, w)
      PROVE  KeyTypeOK'
  BY <1>5, StartsWithKey DEF KeyTypeOK
<1>6. ASSUME NEW c \in Calls, FillDek(c)
      PROVE  KeyTypeOK'
  <2>1. calls[c].institution \in Institutions
    BY <1>6 DEF FillDek, MemoryInv, CallInv
  <2>2. calls' \in [Calls -> CallRecord]
    <3>1. CASE Goes(c, "thrown")
      BY <3>1, GoesType DEF Steps
    <3>2. CASE calls' = [calls EXCEPT ![c].step = "using", ![c].held = c]
      <4>1. [calls[c] EXCEPT !.step = "using", !.held = c] \in CallRecord
        BY DEF KeyTypeOK, CallRecord, Steps
      <4>2. calls' = [calls EXCEPT ![c] = [calls[c] EXCEPT !.step = "using", !.held = c]]
        BY <3>2 DEF KeyTypeOK
      <4> QED
        BY <4>1, <4>2 DEF KeyTypeOK
    <3> QED
      BY <1>6, <3>1, <3>2 DEF FillDek
  <2> QED
    BY <1>6, <2>1, <2>2, CacheKeyType DEF FillDek, KeyTypeOK
<1>7. ASSUME NEW c \in Calls, EncryptAndInsert(c)
      PROVE  KeyTypeOK'
  <2>1. /\ calls[c].institution \in Institutions /\ calls[c].wallet \in Wallets
        /\ buffers[calls[c].held] \in Institutions \cup {Zero}
        /\ calls[c].present \in SUBSET PiiFields
    BY <1>7 DEF EncryptAndInsert, MemoryInv, CallInv, KeyTypeOK, CallRecord
  <2>2. calls' \in [Calls -> CallRecord]
    BY <1>7, GoesType DEF EncryptAndInsert, Steps
  <2>3. entityRows' \in [Institutions \X Wallets -> EncryptedPii \cup {None}]
    BY <1>7, <2>1, EncryptedReadsBack DEF EncryptAndInsert, KeyTypeOK
  <2> QED
    BY <1>7, <2>2, <2>3 DEF EncryptAndInsert, KeyTypeOK
<1>8. ASSUME NEW c \in Calls, Decrypt(c) \/ QueryFails(c)
      PROVE  KeyTypeOK'
  <2>1. calls' \in [Calls -> CallRecord]
    BY <1>8, GoesType DEF Decrypt, QueryFails, Steps
  <2> QED
    BY <1>8, <2>1 DEF Decrypt, QueryFails, KeyTypeOK
<1>9. ASSUME NEW i \in Institutions, TtlExpires(i)
      PROVE  KeyTypeOK'
  BY <1>9 DEF TtlExpires, KeyTypeOK
<1>10. ASSUME NEW key \in MasterKeys, Restart(key)
      PROVE  KeyTypeOK'
  <2>1. ASSUME NEW c \in Calls
        PROVE  /\ [calls[c] EXCEPT !.held = None] \in CallRecord
               /\ [calls[c] EXCEPT !.held = None, !.step = "thrown"] \in CallRecord
    BY DEF KeyTypeOK, CallRecord, Steps
  <2>2. calls' \in [Calls -> CallRecord]
    BY <1>10, <2>1 DEF Restart
  <2> QED
    BY <1>10, <2>2 DEF Restart, KeyTypeOK
<1>11. CASE UNCHANGED keyVars
  BY <1>11 DEF keyVars, KeyTypeOK
<1> QED
  BY <1>1, <1>2, <1>3, <1>4, <1>5, <1>6, <1>7, <1>8, <1>9, <1>10, <1>11 DEF KeyNext
-----------------------------------------------------------------------------
(* A row of an institution stays, and so does the wrapped key it holds.    *)
LEMMA RowsStay ==
    ASSUME KeyInv, [KeyNext]_keyVars, NEW i \in Institutions, institutionRows[i] # None
    PROVE  /\ institutionRows'[i] # None
           /\ institutionRows[i].encryptedDek # None => institutionRows'[i].encryptedDek # None
<1>1. institutionRows[i] \in InstitutionRow
  BY DEF KeyInv, KeyTypeOK
<1>2. ASSUME NEW row \in InstitutionRow
      PROVE  row # None
  BY NoneIsNoRow
<1>3. CASE UNCHANGED institutionRows
  BY <1>3
<1>4. CASE \E c \in Calls, j \in Institutions : CreateInstitution(c, j)
  BY <1>4 DEF CreateInstitution, KeyInv, KeyTypeOK
<1>5. CASE \E c \in Calls : CreateInstitutionKey(c)
  <2>1. PICK c \in Calls : CreateInstitutionKey(c)
    BY <1>5
  <2>2. masterKey \in MasterKeys /\ masterKey # None
    BY KeyAssumption DEF KeyInv, KeyTypeOK
  <2>3. [institutionRows[i] EXCEPT !.encryptedDek = masterKey] \in InstitutionRow
    BY <1>1, <2>2 DEF InstitutionRow
  <2>4. institutionRows'[i] \in {institutionRows[i],
                                 [institutionRows[i] EXCEPT !.encryptedDek = masterKey]}
    BY <2>1 DEF CreateInstitutionKey, KeyInv, KeyTypeOK
  <2>5. [institutionRows[i] EXCEPT !.encryptedDek = masterKey].encryptedDek = masterKey
    BY <1>1 DEF InstitutionRow
  <2> QED
    BY <1>1, <1>2, <2>2, <2>3, <2>4, <2>5
<1>6. CASE \E j \in Institutions : SetOnchainPubkey(j)
  <2>1. [institutionRows[i] EXCEPT !.onchainPubkey = "set"] \in InstitutionRow
    BY <1>1 DEF InstitutionRow
  <2>2. institutionRows'[i] \in {institutionRows[i],
                                 [institutionRows[i] EXCEPT !.onchainPubkey = "set"]}
    BY <1>6 DEF SetOnchainPubkey, KeyInv, KeyTypeOK
  <2>3. [institutionRows[i] EXCEPT !.onchainPubkey = "set"].encryptedDek
          = institutionRows[i].encryptedDek
    BY <1>1 DEF InstitutionRow
  <2> QED
    BY <1>1, <1>2, <2>1, <2>2, <2>3
<1> QED
  BY <1>3, <1>4, <1>5, <1>6
  DEF KeyNext, keyVars, ReturnApiKey, CreateEntity, GetEntity, FillDek, EncryptAndInsert,
      Decrypt, QueryFails, TtlExpires, Restart

(* A step of another call leaves a call's own knowledge true, if its       *)
(* buffers keep what it relies on.                                         *)
LEMMA OtherCall ==
    ASSUME KeyInv, [KeyNext]_keyVars, NEW d \in Calls, calls'[d] = calls[d],
           calls[d].step \in {"new", "fetching", "storing key"} => buffers'[d] = buffers[d],
           calls[d].step = "using" =>
              buffers'[calls[d].held] \in {calls[d].institution, Zero}
    PROVE  CallInv(d)'
<1>1. CallInv(d)
  BY DEF KeyInv, MemoryInv
<1>2. calls[d].step \in {"storing key", "auditing"} =>
        /\ institutionRows'[calls[d].institution] # None
        /\ calls[d].step = "auditing" => institutionRows'[calls[d].institution].encryptedDek # None
  BY <1>1, RowsStay DEF CallInv
<1> QED
  BY <1>1, <1>2 DEF CallInv

(* A call that ends without touching a buffer.                             *)
LEMMA EndsKeepMemory ==
    ASSUME KeyInv, [KeyNext]_keyVars, NEW c \in Calls, NEW step \in Ended, Goes(c, step),
           calls[c].step \notin Ended \cup {"new"},
           calls[c].step = "storing key" => step = "thrown",
           UNCHANGED <<cache, buffers>>
    PROVE  MemoryInv'
<1> USE DEF KeyInv, MemoryInv
<1>1. /\ calls'[c].step = step /\ calls'[c].op = calls[c].op
      /\ calls'[c].institution = calls[c].institution
      /\ \A d \in Calls \ {c} : calls'[d] = calls[d]
  BY DEF Goes, KeyTypeOK, CallRecord
<1>2. ASSUME NEW d \in Calls
      PROVE  CallInv(d)'
  <2>1. CASE d = c
    BY <1>1, <2>1 DEF CallInv, Ended
  <2>2. CASE d # c
    <3>1. calls'[d] = calls[d] /\ UNCHANGED buffers
      BY <1>1, <2>2
    <3>2. CallInv(d)
      OBVIOUS
    <3> QED
      BY <3>1, <3>2, OtherCall DEF CallInv
  <2> QED
    BY <2>1, <2>2
<1>3. ASSUME NEW i \in Institutions
      PROVE  CacheInv(i)'
  BY <1>1 DEF CacheInv, Ended, KeyTypeOK
<1>4. CacheHoldsTheLiveKeys'
  BY <1>1 DEF CacheHoldsTheLiveKeys, Ended
<1>5. ZeroedInUseOnlyByOverlap'
  <2> SUFFICES ASSUME NEW d \in Calls, calls'[d].step = "using", buffers'[calls'[d].held] = Zero
               PROVE  /\ cache'[calls'[d].institution] \notin {None, calls'[d].held}
                      /\ calls'[cache'[calls'[d].institution]].institution
                            = calls'[d].institution
    BY DEF ZeroedInUseOnlyByOverlap
  <2>1. calls'[d] = calls[d] /\ calls[d].institution \in Institutions
    BY <1>1 DEF Ended, CallInv
  <2>2. /\ cache[calls[d].institution] \notin {None, calls[d].held}
        /\ calls[cache[calls[d].institution]].institution = calls[d].institution
    BY <2>1 DEF ZeroedInUseOnlyByOverlap
  <2> QED
    BY <1>1, <2>1, <2>2 DEF KeyTypeOK
<1> QED
  BY <1>2, <1>3, <1>4, <1>5

(* A request that gets a key, or has to fetch one, keeps the memory sound. *)
LEMMA StartsKeepMemory ==
    ASSUME KeyInv, [KeyNext]_keyVars, NEW c \in Calls, NEW i \in Institutions, NEW w \in Wallets,
           \/ \E present \in SUBSET PiiFields : CreateEntity(c, i, w, present)
           \/ GetEntity(c, i, w)
    PROVE  MemoryInv'
<1> USE DEF KeyInv, MemoryInv
<1>1. /\ calls'[c].op \in {"createEntity", "getEntity"}
      /\ calls'[c].institution = i /\ calls'[c].wallet = w
      /\ \/ cache[i] # None /\ calls'[c].step = "using" /\ calls'[c].held = cache[i]
         \/ calls'[c].step = "fetching"
      /\ calls[c].step = "new" /\ buffers[c] = None
      /\ \A d \in Calls \ {c} : calls'[d] = calls[d]
      /\ UNCHANGED <<cache, buffers, institutionRows>>
  BY StartsWithKey DEF CallInv
<1>2. cache[i] # None => cache[i] \in Calls \ {c} /\ buffers[cache[i]] = i
  BY <1>1 DEF CacheInv, CacheHoldsTheLiveKeys, KeyTypeOK
<1>3. i # Zero /\ i # None
  BY KeyAssumption
<1>4. ASSUME NEW d \in Calls
      PROVE  CallInv(d)'
  <2>1. CASE d = c
    BY <1>1, <1>2, <2>1 DEF CallInv
  <2>2. CASE d # c
    <3>1. calls'[d] = calls[d]
      BY <1>1, <2>2
    <3>2. CallInv(d)
      OBVIOUS
    <3> QED
      BY <1>1, <3>1, <3>2, OtherCall DEF CallInv
  <2> QED
    BY <2>1, <2>2
<1>5. ASSUME NEW j \in Institutions
      PROVE  CacheInv(j)'
  BY <1>1 DEF CacheInv, KeyTypeOK
<1>6. CacheHoldsTheLiveKeys'
  BY <1>1, KeyAssumption DEF CacheHoldsTheLiveKeys
<1>7. ZeroedInUseOnlyByOverlap'
  <2> SUFFICES ASSUME NEW d \in Calls, calls'[d].step = "using", buffers'[calls'[d].held] = Zero
               PROVE  /\ cache'[calls'[d].institution] \notin {None, calls'[d].held}
                      /\ calls'[cache'[calls'[d].institution]].institution
                            = calls'[d].institution
    BY DEF ZeroedInUseOnlyByOverlap
  <2>1. d # c
    BY <1>1, <1>2, <1>3
  <2>2. calls'[d] = calls[d] /\ calls[d].institution \in Institutions
    BY <1>1, <2>1 DEF CallInv
  <2>3. /\ cache[calls[d].institution] \notin {None, calls[d].held}
        /\ calls[cache[calls[d].institution]].institution = calls[d].institution
    BY <1>1, <2>2 DEF ZeroedInUseOnlyByOverlap
  <2>4. cache[calls[d].institution] # c
    BY <1>1, <2>2, <2>3 DEF CacheInv
  <2> QED
    BY <1>1, <2>2, <2>3, <2>4 DEF KeyTypeOK
<1> QED
  BY <1>4, <1>5, <1>6, <1>7

(* A new institution's key is in nobody's hands but its maker's.           *)
LEMMA CreationKeepsMemory ==
    ASSUME KeyInv, [KeyNext]_keyVars, NEW c \in Calls, NEW i \in Institutions,
           CreateInstitution(c, i)
    PROVE  MemoryInv'
<1> USE DEF KeyInv, MemoryInv
<1> DEFINE called == [Idle EXCEPT !.op = "createInstitution", !.institution = i]
<1>1. /\ calls[c].step = "new" /\ buffers[c] = None /\ UNCHANGED cache
      /\ \A d \in Calls \ {c} : calls'[d] = calls[d]
      /\ \A j \in Institutions : cache[j] # c
  <2>1. calls[c].step = "new" /\ UNCHANGED cache /\ CallInv(c)
    BY DEF CreateInstitution
  <2>2. \A d \in Calls \ {c} : calls'[d] = calls[d]
    BY DEF CreateInstitution, KeyTypeOK
  <2>3. \A j \in Institutions : cache[j] # c
    BY <2>1, KeyAssumption DEF CacheInv
  <2> QED
    BY <2>1, <2>2, <2>3 DEF CallInv
<1>2. /\ calls'[c].op = "createInstitution" /\ calls'[c].institution = i
      /\ \/ /\ calls'[c].step = "storing key" /\ buffers' = [buffers EXCEPT ![c] = i]
            /\ institutionRows' = [institutionRows EXCEPT ![i] =
                                     [encryptedDek |-> None, onchainPubkey |-> "pending"]]
         \/ /\ calls'[c].step = "thrown" /\ UNCHANGED <<buffers, institutionRows>>
  <2>1. \A call : calls' = [calls EXCEPT ![c] = call] => calls'[c] = call
    BY DEF KeyTypeOK
  <2>2. LET new == [called EXCEPT !.step = "storing key", !.held = c]
        IN  new.op = "createInstitution" /\ new.institution = i /\ new.step = "storing key"
    BY DEF Idle
  <2>3. LET new == [called EXCEPT !.step = "thrown"]
        IN  new.op = "createInstitution" /\ new.institution = i /\ new.step = "thrown"
    BY DEF Idle
  <2> QED
    BY <2>1, <2>2, <2>3 DEF CreateInstitution
<1>3. [encryptedDek |-> None, onchainPubkey |-> "pending"] # None
  BY NoneIsNoRow DEF InstitutionRow
<1>4. \A d \in Calls \ {c} : buffers'[d] = buffers[d]
  BY <1>2 DEF KeyTypeOK
<1>5. buffers'[c] \in {i, None} /\ (calls'[c].step = "storing key" => buffers'[c] = i)
  BY <1>1, <1>2 DEF KeyTypeOK
<1>6. ASSUME NEW d \in Calls
      PROVE  CallInv(d)'
  <2>1. CASE d = c
    BY <1>2, <1>3, <1>5, <2>1 DEF CallInv, KeyTypeOK
  <2>2. CASE d # c
    <3>1. calls'[d] = calls[d] /\ buffers'[d] = buffers[d]
      BY <1>1, <1>4, <2>2
    <3>2. CallInv(d)
      OBVIOUS
    <3>3. calls[d].step = "using" => calls[d].held # c /\ calls[d].held \in Calls
      BY <1>1, <3>2, KeyAssumption DEF CallInv
    <3> QED
      BY <1>4, <3>1, <3>2, <3>3, OtherCall DEF CallInv
  <2> QED
    BY <2>1, <2>2
<1>7. ASSUME NEW j \in Institutions
      PROVE  CacheInv(j)'
  BY <1>1 DEF CacheInv, KeyTypeOK
<1>8. CacheHoldsTheLiveKeys'
  <2>1. ASSUME NEW j \in Institutions, cache'[j] # None
        PROVE  buffers'[cache'[j]] = j
    BY <1>1, <1>4, <2>1 DEF CacheHoldsTheLiveKeys, KeyTypeOK
  <2>2. ASSUME NEW d \in Calls, buffers'[d] \in Institutions
        PROVE  \/ cache'[buffers'[d]] = d
               \/ calls'[d].op = "createInstitution" /\ calls'[d].step \in {"storing key", "thrown"}
    BY <1>1, <1>2, <1>4, <2>2 DEF CacheHoldsTheLiveKeys
  <2> QED
    BY <2>1, <2>2 DEF CacheHoldsTheLiveKeys
<1>9. ZeroedInUseOnlyByOverlap'
  <2> SUFFICES ASSUME NEW d \in Calls, calls'[d].step = "using", buffers'[calls'[d].held] = Zero
               PROVE  /\ cache'[calls'[d].institution] \notin {None, calls'[d].held}
                      /\ calls'[cache'[calls'[d].institution]].institution
                            = calls'[d].institution
    BY DEF ZeroedInUseOnlyByOverlap
  <2>1. calls'[d] = calls[d] /\ calls[d].institution \in Institutions /\ calls[d].held \in Calls
    BY <1>1, <1>2 DEF CallInv
  <2>2. buffers[calls[d].held] = Zero
    BY <1>4, <1>5, <2>1, KeyAssumption
  <2>3. /\ cache[calls[d].institution] \notin {None, calls[d].held}
        /\ calls[cache[calls[d].institution]].institution = calls[d].institution
    BY <2>1, <2>2 DEF ZeroedInUseOnlyByOverlap
  <2> QED
    BY <1>1, <2>1, <2>3 DEF KeyTypeOK
<1> QED
  BY <1>6, <1>7, <1>8, <1>9

(* A buffer that is cached replaces, and zeroes, the one of its own        *)
(* institution only.                                                       *)
LEMMA CachingKeepsMemory ==
    ASSUME KeyInv, [KeyNext]_keyVars, NEW c \in Calls, NEW i \in Institutions,
           calls[c].institution = i, CacheKey(c, i),
           \/ calls[c].step = "storing key" /\ calls'[c].step = "auditing"
           \/ /\ calls[c].step = "fetching" /\ calls'[c].step = "using"
              /\ calls'[c].held = c,
           calls'[c].op = calls[c].op, calls'[c].wallet = calls[c].wallet,
           calls'[c].institution = i,
           calls'[c].step = "auditing" =>
              /\ institutionRows'[i] # None
              /\ institutionRows'[i].encryptedDek # None,
           \A d \in Calls \ {c} : calls'[d] = calls[d]
    PROVE  MemoryInv'
<1>1. /\ cache'[i] = c /\ buffers'[c] = i
      /\ \A j \in Institutions \ {i} : cache'[j] = cache[j]
      /\ \A b \in Calls \ {c} : buffers'[b] = IF b = cache[i] THEN Zero ELSE buffers[b]
  <2>1. KeyTypeOK
    BY DEF KeyInv
  <2> QED
    BY <2>1, CacheKeyType
<1> USE DEF KeyInv, MemoryInv
<1>2. i # Zero /\ i # None /\ Zero # None /\ Zero \notin Institutions /\ c # None
  BY KeyAssumption
<1>3. \A j \in Institutions : cache[j] # None =>
        cache[j] \in Calls \ {c} /\ buffers[cache[j]] = j
  BY DEF CacheInv, CacheHoldsTheLiveKeys, KeyTypeOK
<1>4. CallInv(c)
  OBVIOUS
<1>5. ASSUME NEW d \in Calls \ {c}
      PROVE  CallInv(d)'
  <2>1. CallInv(d) /\ calls'[d] = calls[d]
    OBVIOUS
  <2>2. calls[d].step \in {"new", "fetching", "storing key"} => buffers'[d] = buffers[d]
    <3>1. d = cache[i] => calls[d].step \notin {"new", "fetching", "storing key"}
      BY KeyAssumption DEF CacheInv
    <3> QED
      BY <1>1, <3>1
  <2>3. ASSUME calls[d].step = "using"
        PROVE  buffers'[calls[d].held] \in {calls[d].institution, Zero}
    <3>1. calls[d].held \in Calls /\ buffers[calls[d].held] \in {calls[d].institution, Zero}
      BY <2>1, <2>3 DEF CallInv
    <3>2. CASE calls[d].held = c
      <4>1. buffers[c] \in {None, i}
        BY <1>4 DEF CallInv
      <4>2. calls[d].institution # None /\ calls[d].institution = i
        <5>1. calls[d].institution \in Institutions
          BY <2>1, <2>3 DEF CallInv
        <5> QED
          BY <1>2, <3>1, <3>2, <4>1, <5>1, KeyAssumption
      <4> QED
        BY <1>1, <3>2, <4>2
    <3>3. CASE calls[d].held # c
      BY <1>1, <3>1, <3>3
    <3> QED
      BY <3>2, <3>3
  <2> QED
    BY <2>1, <2>2, <2>3, OtherCall
<1>6. CallInv(c)'
  BY <1>1, <1>4 DEF CallInv
<1>7. ASSUME NEW j \in Institutions
      PROVE  CacheInv(j)'
  <2>1. CASE j = i
    BY <1>1, <2>1 DEF CacheInv
  <2>2. CASE j # i
    <3>1. cache'[j] = cache[j] /\ CacheInv(j)
      BY <1>1, <2>2
    <3> QED
      BY <1>3, <3>1 DEF CacheInv
  <2> QED
    BY <2>1, <2>2
<1>8. CacheHoldsTheLiveKeys'
  <2>1. ASSUME NEW j \in Institutions, cache'[j] # None
        PROVE  buffers'[cache'[j]] = j
    <3>1. CASE j = i
      BY <1>1, <3>1
    <3>2. CASE j # i
      <4>1. cache'[j] = cache[j] /\ cache[j] \in Calls \ {c} /\ buffers[cache[j]] = j
        BY <1>1, <1>3, <2>1, <3>2
      <4>2. cache[j] # cache[i]
        BY <1>2, <1>3, <3>2, <4>1, KeyAssumption
      <4> QED
        BY <1>1, <4>1, <4>2
    <3> QED
      BY <3>1, <3>2
  <2>2. ASSUME NEW d \in Calls, buffers'[d] \in Institutions
        PROVE  \/ cache'[buffers'[d]] = d
               \/ calls'[d].op = "createInstitution" /\ calls'[d].step \in {"storing key", "thrown"}
    <3>1. CASE d = c
      BY <1>1, <3>1
    <3>2. CASE d # c
      <4>1. buffers'[d] = buffers[d] /\ d # cache[i] /\ calls'[d] = calls[d]
        BY <1>1, <1>2, <2>2, <3>2
      <4>2. \/ cache[buffers[d]] = d
            \/ calls[d].op = "createInstitution" /\ calls[d].step \in {"storing key", "thrown"}
        BY <2>2, <4>1 DEF CacheHoldsTheLiveKeys
      <4> QED
        <5>1. CASE cache[buffers[d]] = d
          <6>1. buffers[d] # i /\ buffers[d] \in Institutions
            BY <2>2, <4>1, <5>1
          <6>2. cache'[buffers[d]] = d
            BY <1>1, <5>1, <6>1
          <6> QED
            BY <4>1, <6>2
        <5> QED
          BY <4>1, <4>2, <5>1
    <3> QED
      BY <3>1, <3>2
  <2> QED
    BY <2>1, <2>2 DEF CacheHoldsTheLiveKeys
<1>9. ZeroedInUseOnlyByOverlap'
  <2> SUFFICES ASSUME NEW d \in Calls, calls'[d].step = "using", buffers'[calls'[d].held] = Zero
               PROVE  /\ cache'[calls'[d].institution] \notin {None, calls'[d].held}
                      /\ calls'[cache'[calls'[d].institution]].institution
                            = calls'[d].institution
    BY DEF ZeroedInUseOnlyByOverlap
  <2>1. d # c
    BY <1>1, <1>2
  <2>2. /\ calls'[d] = calls[d] /\ calls[d].institution \in Institutions
        /\ calls[d].held \in Calls
        /\ buffers[calls[d].held] \in {calls[d].institution, Zero}
    BY <2>1 DEF CallInv
  <2>3. calls[d].held # c
    BY <1>1, <1>2, <2>2
  <2>4. CASE calls[d].institution = i
    BY <1>1, <1>2, <2>2, <2>3, <2>4
  <2>5. CASE calls[d].institution # i
    <3>1. buffers[calls[d].held] = Zero
      <4>1. calls[d].held = cache[i] => buffers[calls[d].held] = i
        BY <1>3, <2>2, KeyAssumption
      <4>2. calls[d].held # cache[i]
        BY <1>2, <2>2, <2>5, <4>1
      <4> QED
        BY <1>1, <2>2, <2>3, <4>2
    <3>2. /\ cache[calls[d].institution] \notin {None, calls[d].held}
          /\ calls[cache[calls[d].institution]].institution = calls[d].institution
      BY <2>2, <3>1 DEF ZeroedInUseOnlyByOverlap
    <3> QED
      <4>1. /\ cache'[calls[d].institution] = cache[calls[d].institution]
            /\ cache[calls[d].institution] \in Calls \ {c}
        BY <1>1, <1>3, <2>2, <2>5, <3>2
      <4>2. calls'[cache[calls[d].institution]] = calls[cache[calls[d].institution]]
        BY <4>1
      <4>3. /\ calls'[d].institution = calls[d].institution
            /\ cache'[calls'[d].institution] = cache[calls[d].institution]
            /\ calls'[d].held = calls[d].held
        BY <2>2, <4>1
      <4> QED
        BY <3>2, <4>2, <4>3
  <2> QED
    BY <2>4, <2>5
<1> QED
  BY <1>5, <1>6, <1>7, <1>8, <1>9

(* Expiry and a crash come between requests, when nobody holds a key.      *)
LEMMA ExpiryKeepsMemory ==
    ASSUME KeyInv, [KeyNext]_keyVars, NEW i \in Institutions, TtlExpires(i)
    PROVE  MemoryInv'
<1> USE DEF KeyInv, MemoryInv
<1>1. /\ cache[i] \in Calls /\ cache'[i] = None /\ UNCHANGED <<calls, institutionRows>>
      /\ buffers'[cache[i]] = Zero
      /\ \A j \in Institutions \ {i} : cache'[j] = cache[j]
      /\ \A b \in Calls \ {cache[i]} : buffers'[b] = buffers[b]
      /\ \A d \in Calls : calls[d].step # "using"
  BY DEF TtlExpires, NobodyUsing, KeyTypeOK
<1>2. \A j \in Institutions : cache[j] # None => buffers[cache[j]] = j
  BY DEF CacheHoldsTheLiveKeys
<1>3. ASSUME NEW d \in Calls
      PROVE  CallInv(d)'
  <2>1. calls[d].step \in {"new", "fetching", "storing key"} => buffers'[d] = buffers[d]
    BY <1>1, KeyAssumption DEF CacheInv
  <2> QED
    BY <1>1, <2>1, OtherCall
<1>4. ASSUME NEW j \in Institutions
      PROVE  CacheInv(j)'
  BY <1>1 DEF CacheInv
<1>5. CacheHoldsTheLiveKeys'
  <2>1. ASSUME NEW j \in Institutions, cache'[j] # None
        PROVE  buffers'[cache'[j]] = j
    <3>1. j # i /\ cache'[j] = cache[j] /\ cache[j] \in Calls
      BY <1>1, <2>1 DEF KeyTypeOK
    <3>2. cache[j] # cache[i]
      BY <1>1, <1>2, <2>1, <3>1, KeyAssumption
    <3> QED
      BY <1>1, <1>2, <2>1, <3>1, <3>2
  <2>2. ASSUME NEW d \in Calls, buffers'[d] \in Institutions
        PROVE  \/ cache'[buffers'[d]] = d
               \/ calls'[d].op = "createInstitution" /\ calls'[d].step \in {"storing key", "thrown"}
    <3>1. d # cache[i] /\ buffers'[d] = buffers[d]
      BY <1>1, <2>2, KeyAssumption
    <3> QED
      BY <1>1, <2>2, <3>1 DEF CacheHoldsTheLiveKeys
  <2> QED
    BY <2>1, <2>2 DEF CacheHoldsTheLiveKeys
<1>6. ZeroedInUseOnlyByOverlap'
  BY <1>1 DEF ZeroedInUseOnlyByOverlap
<1> QED
  BY <1>3, <1>4, <1>5, <1>6

LEMMA RestartKeepsMemory ==
    ASSUME KeyInv, [KeyNext]_keyVars, NEW key \in MasterKeys, Restart(key)
    PROVE  MemoryInv'
<1> USE DEF KeyInv, MemoryInv
<1>1. /\ \A j \in Institutions : cache'[j] = None
      /\ \A d \in Calls : buffers'[d] = None /\ calls'[d].step \in Ended \cup {"new"}
  BY DEF Restart, KeyTypeOK, CallRecord, Ended
<1>2. \A d \in Calls : CallInv(d)'
  BY <1>1 DEF CallInv, Ended
<1>3. \A j \in Institutions : CacheInv(j)'
  BY <1>1 DEF CacheInv
<1>4. CacheHoldsTheLiveKeys'
  BY <1>1, KeyAssumption DEF CacheHoldsTheLiveKeys
<1>5. ZeroedInUseOnlyByOverlap'
  BY <1>1 DEF ZeroedInUseOnlyByOverlap, Ended
<1> QED
  BY <1>2, <1>3, <1>4, <1>5

LEMMA MemoryStep ==
    ASSUME KeyInv, [KeyNext]_keyVars
    PROVE  MemoryInv'
<1>1. ASSUME NEW c \in Calls, NEW i \in Institutions, CreateInstitution(c, i)
      PROVE  MemoryInv'
  BY <1>1, CreationKeepsMemory
<1>2. ASSUME NEW c \in Calls, CreateInstitutionKey(c)
      PROVE  MemoryInv'
  <2> DEFINE i == calls[c].institution
  <2>1. i \in Institutions /\ institutionRows[i] # None /\ institutionRows[i] \in InstitutionRow
    BY <1>2 DEF CreateInstitutionKey, KeyInv, KeyTypeOK, MemoryInv, CallInv
  <2>2. /\ calls'[c] = [calls[c] EXCEPT !.step = "auditing"]
        /\ \A d \in Calls \ {c} : calls'[d] = calls[d]
    BY <1>2, GoesType DEF CreateInstitutionKey, Steps, KeyInv
  <2>3. /\ calls'[c].step = "auditing" /\ calls'[c].op = calls[c].op
        /\ calls'[c].wallet = calls[c].wallet /\ calls'[c].institution = i
    BY <2>2 DEF KeyInv, KeyTypeOK, CallRecord
  <2>4. institutionRows'[i].encryptedDek = masterKey /\ masterKey # None
    BY <1>2, <2>1, KeyAssumption DEF CreateInstitutionKey, InstitutionRow, KeyInv, KeyTypeOK
  <2>5. institutionRows'[i] # None
    BY <2>1, RowsStay
  <2> QED
    BY <1>2, <2>1, <2>2, <2>3, <2>4, <2>5, CachingKeepsMemory DEF CreateInstitutionKey
<1>3. ASSUME NEW c \in Calls, ReturnApiKey(c)
      PROVE  MemoryInv'
  BY <1>3, EndsKeepMemory DEF ReturnApiKey, KeyStored, Ended
<1>4. ASSUME NEW i \in Institutions, SetOnchainPubkey(i)
      PROVE  MemoryInv'
  <2>1. UNCHANGED <<calls, buffers, cache>>
    BY <1>4 DEF SetOnchainPubkey
  <2>2. \A d \in Calls : CallInv(d)'
    BY <2>1, OtherCall DEF KeyInv, MemoryInv, CallInv
  <2> QED
    BY <2>1, <2>2 DEF KeyInv, MemoryInv, CacheInv, CacheHoldsTheLiveKeys, ZeroedInUseOnlyByOverlap
<1>5. ASSUME NEW c \in Calls, NEW i \in Institutions, NEW w \in Wallets,
             \/ \E present \in SUBSET PiiFields : CreateEntity(c, i, w, present)
             \/ GetEntity(c, i, w)
      PROVE  MemoryInv'
  BY <1>5, StartsKeepMemory
<1>6. ASSUME NEW c \in Calls, FillDek(c)
      PROVE  MemoryInv'
  <2>1. CASE Goes(c, "thrown") /\ UNCHANGED <<buffers, cache>>
    BY <1>6, <2>1, EndsKeepMemory DEF FillDek, Ended
  <2>2. CASE /\ CacheKey(c, calls[c].institution)
             /\ calls' = [calls EXCEPT ![c].step = "using", ![c].held = c]
    <3>1. /\ calls'[c].step = "using" /\ calls'[c].held = c /\ calls'[c].op = calls[c].op
          /\ calls'[c].wallet = calls[c].wallet /\ calls'[c].institution = calls[c].institution
          /\ \A d \in Calls \ {c} : calls'[d] = calls[d]
      BY <2>2 DEF KeyInv, KeyTypeOK, CallRecord
    <3>2. calls[c].institution \in Institutions /\ calls[c].step = "fetching"
      BY <1>6 DEF FillDek, KeyInv, MemoryInv, CallInv
    <3> QED
      BY <2>2, <3>1, <3>2, CachingKeepsMemory
  <2> QED
    BY <1>6, <2>1, <2>2 DEF FillDek
<1>7. ASSUME NEW c \in Calls, EncryptAndInsert(c) \/ Decrypt(c) \/ QueryFails(c)
      PROVE  MemoryInv'
  <2>1. \E step \in Ended : Goes(c, step) /\ (calls[c].step = "storing key" => step = "thrown")
    BY <1>7 DEF EncryptAndInsert, Decrypt, QueryFails, Ended
  <2>2. calls[c].step \notin Ended \cup {"new"} /\ UNCHANGED <<cache, buffers>>
    BY <1>7 DEF EncryptAndInsert, Decrypt, QueryFails, Ended
  <2> QED
    BY <2>1, <2>2, EndsKeepMemory
<1>8. ASSUME NEW i \in Institutions, TtlExpires(i)
      PROVE  MemoryInv'
  BY <1>8, ExpiryKeepsMemory
<1>9. ASSUME NEW key \in MasterKeys, Restart(key)
      PROVE  MemoryInv'
  BY <1>9, RestartKeepsMemory
<1>10. CASE UNCHANGED keyVars
  BY <1>10 DEF keyVars, KeyInv, MemoryInv, CallInv, CacheInv, CacheHoldsTheLiveKeys,
               ZeroedInUseOnlyByOverlap
<1> QED
  BY <1>1, <1>2, <1>3, <1>4, <1>5, <1>6, <1>7, <1>8, <1>9, <1>10 DEF KeyNext

(* What is in the tables.                                                  *)
LEMMA TablesStep ==
    ASSUME KeyInv, [KeyNext]_keyVars
    PROVE  RowsUnderOneKey' /\ ApiKeyImpliesDek'
<1>1. RowsUnderOneKey'
  <2>1. CASE UNCHANGED entityRows
    BY <2>1 DEF KeyInv, RowsUnderOneKey
  <2>2. ASSUME NEW c \in Calls, EncryptAndInsert(c)
        PROVE  RowsUnderOneKey'
    <3> DEFINE e == <<calls[c].institution, calls[c].wallet>>
               key == buffers[calls[c].held]
               pii == EncryptEntityPii(calls[c].present, key)
    <3>1. /\ e \in Institutions \X Wallets
          /\ key \in {calls[c].institution, Zero} /\ key \in Institutions \cup {Zero}
          /\ calls[c].present \in SUBSET PiiFields
      BY <2>2 DEF EncryptAndInsert, KeyInv, KeyTypeOK, MemoryInv, CallInv, CallRecord
    <3>2. DecryptEntityPii(pii, key)
      BY <3>1, EncryptedReadsBack
    <3>3. \/ entityRows' = [entityRows EXCEPT ![e] = pii]
          \/ UNCHANGED entityRows
      BY <2>2 DEF EncryptAndInsert
    <3>4. e[1] = calls[c].institution
      OBVIOUS
    <3> HIDE DEF e, key, pii
    <3>5. ASSUME NEW f \in Institutions \X Wallets, entityRows'[f] # None
          PROVE  \E k \in {f[1], Zero} : DecryptEntityPii(entityRows'[f], k)
      <4>1. CASE f = e /\ entityRows'[f] = pii
        BY <3>1, <3>2, <3>4, <4>1
      <4>2. CASE entityRows'[f] = entityRows[f]
        BY <3>5, <4>2 DEF KeyInv, RowsUnderOneKey
      <4> QED
        BY <3>1, <3>3, <4>1, <4>2 DEF KeyInv, KeyTypeOK
    <3> QED
      BY <3>5 DEF RowsUnderOneKey
  <2> QED
    BY <2>1, <2>2
    DEF KeyNext, keyVars, CreateInstitution, CreateInstitutionKey, ReturnApiKey, SetOnchainPubkey,
        CreateEntity, GetEntity, FillDek, Decrypt, QueryFails, TtlExpires, Restart
<1>2. ApiKeyImpliesDek'
  <2> SUFFICES ASSUME NEW i \in apiKeys'
               PROVE  institutionRows'[i] # None /\ institutionRows'[i].encryptedDek # None
    BY DEF ApiKeyImpliesDek
  <2>1. CASE i \in apiKeys
    BY <2>1, RowsStay DEF KeyInv, KeyTypeOK, ApiKeyImpliesDek
  <2>2. CASE \E c \in Calls : ReturnApiKey(c) /\ i = calls[c].institution
    BY <2>2 DEF ReturnApiKey, KeyStored, KeyInv, MemoryInv, CallInv
  <2>3. UNCHANGED apiKeys \/ \E c \in Calls : ReturnApiKey(c)
    BY DEF KeyNext, keyVars, CreateInstitution, CreateInstitutionKey, SetOnchainPubkey, CreateEntity,
           GetEntity, FillDek, EncryptAndInsert, Decrypt, QueryFails, TtlExpires, Restart
  <2>4. \A c \in Calls : ReturnApiKey(c) => apiKeys' = apiKeys \cup {calls[c].institution}
    BY DEF ReturnApiKey
  <2> QED
    BY <2>1, <2>2, <2>3, <2>4
<1> QED
  BY <1>1, <1>2

LEMMA KeyInitInv == KeyInit => KeyInv
<1> SUFFICES ASSUME KeyInit
             PROVE  KeyInv
  OBVIOUS
<1>1. Idle \in CallRecord
  BY DEF Idle, CallRecord, EmptyPii, EncryptedPii, Steps
<1>2. KeyTypeOK
  BY <1>1 DEF KeyInit, KeyTypeOK
<1>3. \A c \in Calls : calls[c].step = "new" /\ buffers[c] = None
  BY DEF KeyInit, Idle
<1>4. MemoryInv
  BY <1>3, KeyAssumption
  DEF MemoryInv, CallInv, CacheInv, CacheHoldsTheLiveKeys, ZeroedInUseOnlyByOverlap, KeyInit
<1>5. RowsUnderOneKey /\ ApiKeyImpliesDek
  BY DEF KeyInit, RowsUnderOneKey, ApiKeyImpliesDek
<1> QED
  BY <1>2, <1>4, <1>5 DEF KeyInv

LEMMA KeyInductive == KeyInv /\ [KeyNext]_keyVars => KeyInv'
BY TypeStep, MemoryStep, TablesStep DEF KeyInv

-----------------------------------------------------------------------------
LEMMA KeyInvariant == KeySpec => []KeyInv
BY KeyInitInv, KeyInductive, PTL DEF KeySpec

(* Rows, buffers, the cache and the calls keep to their types.             *)
THEOREM KeyTypeCorrect == KeySpec => []KeyTypeOK
<1>1. KeyInv => KeyTypeOK
  BY DEF KeyInv
<1> QED
  BY <1>1, KeyInvariant, PTL

(* getDek never hands out a zeroed buffer, and a DEK that left the cache is *)
(* nowhere in memory but with an unfinished createInstitutionKey.          *)
THEOREM CacheCorrect == KeySpec => []CacheHoldsTheLiveKeys
<1>1. KeyInv => CacheHoldsTheLiveKeys
  BY DEF KeyInv, MemoryInv
<1> QED
  BY <1>1, KeyInvariant, PTL

(* Only an overlapping fill of the same institution zeroes a key in use.   *)
THEOREM OverlapCorrect == KeySpec => []ZeroedInUseOnlyByOverlap
<1>1. KeyInv => ZeroedInUseOnlyByOverlap
  BY DEF KeyInv, MemoryInv
<1> QED
  BY <1>1, KeyInvariant, PTL

(* Each row of entities is encrypted under one key, its institution's or   *)
(* a zeroed one, with every column bound to its name.                      *)
THEOREM RowsCorrect == KeySpec => []RowsUnderOneKey
<1>1. KeyInv => RowsUnderOneKey
  BY DEF KeyInv
<1> QED
  BY <1>1, KeyInvariant, PTL

(* An institution that holds an API key has its DEK stored.                *)
THEOREM ApiKeyCorrect == KeySpec => []ApiKeyImpliesDek
<1>1. KeyInv => ApiKeyImpliesDek
  BY DEF KeyInv
<1> QED
  BY <1>1, KeyInvariant, PTL
=============================================================================
