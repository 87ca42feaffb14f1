------------------------------- MODULE KeyManager -------------------------------
(***************************************************************************)
(* The API's envelope encryption: an institution's data encryption key     *)
(* (DEK), wrapped under the master key of the process, is generated when   *)
(* the institution is created, unwrapped on a cache miss, shared by every  *)
(* request while it is cached, and zeroed when it leaves the cache.        *)
(*                                                                         *)
(* A key is a Buffer, so who shares it and who zeroes it matters.  Each    *)
(* call makes at most one: the buffer is named after its call.  A step is  *)
(* the code between two turns of the event loop, except that getDek and    *)
(* the use of what it returns are two steps: its caller resumes in a       *)
(* microtask, and another fill whose response came in the same packet (the *)
(* postgres client pipelines) resumes between them.  Timers and crashes    *)
(* cannot come between them.                                               *)
(***************************************************************************)
EXTENDS FiniteSets

CONSTANTS
    Institutions, Wallets,
    PiiFields,      \* names of the encrypted columns
    MasterKeys,     \* values PAYCLEAR_MASTER_KEY may have at a start
    Calls,          \* requests, each served at most once
    Zero,           \* the content of a zeroed buffer
    None            \* null, or no buffer

ASSUME KeyAssumption ==
    /\ Institutions \cap {Zero, None} = {}
    /\ None \notin Calls \cup MasterKeys
    /\ Zero # None
    /\ MasterKeys # {}

(* An AES-GCM ciphertext is known by the key and the additional data       *)
(* (AAD) that authenticate it.                                             *)
Ciphertext == [key : Institutions \cup {Zero}, aad : PiiFields]

EncryptedPii == [PiiFields -> Ciphertext \cup {None}]

(* Where a call is.  "using" holds a DEK; "storing key" holds a new one.   *)
Steps == {"new", "fetching", "using", "storing key", "auditing", "done",
          "thrown", "unreadable"}

Ended == {"done", "thrown", "unreadable"}

Operations == {"createInstitution", "createEntity", "getEntity"}

VARIABLES
    institutionRows,    \* rows of institutions: wrapping of the DEK, pubkey
    entityRows,         \* <<i, w>>: the encrypted columns of an entity
    masterKey,          \* the master key of this process
    cache,              \* cache[i]: the buffer cached for i
    buffers,            \* buffers[c]: what c's buffer holds
    calls,              \* calls[c]: its operation, arguments and step
    apiKeys             \* institutions that were given an API key

keyVars == <<institutionRows, entityRows, masterKey, cache, buffers, calls, apiKeys>>

InstitutionRow == [encryptedDek : MasterKeys \cup {None}, onchainPubkey : {"pending", "set"}]

ASSUME NoneIsNoRow == None \notin InstitutionRow

EmptyPii == [f \in PiiFields |-> None]

Idle == [op |-> None, institution |-> None, wallet |-> None, step |-> "new",
         held |-> None, pii |-> EmptyPii, present |-> {}]

CallRecord ==
    [op : Operations \cup {None}, institution : Institutions \cup {None},
     wallet : Wallets \cup {None}, step : Steps, held : Calls \cup {None},
     pii : EncryptedPii, present : SUBSET PiiFields]

KeyInit ==
    /\ institutionRows = [i \in Institutions |-> None]
    /\ entityRows = [e \in Institutions \X Wallets |-> None]
    /\ masterKey \in MasterKeys
    /\ cache = [i \in Institutions |-> None]
    /\ buffers = [c \in Calls |-> None]
    /\ calls = [c \in Calls |-> Idle]
    /\ apiKeys = {}
-----------------------------------------------------------------------------
EncryptField(key, field) == [key |-> key, aad |-> field]

\* GCM authenticates before it returns a plaintext.
DecryptFails(ciphertext, key, field) == ciphertext # EncryptField(key, field)

\* A mutant of EncryptEntityPii: every column is bound to the same name.
EncryptUnderOneName(present, key) ==
    [f \in PiiFields |-> IF f \in present
                         THEN EncryptField(key, CHOOSE g \in PiiFields : TRUE) ELSE None]

\* Absent fields stay null; every other column is bound to its name.
EncryptEntityPii(present, key) ==
    [f \in PiiFields |-> IF f \in present THEN EncryptField(key, f) ELSE None]

\* The first field that fails throws, and nothing is returned.
DecryptEntityPii(pii, key) ==
    \A f \in PiiFields : pii[f] # None => ~DecryptFails(pii[f], key, f)

\* A mutant of CacheKey: the old entry is evicted after the new one is set.
CacheKeyThenEvict(c, i) ==
    /\ buffers' = [buffers EXCEPT ![c] = IF cache[i] = None THEN i ELSE Zero]
    /\ cache' = [cache EXCEPT ![i] = c]

\* evict zeroes and drops what was cached; then the new buffer is cached.
CacheKey(c, i) ==
    /\ buffers' = [b \in Calls |-> CASE b = c -> i
                                     [] b # c /\ b = cache[i] -> Zero
                                     [] OTHER -> buffers[b]]
    /\ cache' = [cache EXCEPT ![i] = c]

Goes(c, step) == calls' = [calls EXCEPT ![c].step = step]

\* getDek on a hit hands out the cached buffer itself.
GetDek(c, call) ==
    LET i == call.institution
    IN  calls' = [calls EXCEPT ![c] =
            IF cache[i] # None
            THEN [call EXCEPT !.step = "using", !.held = cache[i]]
            ELSE [call EXCEPT !.step = "fetching"]]
-----------------------------------------------------------------------------
(* The row is inserted with the placeholder "pending" in a unique column;  *)
(* a DEK is then generated and wrapped, and its UPDATE awaited.            *)
CreateInstitution(c, i) ==
    LET called == [Idle EXCEPT !.op = "createInstitution", !.institution = i]
        unique == /\ institutionRows[i] = None
                  /\ \A j \in Institutions :
                        institutionRows[j] # None => institutionRows[j].onchainPubkey # "pending"
    IN  /\ calls[c].step = "new"
        /\ \/ /\ unique
              /\ institutionRows' = [institutionRows EXCEPT ![i] =
                    [encryptedDek |-> None, onchainPubkey |-> "pending"]]
              /\ buffers' = [buffers EXCEPT ![c] = i]
              /\ calls' = [calls EXCEPT ![c] = [called EXCEPT !.step = "storing key", !.held = c]]
           \/ /\ ~unique
              /\ calls' = [calls EXCEPT ![c] = [called EXCEPT !.step = "thrown"]]
              /\ UNCHANGED <<institutionRows, buffers>>
        /\ UNCHANGED <<entityRows, masterKey, cache, apiKeys>>

\* The wrapped DEK is stored, then the buffer is cached.
CreateInstitutionKey(c) ==
    /\ calls[c].step = "storing key"
    /\ LET i == calls[c].institution
       IN  /\ institutionRows' = [institutionRows EXCEPT ![i].encryptedDek = masterKey]
           /\ CacheKey(c, i)
    /\ Goes(c, "auditing")
    /\ UNCHANGED <<entityRows, masterKey, apiKeys>>

\* A mutant of KeyStored: createInstitutionKey is not awaited.
KeyUnawaited(c) == calls[c].step \in {"storing key", "auditing"}

KeyStored(c) == calls[c].step = "auditing"

\* The audit event is the last await before the API key is returned.
ReturnApiKey(c) ==
    /\ KeyStored(c)
    /\ apiKeys' = apiKeys \cup {calls[c].institution}
    /\ Goes(c, "done")
    /\ UNCHANGED <<institutionRows, entityRows, masterKey, cache, buffers>>

\* The registration "pending" waits for; nothing in the repository does it.
SetOnchainPubkey(i) ==
    /\ institutionRows[i] # None
    /\ institutionRows[i].onchainPubkey = "pending"
    /\ institutionRows' = [institutionRows EXCEPT ![i].onchainPubkey = "set"]
    /\ UNCHANGED <<entityRows, masterKey, cache, buffers, calls, apiKeys>>

CreateEntity(c, i, w, present) ==
    /\ calls[c].step = "new"
    /\ i \in apiKeys
    /\ GetDek(c, [Idle EXCEPT !.op = "createEntity", !.institution = i,
                              !.wallet = w, !.present = present])
    /\ UNCHANGED <<institutionRows, entityRows, masterKey, cache, buffers, apiKeys>>

GetEntity(c, i, w) ==
    /\ calls[c].step = "new"
    /\ i \in apiKeys
    /\ entityRows[<<i, w>>] # None
    /\ GetDek(c, [Idle EXCEPT !.op = "getEntity", !.institution = i, !.wallet = w,
                              !.pii = entityRows[<<i, w>>]])
    /\ UNCHANGED <<institutionRows, entityRows, masterKey, cache, buffers, apiKeys>>

\* The rest of getDek on a miss: unwrap what the row holds, and cache it.
FillDek(c) ==
    LET i == calls[c].institution
        wrapped == institutionRows[i].encryptedDek
    IN  /\ calls[c].step = "fetching"
        /\ \/ /\ wrapped = masterKey
              /\ CacheKey(c, i)
              /\ calls' = [calls EXCEPT ![c].step = "using", ![c].held = c]
           \/ /\ wrapped # masterKey
              /\ Goes(c, "thrown")
              /\ UNCHANGED <<buffers, cache>>
        /\ UNCHANGED <<institutionRows, entityRows, masterKey, apiKeys>>

\* The unique constraint on (institution, wallet) refuses a second row.
EncryptAndInsert(c) ==
    LET call == calls[c]
        e == <<call.institution, call.wallet>>
    IN  /\ call.step = "using" /\ call.op = "createEntity"
        /\ \/ /\ entityRows[e] = None
              /\ entityRows' = [entityRows EXCEPT ![e] =
                                  EncryptEntityPii(call.present, buffers[call.held])]
              /\ Goes(c, "done")
           \/ /\ entityRows[e] # None
              /\ Goes(c, "thrown")
              /\ UNCHANGED entityRows
        /\ UNCHANGED <<institutionRows, masterKey, cache, buffers, apiKeys>>

Decrypt(c) ==
    LET call == calls[c]
    IN  /\ call.step = "using" /\ call.op = "getEntity"
        /\ Goes(c, IF DecryptEntityPii(call.pii, buffers[call.held])
                   THEN "done" ELSE "unreadable")
        /\ UNCHANGED <<institutionRows, entityRows, masterKey, cache, buffers, apiKeys>>

\* A query that fails ends its call; a generated DEK is then left as it is.
QueryFails(c) ==
    /\ calls[c].step \in {"fetching", "storing key", "auditing"}
    /\ Goes(c, "thrown")
    /\ UNCHANGED <<institutionRows, entityRows, masterKey, cache, buffers, apiKeys>>

\* A mutant of NobodyUsing: a caller awaits something before it uses the key.
UsingAwaits == TRUE

NobodyUsing == \A c \in Calls : calls[c].step # "using"

\* The timer of a cached key: evict.
TtlExpires(i) ==
    /\ NobodyUsing
    /\ cache[i] # None
    /\ buffers' = [buffers EXCEPT ![cache[i]] = Zero]
    /\ cache' = [cache EXCEPT ![i] = None]
    /\ UNCHANGED <<institutionRows, entityRows, masterKey, calls, apiKeys>>

\* The process ends; the next one reads its own master key.
Restart(key) ==
    /\ NobodyUsing
    /\ masterKey' = key
    /\ cache' = [i \in Institutions |-> None]
    /\ buffers' = [c \in Calls |-> None]
    /\ calls' = [c \in Calls |-> IF calls[c].step \in Ended \cup {"new"}
                                 THEN [calls[c] EXCEPT !.held = None]
                                 ELSE [calls[c] EXCEPT !.held = None, !.step = "thrown"]]
    /\ UNCHANGED <<institutionRows, entityRows, apiKeys>>

KeyNext ==
    \/ \E c \in Calls :
        \/ \E i \in Institutions : CreateInstitution(c, i)
        \/ CreateInstitutionKey(c)
        \/ ReturnApiKey(c)
        \/ \E i \in Institutions, w \in Wallets, present \in SUBSET PiiFields :
              CreateEntity(c, i, w, present)
        \/ \E i \in Institutions, w \in Wallets : GetEntity(c, i, w)
        \/ FillDek(c)
        \/ EncryptAndInsert(c)
        \/ Decrypt(c)
        \/ QueryFails(c)
    \/ \E i \in Institutions : SetOnchainPubkey(i) \/ TtlExpires(i)
    \/ \E key \in MasterKeys : Restart(key)

KeySpec == KeyInit /\ [][KeyNext]_keyVars
-----------------------------------------------------------------------------
(* Rows, buffers, the cache and the calls keep to their types.             *)
KeyTypeOK ==
    /\ institutionRows \in [Institutions -> InstitutionRow \cup {None}]
    /\ entityRows \in [Institutions \X Wallets -> EncryptedPii \cup {None}]
    /\ masterKey \in MasterKeys
    /\ cache \in [Institutions -> Calls \cup {None}]
    /\ buffers \in [Calls -> Institutions \cup {Zero, None}]
    /\ calls \in [Calls -> CallRecord]
    /\ apiKeys \subseteq Institutions

(* The cache holds the live keys and only those.  What it hands out is the *)
(* institution's own DEK, never a zeroed buffer: every request of the next *)
(* five minutes shares it.  And a buffer that still holds a DEK is cached, *)
(* unless a createInstitutionKey made it and has not stored it, for lack   *)
(* of time or because the UPDATE failed.                                   *)
CacheHoldsTheLiveKeys ==
    /\ \A i \in Institutions : cache[i] # None => buffers[cache[i]] = i
    /\ \A c \in Calls : buffers[c] \in Institutions =>
          \/ cache[buffers[c]] = c
          \/ calls[c].op = "createInstitution" /\ calls[c].step \in {"storing key", "thrown"}

(* A caller finds its key zeroed only when a second fill of the same       *)
(* institution has replaced it in the cache: expiry alone never does it.   *)
ZeroedInUseOnlyByOverlap ==
    \A c \in Calls : calls[c].step = "using" /\ buffers[calls[c].held] = Zero =>
        LET i == calls[c].institution
        IN  /\ cache[i] \notin {None, calls[c].held}
            /\ calls[cache[i]].institution = i

(* A row is written whole under one key, each column bound to its name:    *)
(* the institution's DEK, or all zeroes after an overlap, never a mixture. *)
RowsUnderOneKey ==
    \A e \in Institutions \X Wallets : entityRows[e] # None =>
        \E key \in {e[1], Zero} : DecryptEntityPii(entityRows[e], key)

(* An institution has an API key only once its DEK is stored, whatever     *)
(* failed or crashed on the way: no request of its own can meet "Encryption *)
(* key not found".                                                         *)
ApiKeyImpliesDek ==
    \A i \in apiKeys : institutionRows[i] # None /\ institutionRows[i].encryptedDek # None

(* What createEntity stores can be read back under the institution's DEK.  *)
StoredPiiIsReadable ==
    \A e \in Institutions \X Wallets :
        entityRows[e] # None => DecryptEntityPii(entityRows[e], e[1])
=============================================================================
