------------------------- MODULE SecretStoreProofs -------------------------
(* Proofs about SecretStore. *)
EXTENDS SecretStore, FiniteSetTheorems, TLAPS

(* upgraded() yields a key file or nothing; the address is kept or zeroed. *)
LEMMA UpgradedType ==
    ASSUME NEW r \in RawFile PROVE upgraded(r) \in KeyFile \cup {Torn}
BY DEF upgraded, RawFile, KeyFile, Address, ZeroAddress

LEMMA KeyFilesType == KeyFiles \subseteq KeyFile
BY UpgradedType, ConstantsAssumption DEF KeyFiles

(* What load() can make of the directory: an entry for every file, under   *)
(* its id, and the previous entry where no file has the id.                *)
LEMMA LoadType ==
    ASSUME TypeOK, NEW keys \in [Uuids -> EncryptedKey \cup {None}], NEW ks \in load(keys)
    PROVE  /\ ks \in [Uuids -> EncryptedKey \cup {None}]
           /\ \A u \in Uuids :
                 \/ ks[u] = keys[u]
                 \/ \E f \in FileNames : Readable(f) /\ disk[f].id = u /\ ks[u] = EntryOf(disk[f], f)
<1>1. DOMAIN ks = Uuids /\ ks = [u \in Uuids |-> ks[u]]
  BY DEF load
<1>2. ASSUME NEW u \in Uuids PROVE ks[u] \in LoadChoices(keys, u)
  BY <1>2 DEF load
<1>3. ASSUME NEW u \in Uuids
      PROVE \/ ks[u] = keys[u]
            \/ \E f \in FileNames : Readable(f) /\ disk[f].id = u /\ ks[u] = EntryOf(disk[f], f)
  BY <1>2, <1>3 DEF LoadChoices
<1>4. ASSUME NEW f \in FileNames, Readable(f) PROVE EntryOf(disk[f], f) \in EncryptedKey
  <2>1. disk[f] \in KeyFile
    BY <1>4 DEF TypeOK, Readable
  <2>. QED
    BY <2>1 DEF EntryOf, EncryptedKey, KeyFile
<1>5. ASSUME NEW u \in Uuids PROVE ks[u] \in EncryptedKey \cup {None}
  BY <1>3, <1>4, <1>5
<1>. QED
  BY <1>1, <1>3, <1>5

(* The two outcomes of SaveWrite: the text reaches the file, or the device *)
(* is full and it does not.                                                *)
SaveWritten ==
    /\ up /\ phase = "write"
    /\ disk' = [disk EXCEPT ![cur] = FileOf(cur)]
    /\ SwapFilename

SaveWriteShort ==
    /\ "full" \in Faults
    /\ up /\ phase = "write"
    /\ UNCHANGED disk
    /\ SwapFilename

LEMMA SaveStepCases ==
    SaveStep => (\E u \in Uuids : SaveOpen(u)) \/ SaveWritten \/ SaveWriteShort \/ SaveRemoveOld
BY DEF SaveStep, SaveWrite, SaveWritten, SaveWriteShort

-----------------------------------------------------------------------------
(* Type correctness.  It rests on the discipline of save(): the keys still *)
(* to be visited, and the one being written, are stored.                   *)

Shape ==
    /\ phase # "idle" => up
    /\ phase = "idle" \/ ~m_path => todo = {}
    /\ todo \subseteq Stored
    /\ phase \in {"write", "remove"} => cur \in todo
    /\ phase = "remove" => m_keys[cur].file = cur

TypeInv == TypeOK /\ Shape

(* What secret() leaves behind. *)
LEMMA SecretType ==
    ASSUME TypeOK, NEW u \in Uuids, NEW p \in Passes, NEW c \in BOOLEAN
    PROVE  /\ Secret(u, p, c) \in Secrets \cup {None}
           /\ CachedAfter(u, p, c) \in [Uuids -> Secrets \cup {None}]
           /\ KeysAfter(u, p, c) \in [Uuids -> EncryptedKey \cup {None}]
           /\ \A v \in Uuids : v # u => KeysAfter(u, p, c)[v] = m_keys[v]
           /\ KeysAfter(u, p, c)[u] # None <=> m_keys[u] # None
           /\ m_keys[u] # None =>
                 /\ KeysAfter(u, p, c)[u].sec = m_keys[u].sec
                 /\ KeysAfter(u, p, c)[u].pass = m_keys[u].pass
                 /\ KeysAfter(u, p, c)[u].file = m_keys[u].file
                 /\ KeysAfter(u, p, c)[u].addr \in {m_keys[u].addr, AddressOf[m_keys[u].sec]}
<1>1. Secret(u, p, c) \in Secrets \cup {None}
  BY DEF TypeOK, Secret, CacheHit, decrypt, EncryptedKey
<1>2. CachedAfter(u, p, c) \in [Uuids -> Secrets \cup {None}]
  BY <1>1 DEF TypeOK, CachedAfter
<1>3. CASE ~Decrypts(u, p, c)
  BY <1>1, <1>2, <1>3 DEF KeysAfter, TypeOK
<1>4. CASE Decrypts(u, p, c)
  <2>1. m_keys[u] \in EncryptedKey /\ Secret(u, p, c) = m_keys[u].sec
    BY <1>4 DEF Decrypts, Secret, decrypt, TypeOK
  <2> DEFINE e == noteAddress(m_keys[u], m_keys[u].sec)
  <2>2. /\ e \in EncryptedKey
        /\ e.sec = m_keys[u].sec /\ e.pass = m_keys[u].pass /\ e.file = m_keys[u].file
        /\ e.addr \in {m_keys[u].addr, AddressOf[m_keys[u].sec]}
    BY <2>1, ConstantsAssumption DEF noteAddress, EncryptedKey
  <2>3. e # None
    BY <2>2, SentinelAssumption
  <2>4. KeysAfter(u, p, c) = [m_keys EXCEPT ![u] = e]
    BY <1>4, <2>1 DEF KeysAfter
  <2> HIDE DEF e
  <2>5. m_keys[u] # None
    BY <2>1, SentinelAssumption
  <2>. QED
    BY <1>1, <1>2, <2>2, <2>3, <2>4, <2>5 DEF TypeOK
<1>. QED
  BY <1>3, <1>4

LEMMA TypeInit == Init => TypeInv
<1> SUFFICES ASSUME Init PROVE TypeInv
  OBVIOUS
<1>1. disk \in [FileNames -> KeyFile \cup {None, Torn}]
  BY KeyFilesType DEF Init
<1>2. m_keys \in [Uuids -> EncryptedKey \cup {None}] /\ m_cached \in [Uuids -> Secrets \cup {None}]
  BY DEF Init, NoKeys
<1>3. restarts \in 0 .. MaxRestarts
  BY ConstantsAssumption DEF Init
<1>4. TypeOK
  BY <1>1, <1>2, <1>3 DEF Init, TypeOK
<1>. QED
  BY <1>4 DEF Init, TypeInv, Shape

(* BeginSave starts from a correctly typed m_keys'. *)
LEMMA TypeBegin ==
    ASSUME TypeInv, Idle, BeginSave,
           m_keys' \in [Uuids -> EncryptedKey \cup {None}],
           m_cached' \in [Uuids -> Secrets \cup {None}]
    PROVE  TypeInv'
BY DEF TypeInv, TypeOK, Shape, Idle, BeginSave, Stored

(* The steps of save() keep the types. *)
LEMMA TypeSave ==
    ASSUME TypeInv, SaveStep \/ SaveReturn \/ SaveThrows PROVE TypeInv'
<1>1. ASSUME NEW u \in Uuids, SaveOpen(u) PROVE TypeInv'
  <2>1. disk' \in [FileNames -> KeyFile \cup {None, Torn}]
    BY <1>1 DEF SaveOpen, TypeInv, TypeOK
  <2>. QED
    BY <1>1, <2>1 DEF SaveOpen, TypeInv, TypeOK, Shape, Stored
<1>2. ASSUME up, phase = "write", SwapFilename,
             disk' \in [FileNames -> KeyFile \cup {None, Torn}]
      PROVE TypeInv'
  <2>1. cur \in Uuids /\ m_keys[cur] \in EncryptedKey /\ cur \in FileNames
    BY <1>2 DEF TypeInv, TypeOK, Shape, Stored, FileNames
  <2> DEFINE e == EntryOf(m_keys[cur], cur)
  <2>2. e \in EncryptedKey /\ e.file = cur /\ m_keys[cur].file \in FileNames \cup {None}
    BY <2>1 DEF EncryptedKey, EntryOf
  <2>3. e # None
    BY <2>2, SentinelAssumption
  <2>4. m_keys' = [m_keys EXCEPT ![cur] = e]
    BY <1>2 DEF SwapFilename
  <2> HIDE DEF e
  <2>5. /\ m_keys' \in [Uuids -> EncryptedKey \cup {None}]
        /\ Stored' = Stored /\ m_keys'[cur].file = cur
    BY <2>1, <2>2, <2>3, <2>4, SentinelAssumption DEF TypeInv, TypeOK, Stored
  <2>. QED
    BY <1>2, <2>1, <2>2, <2>5 DEF SwapFilename, TypeInv, TypeOK, Shape
<1>3. ASSUME SaveWritten PROVE TypeInv'
  <2>1. cur \in Uuids /\ m_keys[cur] \in EncryptedKey
    BY <1>3 DEF SaveWritten, TypeInv, TypeOK, Shape, Stored
  <2>2. FileOf(cur) \in KeyFile
    BY <2>1 DEF FileOf, KeyFile, EncryptedKey
  <2>3. disk' \in [FileNames -> KeyFile \cup {None, Torn}]
    BY <1>3, <2>2 DEF SaveWritten, TypeInv, TypeOK
  <2>. QED
    BY <1>2, <1>3, <2>3 DEF SaveWritten
<1>4. ASSUME SaveWriteShort PROVE TypeInv'
  BY <1>2, <1>4 DEF SaveWriteShort, TypeInv, TypeOK
<1>5. ASSUME SaveRemoveOld PROVE TypeInv'
  <2>1. disk' \in [FileNames -> KeyFile \cup {None, Torn}]
    BY <1>5 DEF SaveRemoveOld, TypeInv, TypeOK
  <2>. QED
    BY <1>5, <2>1 DEF SaveRemoveOld, TypeInv, TypeOK, Shape, Stored
<1>6. ASSUME SaveReturn \/ SaveThrows PROVE TypeInv'
  BY <1>6 DEF SaveReturn, SaveThrows, SaveOpenFails, SaveRemoveFails, EndSave, TypeInv, TypeOK, Shape, Stored
<1>. QED
  BY <1>1, <1>3, <1>4, <1>5, <1>6, SaveStepCases

LEMMA TypeImport ==
    ASSUME TypeInv, NEW u \in Uuids, NEW s \in Secrets, NEW p \in Passes, importSecret(u, s, p)
    PROVE  TypeInv'
<1> DEFINE e == [sec |-> s, pass |-> p, addr |-> AddressOf[s], file |-> None]
<1>1. e \in EncryptedKey
  BY ConstantsAssumption DEF EncryptedKey
<1>2. m_keys' = [m_keys EXCEPT ![u] = e]
  BY DEF importSecret
<1> HIDE DEF e
<1>. QED
  BY <1>1, <1>2, TypeBegin DEF importSecret, TypeInv, TypeOK

LEMMA TypeImportKey ==
    ASSUME TypeInv, NEW k \in KeyFiles, importKey(k) PROVE TypeInv'
<1>1. k \in KeyFile
  BY KeyFilesType
<1>2. EntryOf(k, None) \in EncryptedKey
  BY <1>1 DEF EntryOf, EncryptedKey, KeyFile
<1>3. m_keys' \in [Uuids -> EncryptedKey \cup {None}]
  BY <1>1, <1>2 DEF importKey, TypeInv, TypeOK
<1>. QED
  BY <1>3, TypeBegin DEF importKey, TypeInv, TypeOK

LEMMA TypeRecode ==
    ASSUME TypeInv, NEW u \in Uuids, NEW p \in Passes, NEW q \in Passes,
           recode(u, p, q) \/ recodeAddress(u, p, q)
    PROVE  TypeInv'
<1>1. CASE recode(u, p, q)
  <2> DEFINE s == Secret(u, p, TRUE)
             keys == KeysAfter(u, p, TRUE)
             e == Recoded(keys[u], s, q)
  <2>1. s \in Secrets /\ keys \in [Uuids -> EncryptedKey \cup {None}]
    BY <1>1, SecretType DEF recode, TypeInv
  <2>2. e \in EncryptedKey
    <3> HIDE DEF s, keys
    <3>1. keys[u] \in EncryptedKey \cup {None}
      BY <2>1
    <3>. QED
      BY <2>1, <3>1 DEF Recoded, EncryptedKey, Address, ZeroAddress
  <2>3. m_keys' = [keys EXCEPT ![u] = e]
    BY <1>1, <2>1 DEF recode
  <2> HIDE DEF s, keys, e
  <2>4. m_keys' \in [Uuids -> EncryptedKey \cup {None}]
    BY <2>1, <2>2, <2>3
  <2>. QED
    BY <1>1, <2>4, TypeBegin DEF recode, TypeInv, TypeOK
<1>2. CASE recodeAddress(u, p, q)
  <2>1. m_keys[u] \in EncryptedKey
    BY <1>2 DEF recodeAddress, Stored, TypeInv, TypeOK
  <2>2. m_keys' \in [Uuids -> EncryptedKey \cup {None}]
    <3>1. Recoded(m_keys[u], m_keys[u].sec, q) \in EncryptedKey
      BY <2>1, SentinelAssumption DEF Recoded, EncryptedKey
    <3>. QED
      BY <1>2, <3>1 DEF recodeAddress, TypeInv, TypeOK
  <2>. QED
    BY <1>2, <2>2, TypeBegin DEF recodeAddress, TypeInv, TypeOK
<1>. QED
  BY <1>1, <1>2

(* The operations that do not save keep the types. *)
LEMMA TypeOthers ==
    ASSUME TypeInv,
           \/ \E w \in BOOLEAN : Start(w)
           \/ Stop \/ clearCache \/ setPath
           \/ \E u \in Uuids, p \in Passes, c \in BOOLEAN : secret(u, p, c)
           \/ \E u \in Uuids : kill(u) \/ killThrows(u)
    PROVE  TypeInv'
<1>0. NoKeys \in [Uuids -> EncryptedKey \cup {None}] /\ NoKeys \in [Uuids -> Secrets \cup {None}]
  BY DEF NoKeys
<1>1. ASSUME NEW w \in BOOLEAN, Start(w) PROVE TypeInv'
  <2>1. m_keys' \in [Uuids -> EncryptedKey \cup {None}]
    BY <1>0, <1>1, LoadType DEF Start, TypeInv
  <2>. QED
    BY <1>0, <1>1, <2>1 DEF Start, saveVars, TypeInv, TypeOK, Shape, Stored
<1>2. CASE Stop
  <2>1. restarts' \in 0 .. MaxRestarts
    BY <1>2, ConstantsAssumption DEF Stop, TypeInv, TypeOK
  <2>. QED
    BY <1>0, <1>2, <2>1 DEF Stop, EndSave, TypeInv, TypeOK, Shape, Stored
<1>3. CASE clearCache
  BY <1>3 DEF clearCache, saveVars, Idle, TypeInv, TypeOK, Shape, Stored
<1>4. CASE setPath
  <2>1. m_keys' \in [Uuids -> EncryptedKey \cup {None}]
    BY <1>4, LoadType DEF setPath, TypeInv, TypeOK
  <2>. QED
    BY <1>4, <2>1 DEF setPath, saveVars, Idle, TypeInv, TypeOK, Shape, Stored
<1>5. ASSUME NEW u \in Uuids, NEW p \in Passes, NEW c \in BOOLEAN, secret(u, p, c) PROVE TypeInv'
  <2>1. /\ m_keys' \in [Uuids -> EncryptedKey \cup {None}]
        /\ m_cached' \in [Uuids -> Secrets \cup {None}]
    BY <1>5, SecretType DEF secret, TypeInv
  <2>. QED
    BY <1>5, <2>1 DEF secret, saveVars, Idle, TypeInv, TypeOK, Shape, Stored
<1>6. ASSUME NEW u \in Uuids, kill(u) \/ killThrows(u) PROVE TypeInv'
  <2>1. disk' \in [FileNames -> KeyFile \cup {None, Torn}]
    BY <1>6 DEF kill, killThrows, TypeInv, TypeOK
  <2>2. /\ m_keys' \in [Uuids -> EncryptedKey \cup {None}]
        /\ m_cached' \in [Uuids -> Secrets \cup {None}]
    BY <1>6 DEF kill, killThrows, TypeInv, TypeOK
  <2>. QED
    BY <1>6, <2>1, <2>2 DEF kill, killThrows, saveVars, Idle, TypeInv, TypeOK, Shape, Stored
<1>. QED
  BY <1>1, <1>2, <1>3, <1>4, <1>5, <1>6

LEMMA TypeNext == ASSUME TypeInv, [Next]_vars PROVE TypeInv'
<1>1. CASE UNCHANGED vars
  BY <1>1 DEF vars, TypeInv, TypeOK, Shape, Stored
<1>. QED
  BY <1>1, TypeSave, TypeImport, TypeImportKey, TypeRecode, TypeOthers DEF Next

(* The type invariant holds in every reachable state: in particular every  *)
(* entry of m_keys that save() writes was built from a real secret.        *)
THEOREM TypeCorrect == Spec => []TypeOK
<1>1. TypeInv /\ [Next]_vars => TypeInv'
  BY TypeNext
<1>2. TypeInv => TypeOK
  BY DEF TypeInv
<1>. QED
  BY <1>1, <1>2, TypeInit, PTL DEF Spec

-----------------------------------------------------------------------------
(* KeyIdentity.  An entry of memory after a step is derived from a copy    *)
(* that existed before it; so is every file.  Only importSecret makes a    *)
(* copy from nothing, and its uuid is fresh.                               *)

IdentityInv == TypeInv /\ KeyIdentity

LEMMA MemoryCopy ==
    ASSUME NEW u \in Stored
    PROVE  /\ FileOf(u) \in Copies
           /\ FileOf(u).id = u /\ FileOf(u).sec = m_keys[u].sec /\ FileOf(u).addr = m_keys[u].addr
BY DEF Copies, FileOf

LEMMA DiskCopy == ASSUME NEW f \in FileNames, Readable(f) PROVE disk[f] \in Copies
BY DEF Copies

(* The copy an entry e of key u comes from. *)
From(e, u) == \E d \in Copies : d.id = u /\ d.sec = e.sec /\ e.addr \in {d.addr, AddressOf[d.sec]}

LEMMA FromMemory == ASSUME NEW u \in Stored PROVE From(m_keys[u], u)
BY MemoryCopy DEF From

(* A step makes no key of its own: what is in memory after it comes from a *)
(* copy that existed, and what is in the directory is such a copy.         *)
DerivedCopies ==
    /\ \A u \in Stored' : From(m_keys'[u], u)
    /\ \A f \in FileNames : Readable(f)' => disk'[f] \in Copies

(* The copy d that c comes from. *)
Similar(c, d) == d.id = c.id /\ d.sec = c.sec /\ c.addr \in {d.addr, AddressOf[d.sec]}

LEMMA DerivedSimilar ==
    ASSUME DerivedCopies, NEW c \in Copies' PROVE \E d \in Copies : Similar(c, d)
<1> USE DEF Similar
<1>1. CASE \E u \in Stored' : c = FileOf(u)'
  <2>1. PICK u \in Stored' : c = FileOf(u)'
    BY <1>1
  <2>2. c.id = u /\ c.sec = m_keys'[u].sec /\ c.addr = m_keys'[u].addr
    BY <2>1 DEF FileOf
  <2>. QED
    BY <2>2 DEF From, DerivedCopies
<1>2. CASE \E f \in FileNames : Readable(f)' /\ c = disk'[f]
  BY <1>2 DEF DerivedCopies
<1>3. CASE c \in KeyFiles
  BY <1>3 DEF Copies
<1>. QED
  BY <1>1, <1>2, <1>3 DEF Copies

LEMMA Derive ==
    ASSUME OneSecretPerUuid, AddressesRight, DerivedCopies
    PROVE  OneSecretPerUuid' /\ AddressesRight'
<1>1. ASSUME NEW c \in Copies' PROVE \E d \in Copies : Similar(c, d)
  BY DerivedSimilar
<1>2. OneSecretPerUuid'
  <2> SUFFICES ASSUME NEW c \in Copies', NEW d \in Copies', c.id = d.id PROVE c.sec = d.sec
    BY DEF OneSecretPerUuid
  <2>. QED
    BY <1>1 DEF OneSecretPerUuid, Similar
<1>3. AddressesRight'
  <2> SUFFICES ASSUME NEW c \in Copies' PROVE c.addr \in {ZeroAddress, AddressOf[c.sec]}
    BY DEF AddressesRight
  <2>. QED
    BY <1>1 DEF AddressesRight, Similar
<1>. QED
  BY <1>2, <1>3

LEMMA IdentityInit == Init => IdentityInv
<1> SUFFICES ASSUME Init PROVE IdentityInv
  OBVIOUS
<1>1. TypeInv
  BY TypeInit
<1>2. Stored = {}
  BY DEF Init, Stored, NoKeys
<1>3. Copies \subseteq KeyFiles
  BY <1>2 DEF Copies, Init, Readable
<1>4. OneSecretPerUuid /\ AddressesRight
  BY <1>3, KeyFilesAssumption DEF OneSecretPerUuid, AddressesRight
<1>5. CacheSound
  BY DEF CacheSound, Init, NoKeys
<1>. QED
  BY <1>1, <1>4, <1>5 DEF IdentityInv, KeyIdentity

(* save() changes nothing of a key but the name of its file. *)
LEMMA SaveKeepsKeys ==
    ASSUME TypeInv, SaveStep \/ SaveReturn \/ SaveThrows
    PROVE  /\ m_cached' = m_cached /\ Stored' = Stored
           /\ \A u \in Stored : m_keys'[u].sec = m_keys[u].sec /\ m_keys'[u].addr = m_keys[u].addr
<1> DEFINE SameKeys ==
       \A u \in Uuids : /\ m_keys'[u] = None <=> m_keys[u] = None
                        /\ u \in Stored => m_keys'[u].sec = m_keys[u].sec /\ m_keys'[u].addr = m_keys[u].addr
<1>1. m_cached' = m_cached /\ SameKeys
  <2>1. ASSUME SwapFilename, phase = "write" PROVE m_cached' = m_cached /\ SameKeys
    <3>1. cur \in Uuids /\ m_keys[cur] \in EncryptedKey /\ cur \in FileNames
      BY <2>1 DEF TypeInv, TypeOK, Shape, Stored, FileNames
    <3>2. /\ EntryOf(m_keys[cur], cur) \in EncryptedKey
          /\ EntryOf(m_keys[cur], cur).sec = m_keys[cur].sec
          /\ EntryOf(m_keys[cur], cur).addr = m_keys[cur].addr
      BY <3>1 DEF EntryOf, EncryptedKey
    <3>. QED
      BY <2>1, <3>1, <3>2, SentinelAssumption DEF SwapFilename, TypeInv, TypeOK
  <2>. QED
    BY <2>1, SaveStepCases DEF SaveOpen, SaveWritten, SaveWriteShort, SaveRemoveOld, SaveReturn,
                SaveThrows, SaveOpenFails, SaveRemoveFails
<1>. QED
  BY <1>1 DEF Stored

(* secret and recode change no more of the set of keys. *)
LEMMA SecretStores ==
    ASSUME TypeOK, NEW u \in Uuids, NEW p \in Passes, NEW c \in BOOLEAN, secret(u, p, c) PROVE Stored' = Stored
<1>1. m_keys' = KeysAfter(u, p, c)
  BY DEF secret
<1>2. /\ \A v \in Uuids : v # u => m_keys'[v] = m_keys[v]
      /\ m_keys'[u] # None <=> m_keys[u] # None
  BY <1>1, SecretType
<1>. QED
  BY <1>2 DEF Stored

LEMMA RecodeStores ==
    ASSUME IdentityInv, NEW u \in Uuids, NEW p \in Passes, NEW q \in Passes, recode(u, p, q)
    PROVE  Stored' = Stored /\ phase' = "loop"
<1> DEFINE s == Secret(u, p, TRUE)
           keys == KeysAfter(u, p, TRUE)
           e == Recoded(keys[u], s, q)
<1>1. /\ s \in Secrets /\ keys \in [Uuids -> EncryptedKey \cup {None}]
      /\ \A v \in Uuids : v # u => keys[v] = m_keys[v]
  BY SecretType DEF recode, IdentityInv, TypeInv
<1>2. u \in Stored
  BY DEF recode, Secret, CacheHit, Stored, IdentityInv, KeyIdentity, CacheSound
<1>3. m_keys' = [keys EXCEPT ![u] = e] /\ phase' = "loop"
  BY DEF recode, BeginSave
<1> HIDE DEF s, keys
<1>4. keys[u] \in EncryptedKey \cup {None}
  BY <1>1
<1>5. e \in EncryptedKey
  BY <1>1, <1>4 DEF Recoded, EncryptedKey, Address, ZeroAddress
<1> HIDE DEF e
<1>. QED
  BY <1>1, <1>2, <1>3, <1>5, SentinelAssumption DEF Stored

LEMMA IdentitySave ==
    ASSUME IdentityInv, SaveStep \/ SaveReturn \/ SaveThrows PROVE DerivedCopies /\ KeyIdentity'
<1> USE DEF IdentityInv, KeyIdentity
<1>0. /\ m_cached' = m_cached
      /\ \A u \in Stored : m_keys'[u].sec = m_keys[u].sec /\ m_keys'[u].addr = m_keys[u].addr
  BY SaveKeepsKeys
<1>1. Stored' = Stored
  BY SaveKeepsKeys
<1>2. ASSUME NEW u \in Stored' PROVE From(m_keys'[u], u)
  BY <1>0, <1>1, <1>2, FromMemory DEF From, Stored
<1>3. ASSUME NEW f \in FileNames, Readable(f)' PROVE disk'[f] \in Copies
  <2>1. CASE disk'[f] = disk[f]
    BY <1>3, <2>1, DiskCopy DEF Readable
  <2>2. CASE disk'[f] # disk[f]
    <3>1. SaveWritten /\ f = cur
      BY <1>3, <2>2, SaveStepCases DEF Readable, SaveOpen, SaveWritten, SaveWriteShort, SaveRemoveOld,
                         SaveReturn, SaveThrows, SaveOpenFails, SaveRemoveFails, TypeInv, TypeOK
    <3>2. cur \in Stored
      BY <3>1 DEF SaveWritten, TypeInv, Shape
    <3>. QED
      BY <3>1, <3>2, MemoryCopy DEF SaveWritten, TypeInv, TypeOK
  <2>. QED
    BY <2>1, <2>2
<1>4. CacheSound'
  BY <1>0, <1>1 DEF CacheSound, Stored
<1>. QED
  BY <1>2, <1>3, <1>4, Derive DEF DerivedCopies

LEMMA IdentityImport ==
    ASSUME IdentityInv, NEW u \in Uuids, NEW s \in Secrets, NEW p \in Passes, importSecret(u, s, p)
    PROVE  /\ KeyIdentity'
           /\ \A c \in Copies' : c \in Copies \/ (c.id = u /\ c.sec = s /\ c.addr = AddressOf[s])
<1> USE DEF IdentityInv, KeyIdentity
<1> DEFINE e == [sec |-> s, pass |-> p, addr |-> AddressOf[s], file |-> None]
           n == FileOf(u)'
<1>1. /\ e \in EncryptedKey /\ e.sec = s /\ e.addr = AddressOf[s]
      /\ m_keys' = [m_keys EXCEPT ![u] = e]
      /\ m_cached' = [m_cached EXCEPT ![u] = s] /\ disk' = disk
  BY ConstantsAssumption DEF importSecret, BeginSave, EncryptedKey
<1>2. e # None
  BY <1>1, SentinelAssumption
<1> HIDE DEF e
<1>3. Stored' = Stored \cup {u} /\ m_keys'[u] = e /\ \A v \in Uuids : v # u => m_keys'[v] = m_keys[v]
  BY <1>1, <1>2 DEF Stored, TypeInv, TypeOK
<1>4. n.id = u /\ n.sec = s /\ n.addr = AddressOf[s]
  BY <1>1, <1>3 DEF FileOf
<1>5. ASSUME NEW c \in Copies', c # n PROVE c \in Copies
  <2>1. CASE \E v \in Stored' : c = FileOf(v)'
    <3>1. PICK v \in Stored' : c = FileOf(v)'
      BY <2>1
    <3>2. v # u /\ v \in Stored
      BY <1>3, <1>5, <3>1
    <3>3. m_keys'[v] = m_keys[v]
      BY <1>3, <3>2 DEF Stored
    <3>. QED
      BY <3>1, <3>2, <3>3, MemoryCopy DEF FileOf
  <2>. QED
    BY <1>1, <1>5, <2>1 DEF Copies, Readable
<1>6. \A c \in Copies : c.id # u
  BY DEF importSecret, FreshUuid
<1>7. OneSecretPerUuid'
  <2> SUFFICES ASSUME NEW c \in Copies', NEW d \in Copies', c.id = d.id PROVE c.sec = d.sec
    BY DEF OneSecretPerUuid
  <2> HIDE DEF n
  <2>. QED
    BY <1>4, <1>5, <1>6 DEF OneSecretPerUuid
<1>8. AddressesRight'
  <2> SUFFICES ASSUME NEW c \in Copies' PROVE c.addr \in {ZeroAddress, AddressOf[c.sec]}
    BY DEF AddressesRight
  <2> HIDE DEF n
  <2>. QED
    BY <1>4, <1>5 DEF AddressesRight
<1>9. CacheSound'
  BY <1>1, <1>3 DEF CacheSound, TypeInv, TypeOK
<1>. QED
  BY <1>4, <1>5, <1>7, <1>8, <1>9

LEMMA IdentityImportKey ==
    ASSUME IdentityInv, NEW k \in KeyFiles, importKey(k) PROVE DerivedCopies /\ KeyIdentity'
<1> USE DEF IdentityInv, KeyIdentity
<1>1. k \in KeyFile /\ k \in Copies
  BY KeyFilesType DEF Copies
<1>2. /\ EntryOf(k, None).sec = k.sec /\ EntryOf(k, None).addr = k.addr
      /\ EntryOf(k, None) \in EncryptedKey
  BY <1>1 DEF EntryOf, EncryptedKey, KeyFile
<1>3. k.id \in Uuids
  BY <1>1 DEF KeyFile
<1>4. /\ m_keys' = [m_keys EXCEPT ![k.id] = EntryOf(k, None)]
      /\ m_cached' = m_cached /\ disk' = disk
  BY DEF importKey, BeginSave
<1>5. /\ Stored' = Stored \cup {k.id} /\ m_keys'[k.id] = EntryOf(k, None)
      /\ \A v \in Uuids : v # k.id => m_keys'[v] = m_keys[v]
  BY <1>2, <1>3, <1>4, SentinelAssumption DEF Stored, TypeInv, TypeOK
<1>6. ASSUME NEW u \in Stored' PROVE From(m_keys'[u], u)
  <2>1. CASE u = k.id
    BY <1>1, <1>2, <1>5, <2>1 DEF From
  <2>2. CASE u # k.id
    BY <1>5, <1>6, <2>2, FromMemory DEF Stored
  <2>. QED
    BY <2>1, <2>2
<1>7. \A f \in FileNames : Readable(f)' => disk'[f] \in Copies
  BY <1>4, DiskCopy DEF Readable
<1>8. CacheSound'
  <2> SUFFICES ASSUME NEW u \in Uuids, m_cached[u] # None
               PROVE  u \in Stored' /\ m_cached[u] = m_keys'[u].sec
    BY <1>4 DEF CacheSound
  <2>1. u \in Stored /\ m_cached[u] = m_keys[u].sec
    BY DEF CacheSound
  <2>2. u = k.id => m_keys[u].sec = k.sec
    BY <1>1, <2>1, MemoryCopy DEF OneSecretPerUuid
  <2>. QED
    BY <1>2, <1>5, <2>1, <2>2
<1>. QED
  BY <1>6, <1>7, <1>8, Derive DEF DerivedCopies

LEMMA IdentityRecode ==
    ASSUME IdentityInv, NEW u \in Uuids, NEW p \in Passes, NEW q \in Passes,
           recode(u, p, q) \/ recodeAddress(u, p, q)
    PROVE  DerivedCopies /\ KeyIdentity'
<1> USE DEF IdentityInv, KeyIdentity
<1>1. PICK e \in EncryptedKey :
          /\ u \in Stored
          /\ e.sec = m_keys[u].sec /\ e.addr \in {m_keys[u].addr, AddressOf[m_keys[u].sec]}
          /\ m_keys'[u] = e /\ \A v \in Uuids : v # u => m_keys'[v] = m_keys[v]
          /\ \A v \in Uuids : m_cached'[v] \in {m_cached[v], None}
          /\ disk' = disk
  <2>1. CASE recode(u, p, q)
    <3> DEFINE s == Secret(u, p, TRUE)
               keys == KeysAfter(u, p, TRUE)
               r == Recoded(keys[u], s, q)
    <3>1. s \in Secrets /\ keys \in [Uuids -> EncryptedKey \cup {None}]
      BY <2>1, SecretType DEF recode, TypeInv
    <3>2. u \in Stored /\ s = m_keys[u].sec
      BY <2>1 DEF recode, Secret, CacheHit, decrypt, CacheSound, Stored
    <3>3. /\ keys[u] # None /\ keys[u].addr \in {m_keys[u].addr, AddressOf[m_keys[u].sec]}
          /\ \A v \in Uuids : v # u => keys[v] = m_keys[v]
      BY <3>2, SecretType DEF TypeInv, Stored
    <3>4. m_keys' = [keys EXCEPT ![u] = r] /\ disk' = disk
      BY <2>1 DEF recode, BeginSave
    <3>5. m_cached' = [m_cached EXCEPT ![u] = None]
      BY <2>1 DEF recode
    <3> HIDE DEF s, keys
    <3>6. r \in EncryptedKey /\ r.sec = s /\ r.addr = keys[u].addr
      BY <3>1, <3>3 DEF Recoded, EncryptedKey
    <3> HIDE DEF r
    <3>. QED
      BY <3>1, <3>2, <3>3, <3>4, <3>5, <3>6 DEF TypeInv, TypeOK
  <2>2. CASE recodeAddress(u, p, q)
    <3>1. u \in Stored /\ m_keys[u] \in EncryptedKey
      BY <2>2 DEF recodeAddress, Stored, TypeInv, TypeOK
    <3> DEFINE r == Recoded(m_keys[u], m_keys[u].sec, q)
    <3>2. r \in EncryptedKey /\ r.sec = m_keys[u].sec /\ r.addr = m_keys[u].addr
      BY <3>1, SentinelAssumption DEF Recoded, EncryptedKey
    <3>3. m_keys' = [m_keys EXCEPT ![u] = r] /\ disk' = disk /\ m_cached' = m_cached
      BY <2>2 DEF recodeAddress, BeginSave
    <3> HIDE DEF r
    <3>. QED
      BY <3>1, <3>2, <3>3 DEF TypeInv, TypeOK
  <2>. QED
    BY <2>1, <2>2
<1>2. Stored' = Stored
  BY <1>1, SentinelAssumption DEF Stored
<1>3. ASSUME NEW v \in Stored' PROVE From(m_keys'[v], v)
  <2>1. CASE v = u
    BY <1>1, <2>1, MemoryCopy DEF From
  <2>2. CASE v # u
    BY <1>1, <1>2, <2>2, FromMemory DEF Stored
  <2>. QED
    BY <2>1, <2>2
<1>4. \A f \in FileNames : Readable(f)' => disk'[f] \in Copies
  BY <1>1, DiskCopy DEF Readable
<1>5. CacheSound'
  BY <1>1, <1>2 DEF CacheSound, Stored
<1>. QED
  BY <1>3, <1>4, <1>5, Derive DEF DerivedCopies

(* Steps that add nothing to the directory and load or drop entries. *)
LEMMA IdentityOthers ==
    ASSUME IdentityInv,
           \/ \E w \in BOOLEAN : Start(w)
           \/ Stop \/ clearCache \/ setPath
           \/ \E u \in Uuids, p \in Passes, c \in BOOLEAN : secret(u, p, c)
           \/ \E u \in Uuids : kill(u) \/ killThrows(u)
    PROVE  DerivedCopies /\ KeyIdentity'
<1> USE DEF IdentityInv, KeyIdentity
<1>1. ASSUME NEW f \in FileNames, Readable(f)' PROVE disk'[f] \in Copies
  <2>1. disk'[f] = disk[f]
    BY <1>1 DEF Start, Stop, clearCache, setPath, secret, kill, killThrows, Readable, TypeInv, TypeOK
  <2>. QED
    BY <1>1, <2>1, DiskCopy DEF Readable
<1>2. ASSUME NEW keys \in [Uuids -> EncryptedKey \cup {None}], m_keys' \in load(keys),
             \A u \in Uuids : keys[u] \in {m_keys[u], None}
      PROVE  /\ \A u \in Stored' : From(m_keys'[u], u)
             /\ \A u \in Uuids : keys[u] # None => m_keys'[u] # None /\ m_keys'[u].sec = keys[u].sec
  <2>1. ASSUME NEW f \in FileNames, Readable(f), NEW u \in Uuids, disk[f].id = u, m_keys'[u] = EntryOf(disk[f], f)
        PROVE  From(m_keys'[u], u) /\ m_keys'[u] # None /\ m_keys'[u].sec = disk[f].sec
    <3>1. disk[f] \in KeyFile /\ disk[f] \in Copies
      BY <2>1, DiskCopy DEF Readable, TypeInv, TypeOK
    <3>2. /\ EntryOf(disk[f], f).sec = disk[f].sec /\ EntryOf(disk[f], f).addr = disk[f].addr
          /\ EntryOf(disk[f], f) \in EncryptedKey
      BY <3>1 DEF EntryOf, KeyFile, EncryptedKey
    <3>. QED
      BY <2>1, <3>1, <3>2, SentinelAssumption DEF From
  <2>2. ASSUME NEW u \in Uuids
        PROVE \/ m_keys'[u] = keys[u]
              \/ \E f \in FileNames : Readable(f) /\ disk[f].id = u /\ m_keys'[u] = EntryOf(disk[f], f)
    BY <1>2, <2>2, LoadType DEF TypeInv
  <2>3. ASSUME NEW u \in Stored' PROVE From(m_keys'[u], u)
    <3>1. u \in Uuids /\ m_keys'[u] # None
      BY DEF Stored
    <3>2. CASE m_keys'[u] = keys[u]
      BY <1>2, <3>1, <3>2, FromMemory DEF Stored
    <3>. QED
      BY <2>1, <2>2, <3>1, <3>2
  <2>4. ASSUME NEW u \in Uuids, keys[u] # None PROVE m_keys'[u] # None /\ m_keys'[u].sec = keys[u].sec
    <3>1. u \in Stored /\ keys[u] = m_keys[u]
      BY <1>2, <2>4 DEF Stored
    <3>2. ASSUME NEW f \in FileNames, Readable(f), disk[f].id = u, m_keys'[u] = EntryOf(disk[f], f)
          PROVE  m_keys'[u] # None /\ m_keys'[u].sec = keys[u].sec
      BY <2>1, <3>1, <3>2, MemoryCopy, DiskCopy DEF OneSecretPerUuid
    <3>. QED
      BY <2>2, <2>4, <3>2
  <2>. QED
    BY <2>3, <2>4
<1>3. NoKeys \in [Uuids -> EncryptedKey \cup {None}] /\ \A u \in Uuids : NoKeys[u] = None
  BY DEF NoKeys
<1>4. ASSUME NEW w \in BOOLEAN, Start(w) PROVE DerivedCopies /\ KeyIdentity'
  <2>1. \A u \in Stored' : From(m_keys'[u], u)
    <3>1. CASE w
      BY <1>2, <1>3, <1>4, <3>1 DEF Start
    <3>2. CASE ~w
      BY <1>3, <1>4, <3>2 DEF Start, Stored
    <3>. QED
      BY <3>1, <3>2
  <2>2. CacheSound'
    BY <1>3, <1>4 DEF Start, CacheSound
  <2>. QED
    BY <1>1, <2>1, <2>2, Derive DEF DerivedCopies
<1>5. CASE Stop
  <2>1. Stored' = {} /\ CacheSound'
    BY <1>3, <1>5 DEF Stop, Stored, CacheSound
  <2>. QED
    BY <1>1, <2>1, Derive DEF DerivedCopies
<1>6. CASE clearCache
  <2>1. Stored' = Stored /\ m_keys' = m_keys /\ CacheSound'
    BY <1>6 DEF clearCache, Stored, CacheSound
  <2>. QED
    BY <1>1, <2>1, FromMemory, Derive DEF DerivedCopies
<1>7. CASE setPath
  <2>1. /\ \A u \in Stored' : From(m_keys'[u], u)
        /\ \A u \in Uuids : m_keys[u] # None => m_keys'[u] # None /\ m_keys'[u].sec = m_keys[u].sec
    BY <1>2, <1>7 DEF setPath, TypeInv, TypeOK
  <2>2. CacheSound'
    BY <1>7, <2>1 DEF setPath, CacheSound, Stored
  <2>. QED
    BY <1>1, <2>1, <2>2, Derive DEF DerivedCopies
<1>8. ASSUME NEW u \in Uuids, NEW p \in Passes, NEW c \in BOOLEAN, secret(u, p, c) PROVE DerivedCopies /\ KeyIdentity'
  <2>1. /\ m_keys' = KeysAfter(u, p, c) /\ m_cached' = CachedAfter(u, p, c)
    BY <1>8 DEF secret
  <2>2. /\ \A v \in Uuids : v # u => m_keys'[v] = m_keys[v]
        /\ m_keys'[u] # None <=> m_keys[u] # None
        /\ m_keys[u] # None => m_keys'[u].sec = m_keys[u].sec
                                /\ m_keys'[u].addr \in {m_keys[u].addr, AddressOf[m_keys[u].sec]}
    BY <2>1, SecretType DEF TypeInv
  <2>3. Stored' = Stored
    BY <2>2 DEF Stored
  <2>4. ASSUME NEW v \in Stored' PROVE From(m_keys'[v], v)
    <3>1. CASE v = u
      BY <2>2, <2>3, <3>1, MemoryCopy DEF From, Stored
    <3>2. CASE v # u
      BY <2>2, <2>3, <3>2, FromMemory DEF Stored
    <3>. QED
      BY <3>1, <3>2
  <2>5. CacheSound'
    <3>1. CASE Decrypts(u, p, c)
      <4>1. m_keys[u] # None /\ Secret(u, p, c) = m_keys[u].sec
        BY <3>1 DEF Decrypts, Secret, decrypt
      <4>2. m_cached' = [m_cached EXCEPT ![u] = m_keys[u].sec]
        BY <2>1, <3>1, <4>1 DEF CachedAfter
      <4>. QED
        BY <2>2, <2>3, <4>1, <4>2 DEF CacheSound, Stored, TypeInv, TypeOK
    <3>2. CASE ~Decrypts(u, p, c)
      BY <2>1, <2>2, <2>3, <3>2 DEF CachedAfter, CacheSound, Stored
    <3>. QED
      BY <3>1, <3>2
  <2>. QED
    BY <1>1, <2>4, <2>5, Derive DEF DerivedCopies
<1>9. ASSUME NEW u \in Uuids, kill(u) \/ killThrows(u) PROVE DerivedCopies /\ KeyIdentity'
  <2>1. /\ \A v \in Stored' : v \in Stored /\ m_keys'[v] = m_keys[v]
        /\ CacheSound'
    BY <1>9 DEF kill, killThrows, Stored, CacheSound, TypeInv, TypeOK
  <2>. QED
    BY <1>1, <2>1, FromMemory, Derive DEF DerivedCopies
<1>. QED
  BY <1>4, <1>5, <1>6, <1>7, <1>8, <1>9

(* Every operation but importSecret. *)
Deriving ==
    \/ \E w \in BOOLEAN : Start(w)
    \/ Stop \/ clearCache \/ setPath
    \/ SaveStep \/ SaveReturn \/ SaveThrows
    \/ \E k \in KeyFiles : importKey(k)
    \/ \E u \in Uuids, p \in Passes, c \in BOOLEAN : secret(u, p, c)
    \/ \E u \in Uuids, p, q \in Passes : recode(u, p, q) \/ recodeAddress(u, p, q)
    \/ \E u \in Uuids : kill(u) \/ killThrows(u)

LEMMA DerivedNext == ASSUME IdentityInv, Deriving \/ UNCHANGED vars PROVE DerivedCopies
<1>1. CASE UNCHANGED vars
  BY <1>1, FromMemory, DiskCopy DEF vars, DerivedCopies, Stored, Readable, From
<1>. QED
  BY <1>1, IdentitySave, IdentityImportKey, IdentityRecode, IdentityOthers DEF Deriving

LEMMA IdentityNext == ASSUME IdentityInv, [Next]_vars PROVE IdentityInv'
<1>1. CASE UNCHANGED vars
  BY <1>1 DEF vars, IdentityInv, TypeInv, TypeOK, Shape, KeyIdentity, OneSecretPerUuid, AddressesRight,
              CacheSound, Stored, Copies, FileOf, Readable
<1>2. TypeInv'
  BY TypeNext DEF IdentityInv
<1>3. CASE Next
  BY <1>2, <1>3, IdentitySave, IdentityImport, IdentityImportKey, IdentityRecode, IdentityOthers
     DEF Next, IdentityInv
<1>. QED
  BY <1>1, <1>3

(* No sequence of imports, recodes, kills, restarts and reloads makes the  *)
(* cache, the entries and the files of one uuid disagree about its key.    *)
THEOREM IdentityPreserved == Spec => []KeyIdentity
<1>1. IdentityInv /\ [Next]_vars => IdentityInv'
  BY IdentityNext
<1>2. IdentityInv => KeyIdentity
  BY DEF IdentityInv
<1>. QED
  BY <1>1, <1>2, IdentityInit, PTL DEF Spec

-----------------------------------------------------------------------------
(* The files.  A device that never silently drops a write ("full" is not   *)
(* among the faults) is assumed from here on; every other fault is there.  *)

(* A file with a canonical name holds the key it is named after. *)
CanonicalOwn == \A u \in Uuids : Readable(u) => disk[u].id = u

Written(u) == m_keys[u].file = u /\ disk[u] = FileOf(u)

(* What save() has done so far. *)
SavePoint ==
    /\ phase = "write" => disk[cur] = Torn
    /\ phase = "remove" => /\ disk[cur] = FileOf(cur)
                           /\ OldIsOther => Readable(old) /\ disk[old].id = cur
    /\ phase # "idle" /\ m_path => \A u \in Stored \ todo : Written(u)

FilesInv == IdentityInv /\ CanonicalOwn /\ KeyHasGoodFile /\ SavePoint

LEMMA FilesInit == Init => FilesInv
<1> SUFFICES ASSUME Init PROVE FilesInv
  OBVIOUS
<1>1. Stored = {}
  BY DEF Init, Stored, NoKeys
<1>. QED
  BY <1>1, IdentityInit DEF Init, FilesInv, CanonicalOwn, KeyHasGoodFile, SavePoint, Readable

(* Steps that leave the directory alone and begin or do no save. *)
LEMMA FilesQuiet ==
    ASSUME FilesInv, TypeInv', Idle, disk' = disk,
           phase' = "idle" \/ (phase' = "loop" /\ (m_path' => todo' = Stored')),
           \A u \in Stored' : \/ m_keys'[u].file = None
                              \/ Holds(m_keys[u].file, u)'
    PROVE  CanonicalOwn' /\ KeyHasGoodFile' /\ SavePoint'
<1>1. CanonicalOwn'
  BY DEF FilesInv, CanonicalOwn, Readable
<1>2. KeyHasGoodFile'
  BY DEF KeyHasGoodFile
<1>3. SavePoint'
  BY DEF SavePoint
<1>. QED
  BY <1>1, <1>2, <1>3

(* The entry of u still names a file that holds u. *)
LEMMA HoldsKept ==
    ASSUME FilesInv, Idle, disk' = disk, NEW u \in Stored, u \in Stored',
           m_keys'[u].file = m_keys[u].file, m_keys'[u].sec = m_keys[u].sec
    PROVE  m_keys'[u].file = None \/ Holds(m_keys[u].file, u)'
BY DEF FilesInv, KeyHasGoodFile, Holds, Readable, Idle

LEMMA FilesSave ==
    ASSUME FilesInv, TypeInv', "full" \notin Faults, SaveStep \/ SaveReturn \/ SaveThrows
    PROVE  CanonicalOwn' /\ KeyHasGoodFile' /\ SavePoint'
<1> USE DEF FilesInv, IdentityInv
<1>0. \A u \in Uuids : u \in FileNames
  BY DEF FileNames
<1>1. ASSUME NEW u \in Uuids, SaveOpen(u) PROVE CanonicalOwn' /\ KeyHasGoodFile' /\ SavePoint'
  <2>1. /\ phase = "loop" /\ phase' = "write" /\ cur' = u /\ m_keys' = m_keys /\ todo' = todo /\ u \in todo
        /\ m_path' = m_path /\ old' = old
        /\ disk'[u] = Torn /\ \A f \in FileNames : f # u => disk'[f] = disk[f]
    BY <1>0, <1>1 DEF SaveOpen, TypeInv, TypeOK
  <2>2. CanonicalOwn'
    BY <1>0, <2>1 DEF CanonicalOwn, Readable
  <2>3. Stored' = Stored
    BY <2>1 DEF Stored
  <2>4. ASSUME NEW v \in Stored, m_keys[v].file # None
        PROVE  Holds(m_keys[v].file, v)' \/ (v = u /\ m_keys[v].file = u)
    <3>1. m_keys[v].file \in FileNames /\ Holds(m_keys[v].file, v)
      BY <2>1, <2>4 DEF KeyHasGoodFile, Stored, TypeInv, TypeOK, EncryptedKey
    <3>2. CASE m_keys[v].file = u
      BY <3>1, <3>2 DEF Holds, CanonicalOwn
    <3>3. CASE m_keys[v].file # u
      BY <2>1, <3>1, <3>3 DEF Holds, Readable
    <3>. QED
      BY <3>2, <3>3
  <2>5. KeyHasGoodFile'
    BY <2>1, <2>3, <2>4 DEF KeyHasGoodFile
  <2>6. SavePoint'
    <3>1. ASSUME NEW v \in Stored \ todo, m_path PROVE Written(v)'
      BY <1>0, <2>1, <3>1 DEF SavePoint, Written, FileOf, Stored
    <3>. QED
      BY <2>1, <2>3, <3>1 DEF SavePoint
  <2>. QED
    BY <2>2, <2>5, <2>6
<1>2. ASSUME SaveWritten PROVE CanonicalOwn' /\ KeyHasGoodFile' /\ SavePoint'
  <2>1. cur \in Uuids /\ cur \in Stored /\ cur \in todo /\ m_keys[cur] \in EncryptedKey
    BY <1>2 DEF SaveWritten, TypeInv, TypeOK, Shape, Stored
  <2> DEFINE e == EntryOf(m_keys[cur], cur)
  <2>2. e \in EncryptedKey /\ e.sec = m_keys[cur].sec /\ e.file = cur /\ e.pass = m_keys[cur].pass /\ e.addr = m_keys[cur].addr
    BY <1>0, <2>1 DEF EncryptedKey, EntryOf
  <2>3. /\ phase = "write" /\ phase' = "remove" /\ cur' = cur /\ todo' = todo /\ m_path' = m_path
        /\ old' = m_keys[cur].file
        /\ m_keys'[cur] = e /\ \A v \in Uuids : v # cur => m_keys'[v] = m_keys[v]
        /\ disk'[cur] = FileOf(cur) /\ \A f \in FileNames : f # cur => disk'[f] = disk[f]
    BY <1>0, <1>2, <2>1 DEF SaveWritten, SwapFilename, TypeInv, TypeOK
  <2> HIDE DEF e
  <2>4. Stored' = Stored
    BY <2>1, <2>2, <2>3, SentinelAssumption DEF Stored
  <2>5. FileOf(cur)' = FileOf(cur) /\ FileOf(cur).id = cur /\ FileOf(cur).sec = m_keys[cur].sec /\ FileOf(cur) \in KeyFile
    BY <2>1, <2>2, <2>3 DEF FileOf, KeyFile, EncryptedKey
  <2>6. CanonicalOwn'
    BY <1>0, <2>3, <2>5 DEF CanonicalOwn, Readable
  <2>7. Readable(cur)'
    BY <2>3, <2>5, SentinelAssumption DEF Readable
  <2>8. ASSUME NEW v \in Stored, m_keys'[v].file # None PROVE Holds(m_keys[v].file, v)'
    <3>1. CASE v = cur
      BY <2>2, <2>3, <2>5, <2>7, <3>1 DEF Holds
    <3>2. CASE v # cur
      <4>1. m_keys'[v] = m_keys[v] /\ m_keys[v].file \in FileNames /\ Holds(m_keys[v].file, v)
        BY <2>3, <2>8, <3>2 DEF KeyHasGoodFile, Stored, TypeInv, TypeOK, EncryptedKey
      <4>2. m_keys[v].file # cur
        BY <2>3, <4>1 DEF SavePoint, Holds, Readable
      <4>. QED
        BY <2>3, <4>1, <4>2 DEF Holds, Readable
    <3>. QED
      BY <3>1, <3>2
  <2>9. KeyHasGoodFile'
    BY <2>4, <2>8 DEF KeyHasGoodFile
  <2>10. SavePoint'
    <3>1. ASSUME OldIsOther' PROVE Readable(old)' /\ disk'[old'].id = cur
      <4>1. old' # None /\ old' # cur /\ old' = m_keys[cur].file
        BY <2>3, <3>1 DEF OldIsOther
      <4>2. old' \in FileNames /\ Readable(old') /\ disk[old'].id = cur
        BY <2>1, <4>1 DEF KeyHasGoodFile, Holds, EncryptedKey
      <4>. QED
        BY <2>3, <4>1, <4>2 DEF Readable
    <3>2. ASSUME NEW v \in Stored \ todo, m_path PROVE Written(v)'
      BY <1>0, <2>1, <2>3, <3>2 DEF SavePoint, Written, FileOf, Stored
    <3>. QED
      BY <2>3, <2>4, <2>5, <3>1, <3>2 DEF SavePoint
  <2>. QED
    BY <2>6, <2>9, <2>10
<1>3. ASSUME SaveRemoveOld PROVE CanonicalOwn' /\ KeyHasGoodFile' /\ SavePoint'
  <2>1. /\ phase = "remove" /\ phase' = "loop" /\ todo' = todo \ {cur} /\ m_path' = m_path /\ m_keys' = m_keys
        /\ cur \in Uuids /\ cur \in Stored /\ cur \in todo /\ m_keys[cur].file = cur
    BY <1>3 DEF SaveRemoveOld, TypeInv, TypeOK, Shape, Stored
  <2>2. Stored' = Stored /\ \A v \in Uuids : FileOf(v)' = FileOf(v)
    BY <2>1 DEF Stored, FileOf
  <2>3. \A f \in FileNames : disk'[f] = disk[f] \/ (f = old /\ OldIsOther /\ disk'[f] = None)
    BY <1>3 DEF SaveRemoveOld, TypeInv, TypeOK
  <2>4. OldIsOther => old \notin Uuids /\ old \in FileNames /\ Readable(old) /\ disk[old].id = cur
    BY <2>1 DEF SavePoint, OldIsOther, CanonicalOwn, TypeInv, TypeOK
  <2>5. CanonicalOwn'
    BY <1>0, <2>3 DEF CanonicalOwn, Readable
  <2>6. ASSUME NEW v \in Stored, m_keys[v].file # None PROVE Holds(m_keys[v].file, v)'
    <3>1. m_keys[v].file \in FileNames /\ Holds(m_keys[v].file, v)
      BY <2>1, <2>6 DEF KeyHasGoodFile, Stored, TypeInv, TypeOK, EncryptedKey
    <3>2. disk'[m_keys[v].file] = disk[m_keys[v].file]
      BY <2>1, <2>3, <2>4, <3>1 DEF Holds, OldIsOther
    <3>. QED
      BY <2>1, <3>1, <3>2 DEF Holds, Readable
  <2>7. KeyHasGoodFile'
    BY <2>1, <2>2, <2>6 DEF KeyHasGoodFile
  <2>8. ASSUME NEW v \in Stored, v \notin todo \/ v = cur, m_path PROVE Written(v)'
    <3>1. v \in Uuids /\ Written(v)
      BY <2>1, <2>8 DEF SavePoint, Written, Stored
    <3>2. disk'[v] = disk[v]
      BY <1>0, <2>3, <2>4, <3>1
    <3>. QED
      BY <2>1, <2>2, <3>1, <3>2 DEF Written
  <2>9. SavePoint'
    BY <2>1, <2>2, <2>8 DEF SavePoint
  <2>. QED
    BY <2>5, <2>7, <2>9
<1>4. ASSUME SaveReturn \/ SaveThrows PROVE CanonicalOwn' /\ KeyHasGoodFile' /\ SavePoint'
  <2>1. phase # "write" /\ phase' = "idle" /\ disk' = disk /\ m_keys' = m_keys
    BY <1>4 DEF SaveReturn, SaveThrows, SaveOpenFails, SaveRemoveFails, EndSave
  <2>. QED
    BY <2>1 DEF CanonicalOwn, KeyHasGoodFile, SavePoint, Readable, Holds, Stored
<1>. QED
  BY <1>1, <1>2, <1>3, <1>4, SaveStepCases DEF SaveWriteShort

(* Operations that start a save, and those that read. *)
LEMMA FilesMemory ==
    ASSUME FilesInv, TypeInv',
           \/ \E u \in Uuids, s \in Secrets, p \in Passes : importSecret(u, s, p)
           \/ \E k \in KeyFiles : importKey(k)
           \/ \E u \in Uuids, p, q \in Passes : recode(u, p, q) \/ recodeAddress(u, p, q)
           \/ \E u \in Uuids, p \in Passes, c \in BOOLEAN : secret(u, p, c)
           \/ clearCache
    PROVE  CanonicalOwn' /\ KeyHasGoodFile' /\ SavePoint'
<1> USE DEF FilesInv, IdentityInv
<1>1. BeginSave => phase' = "loop" /\ (m_path' => todo' = Stored') /\ disk' = disk
  BY DEF BeginSave, Stored
(* One entry changes, and it has no file or keeps its file and its key. *)
<1>2. ASSUME NEW u \in Uuids, Idle, disk' = disk,
             phase' = "idle" \/ (phase' = "loop" /\ (m_path' => todo' = Stored')),
             \A v \in Uuids : v # u => m_keys'[v] = m_keys[v],
             u \in Stored' => \/ m_keys'[u].file = None
                              \/ /\ u \in Stored /\ m_keys'[u].file = m_keys[u].file
                                 /\ m_keys'[u].sec = m_keys[u].sec
      PROVE CanonicalOwn' /\ KeyHasGoodFile' /\ SavePoint'
  <2>1. ASSUME NEW v \in Stored' PROVE m_keys'[v].file = None \/ Holds(m_keys[v].file, v)'
    <3>1. v \in Uuids
      BY DEF Stored
    <3>2. CASE v = u
      BY <1>2, <3>2, HoldsKept
    <3>3. CASE v # u
      <4>1. m_keys'[v] = m_keys[v] /\ v \in Stored
        BY <1>2, <3>1, <3>3 DEF Stored
      <4>. QED
        BY <1>2, <4>1, HoldsKept
    <3>. QED
      BY <3>2, <3>3
  <2>. QED
    BY <1>2, <2>1, FilesQuiet
<1>3. ASSUME NEW u \in Uuids, NEW s \in Secrets, NEW p \in Passes, importSecret(u, s, p)
      PROVE CanonicalOwn' /\ KeyHasGoodFile' /\ SavePoint'
  <2>1. /\ Idle /\ BeginSave /\ m_keys'[u].file = None
        /\ \A v \in Uuids : v # u => m_keys'[v] = m_keys[v]
    BY <1>3 DEF importSecret, TypeInv, TypeOK
  <2>. QED
    BY <1>1, <1>2, <2>1
<1>4. ASSUME NEW k \in KeyFiles, importKey(k) PROVE CanonicalOwn' /\ KeyHasGoodFile' /\ SavePoint'
  <2>1. k.id \in Uuids
    BY KeyFilesType DEF KeyFile
  <2>2. /\ Idle /\ BeginSave /\ m_keys'[k.id].file = None
        /\ \A v \in Uuids : v # k.id => m_keys'[v] = m_keys[v]
    BY <1>4, <2>1 DEF importKey, EntryOf, TypeInv, TypeOK
  <2>. QED
    BY <1>1, <1>2, <2>1, <2>2
<1>5. ASSUME NEW u \in Uuids, NEW p \in Passes, NEW c \in BOOLEAN, secret(u, p, c)
      PROVE CanonicalOwn' /\ KeyHasGoodFile' /\ SavePoint'
  <2>1. Idle /\ disk' = disk /\ phase' = "idle" /\ m_keys' = KeysAfter(u, p, c)
    BY <1>5 DEF secret, Idle, saveVars
  <2>2. /\ \A v \in Uuids : v # u => m_keys'[v] = m_keys[v]
        /\ m_keys'[u] # None <=> m_keys[u] # None
        /\ m_keys[u] # None => m_keys'[u].sec = m_keys[u].sec /\ m_keys'[u].file = m_keys[u].file
    BY <2>1, SecretType DEF TypeInv
  <2>. QED
    BY <1>2, <2>1, <2>2 DEF Stored
<1>6. ASSUME NEW u \in Uuids, NEW p \in Passes, NEW q \in Passes, recode(u, p, q)
      PROVE CanonicalOwn' /\ KeyHasGoodFile' /\ SavePoint'
  <2> DEFINE ks == KeysAfter(u, p, TRUE)
             s == Secret(u, p, TRUE)
             e == Recoded(ks[u], s, q)
  <2>1. /\ ks \in [Uuids -> EncryptedKey \cup {None}]
        /\ \A v \in Uuids : v # u => ks[v] = m_keys[v]
        /\ ks[u] # None <=> m_keys[u] # None
        /\ m_keys[u] # None => ks[u].file = m_keys[u].file
    BY SecretType DEF TypeInv
  <2>2. s # None /\ Idle /\ BeginSave /\ m_keys' = [ks EXCEPT ![u] = e]
    BY <1>6 DEF recode
  <2>3. m_keys[u] # None /\ s = m_keys[u].sec
    BY <2>2, <1>6 DEF KeyIdentity, CacheSound, Secret, CacheHit, decrypt, Stored
  <2>4. e.sec = s /\ e.file = ks[u].file
    BY <2>1, <2>3 DEF Recoded
  <2> HIDE DEF ks, s, e
  <2>5. /\ \A v \in Uuids : v # u => m_keys'[v] = m_keys[v]
        /\ m_keys'[u] = e
    BY <2>1, <2>2
  <2>. QED
    BY <1>1, <1>2, <2>1, <2>2, <2>3, <2>4, <2>5 DEF Stored
<1>7. ASSUME NEW u \in Uuids, NEW p \in Passes, NEW q \in Passes, recodeAddress(u, p, q)
      PROVE CanonicalOwn' /\ KeyHasGoodFile' /\ SavePoint'
  <2> DEFINE e == Recoded(m_keys[u], m_keys[u].sec, q)
  <2>1. u \in Stored /\ Idle /\ BeginSave /\ m_keys' = [m_keys EXCEPT ![u] = e]
    BY <1>7 DEF recodeAddress
  <2>2. e.sec = m_keys[u].sec /\ e.file = m_keys[u].file
    BY <2>1 DEF Recoded, Stored
  <2> HIDE DEF e
  <2>3. /\ \A v \in Uuids : v # u => m_keys'[v] = m_keys[v]
        /\ m_keys'[u] = e
    BY <2>1 DEF TypeInv, TypeOK
  <2>. QED
    BY <1>1, <1>2, <2>1, <2>2, <2>3
<1>8. CASE clearCache
  <2>1. Idle /\ disk' = disk /\ phase' = "idle" /\ m_keys' = m_keys
    BY <1>8 DEF clearCache, Idle, saveVars
  <2>. QED
    BY <2>1, HoldsKept, FilesQuiet DEF Stored
<1>. QED
  BY <1>3, <1>4, <1>5, <1>6, <1>7, <1>8

(* Removing a key, loading, and the life of the process. *)
LEMMA FilesDirectory ==
    ASSUME FilesInv, TypeInv',
           \/ \E u \in Uuids : kill(u) \/ killThrows(u)
           \/ setPath
           \/ Stop
           \/ \E w \in BOOLEAN : Start(w)
    PROVE  CanonicalOwn' /\ KeyHasGoodFile' /\ SavePoint'
<1> USE DEF FilesInv, IdentityInv
<1>1. ASSUME NEW u \in Uuids, kill(u) PROVE CanonicalOwn' /\ KeyHasGoodFile' /\ SavePoint'
  <2> DEFINE g == m_keys[u].file
  <2>1. /\ phase = "idle" /\ phase' = "idle" /\ m_keys'[u] = None
        /\ \A v \in Uuids : v # u => m_keys'[v] = m_keys[v]
    BY <1>1 DEF kill, Idle, saveVars, TypeInv, TypeOK
  <2>2. \A f \in FileNames : disk'[f] = disk[f] \/ (disk'[f] = None /\ u \in Stored /\ g = f)
    BY <1>1 DEF kill, TypeInv, TypeOK
  <2>3. CanonicalOwn'
    BY <2>2 DEF CanonicalOwn, Readable, FileNames
  <2>4. ASSUME NEW v \in Stored', m_keys'[v].file # None PROVE Holds(m_keys[v].file, v)'
    <3>1. v \in Stored /\ v # u /\ m_keys'[v] = m_keys[v]
      BY <2>1 DEF Stored
    <3>2. m_keys[v].file \in FileNames /\ Holds(m_keys[v].file, v)
      BY <2>1, <2>4, <3>1 DEF KeyHasGoodFile, Stored, TypeInv, TypeOK, EncryptedKey
    <3>3. ASSUME u \in Stored, g = m_keys[v].file PROVE FALSE
      <4>1. Holds(g, u)
        BY <2>1, <2>4, <3>1, <3>3 DEF KeyHasGoodFile
      <4>. QED
        BY <3>1, <3>2, <3>3, <4>1 DEF Holds
    <3>4. disk'[m_keys[v].file] = disk[m_keys[v].file]
      BY <2>2, <3>2, <3>3
    <3>. QED
      BY <3>1, <3>2, <3>4 DEF Holds, Readable
  <2>5. KeyHasGoodFile'
    BY <2>4 DEF KeyHasGoodFile
  <2>6. SavePoint'
    BY <2>1 DEF SavePoint
  <2>. QED
    BY <2>3, <2>5, <2>6
<1>2. ASSUME NEW u \in Uuids, killThrows(u) PROVE CanonicalOwn' /\ KeyHasGoodFile' /\ SavePoint'
  <2>1. Idle /\ disk' = disk /\ phase' = "idle" /\ m_keys' = m_keys
    BY <1>2 DEF killThrows, Idle, saveVars
  <2>. QED
    BY <2>1, HoldsKept, FilesQuiet DEF Stored
(* Loading: what an entry names is the file it was read from. *)
<1>3. ASSUME NEW keys \in [Uuids -> EncryptedKey \cup {None}], m_keys' \in load(keys), disk' = disk,
             NEW u \in Stored'
      PROVE m_keys'[u] = keys[u] \/ Holds(m_keys[u].file, u)'
  <2>1. u \in Uuids
    BY DEF Stored
  <2>2. ASSUME NEW f \in FileNames, Readable(f), disk[f].id = u, m_keys'[u] = EntryOf(disk[f], f)
        PROVE  Holds(m_keys[u].file, u)'
    <3>1. m_keys'[u].sec = disk[f].sec /\ m_keys'[u].file = f
      BY <2>2 DEF EntryOf
    <3>. QED
      BY <1>3, <2>2, <3>1 DEF Holds, Readable
  <2>. QED
    BY <1>3, <2>1, <2>2, LoadType DEF TypeInv
<1>4. CASE setPath
  <2>1. Idle /\ disk' = disk /\ phase' = "idle" /\ m_keys' \in load(m_keys)
    BY <1>4 DEF setPath, Idle, saveVars
  <2>2. ASSUME NEW u \in Stored' PROVE m_keys'[u].file = None \/ Holds(m_keys[u].file, u)'
    <3>1. CASE m_keys'[u] = m_keys[u]
      <4>1. u \in Stored
        BY <3>1 DEF Stored
      <4>. QED
        BY <2>1, <3>1, <4>1, HoldsKept
    <3>. QED
      BY <1>3, <2>1, <3>1 DEF TypeInv, TypeOK
  <2>. QED
    BY <2>1, <2>2, FilesQuiet
<1>5. CASE Stop
  <2>1. disk' = disk /\ phase' = "idle" /\ Stored' = {}
    BY <1>5 DEF Stop, EndSave, Stored, NoKeys
  <2>. QED
    BY <2>1 DEF CanonicalOwn, KeyHasGoodFile, SavePoint, Readable
<1>6. ASSUME NEW w \in BOOLEAN, Start(w) PROVE CanonicalOwn' /\ KeyHasGoodFile' /\ SavePoint'
  <2>1. disk' = disk /\ phase' = phase /\ m_keys' \in (IF w THEN load(NoKeys) ELSE {NoKeys})
    BY <1>6 DEF Start, saveVars
  <2>2. phase = "idle" 
    BY <1>6 DEF Start, TypeInv, Shape
  <2>3. NoKeys \in [Uuids -> EncryptedKey \cup {None}] /\ \A u \in Uuids : NoKeys[u] = None
    BY DEF NoKeys
  <2>4. ASSUME NEW u \in Stored' PROVE Holds(m_keys[u].file, u)'
    <3>1. u \in Uuids /\ m_keys'[u] # None
      BY DEF Stored
    <3>. QED
      BY <1>3, <2>1, <2>3, <3>1
  <2>. QED
    BY <2>1, <2>2, <2>4 DEF CanonicalOwn, KeyHasGoodFile, SavePoint, Readable
<1>. QED
  BY <1>1, <1>2, <1>4, <1>5, <1>6

LEMMA FilesNext == ASSUME FilesInv, [Next]_vars, "full" \notin Faults PROVE FilesInv'
<1>1. IdentityInv'
  BY IdentityNext DEF FilesInv
<1>2. TypeInv'
  BY <1>1 DEF IdentityInv
<1>3. CASE UNCHANGED vars
  BY <1>1, <1>3 DEF vars, FilesInv, CanonicalOwn, KeyHasGoodFile, SavePoint, Written, OldIsOther, Holds,
                    Readable, Stored, FileOf
<1>4. CASE Next
  BY <1>1, <1>2, <1>4, FilesSave, FilesMemory, FilesDirectory DEF Next, FilesInv
<1>. QED
  BY <1>3, <1>4

(* On a device that takes what is written to it, the file an entry of      *)
(* m_keys names holds that key, except while save() rewrites that file.    *)
THEOREM GoodFilePreserved == ASSUME "full" \notin Faults PROVE Spec => []KeyHasGoodFile
<1>1. FilesInv /\ [Next]_vars => FilesInv'
  BY FilesNext
<1>2. FilesInv => KeyHasGoodFile
  BY DEF FilesInv
<1>. QED
  BY <1>1, <1>2, FilesInit, PTL DEF Spec

(* On such a device, when save() has visited every key the directory       *)
(* agrees with memory.                                                     *)
THEOREM SaveSynced == ASSUME "full" \notin Faults PROVE Spec => []SaveSyncs
<1>1. FilesInv /\ [Next]_vars => FilesInv'
  BY FilesNext
<1>2. FilesInv => SaveSyncs
  BY DEF FilesInv, SavePoint, SaveSyncs, Written
<1>. QED
  BY <1>1, <1>2, FilesInit, PTL DEF Spec

(* A step costs a key its last readable file only when the key is killed   *)
(* or when save() is rewriting that key's own file.                        *)
LEMMA CopiesStep ==
    ASSUME FilesInv, TypeInv', [Next]_vars, "full" \notin Faults,
           NEW u \in Uuids, HasCopy(u), ~HasCopy(u)'
    PROVE  \/ u \in Stored /\ u \notin Stored' /\ up'
           \/ phase' = "write" /\ cur' = u
<1> USE DEF FilesInv, IdentityInv
<1>1. PICK f \in FileNames : Readable(f) /\ disk[f].id = u
  BY DEF HasCopy
<1>2. disk'[f] # disk[f]
  BY <1>1 DEF HasCopy, Readable
<1>3. ASSUME NEW v \in Uuids, SaveOpen(v) PROVE phase' = "write" /\ cur' = u
  <2>1. f = v /\ phase' = "write" /\ cur' = v
    BY <1>2, <1>3 DEF SaveOpen, TypeInv, TypeOK
  <2>. QED
    BY <1>1, <2>1 DEF CanonicalOwn
<1>4. ASSUME SaveWritten PROVE FALSE
  <2>1. f = cur
    BY <1>2, <1>4 DEF SaveWritten, TypeInv, TypeOK
  <2>. QED
    BY <1>1, <1>4, <2>1 DEF SaveWritten, SavePoint, Readable
<1>5. ASSUME SaveRemoveOld PROVE FALSE
  <2>1. /\ phase = "remove" /\ OldIsOther /\ f = old /\ cur \in Uuids /\ cur \in FileNames /\ cur \in Stored
        /\ disk'[cur] = disk[cur]
    BY <1>2, <1>5 DEF SaveRemoveOld, OldIsOther, TypeInv, TypeOK, Shape, FileNames
  <2>2. disk[cur] = FileOf(cur) /\ disk[old].id = cur
    BY <2>1 DEF SavePoint
  <2>3. m_keys[cur] \in EncryptedKey
    BY <2>1 DEF TypeInv, TypeOK, Stored
  <2>4. FileOf(cur) \in KeyFile /\ FileOf(cur).id = cur
    BY <2>1, <2>3 DEF FileOf, KeyFile, EncryptedKey
  <2>5. disk'[cur] \notin {None, Torn} /\ disk'[cur].id = cur /\ u = cur
    BY <1>1, <2>1, <2>2, <2>4, SentinelAssumption
  <2>. QED
    BY <2>1, <2>5 DEF HasCopy, Readable
<1>6. ASSUME NEW v \in Uuids, kill(v) PROVE u \in Stored /\ u \notin Stored' /\ up'
  <2>1. /\ v \in Stored /\ f = m_keys[v].file /\ up' /\ m_keys'[v] = None /\ phase = "idle" /\ f # None
    BY <1>2, <1>6 DEF kill, Idle, TypeInv, TypeOK
  <2>2. Holds(f, v)
    BY <2>1 DEF KeyHasGoodFile
  <2>. QED
    BY <1>1, <2>1, <2>2 DEF Holds, Stored
<1>7. CASE disk' = disk
  BY <1>2, <1>7
<1>. QED
  BY <1>3, <1>4, <1>5, <1>6, <1>7, SaveStepCases
     DEF Next, vars, SaveWriteShort, SaveReturn, SaveThrows, SaveOpenFails, SaveRemoveFails,
         importSecret, importKey, BeginSave, secret, recode, recodeAddress, killThrows, clearCache, setPath,
         Start, Stop

(* On such a device no operation, failure or stop costs a key its last     *)
(* readable file, except its own kill and the rewriting of its own file.   *)
THEOREM CopiesPersisted == ASSUME "full" \notin Faults PROVE Spec => CopiesPersist
<1>1. FilesInv /\ [Next]_vars => FilesInv'
  BY FilesNext
<1>2. FilesInv /\ FilesInv' /\ [Next]_vars =>
         [\A u \in Uuids : HasCopy(u) /\ ~HasCopy(u)' =>
            \/ u \in Stored /\ u \notin Stored' /\ up'
            \/ phase' = "write" /\ cur' = u]_vars
  <2> SUFFICES ASSUME FilesInv, FilesInv', [Next]_vars
               PROVE  \A u \in Uuids : HasCopy(u) /\ ~HasCopy(u)' =>
                         \/ u \in Stored /\ u \notin Stored' /\ up'
                         \/ phase' = "write" /\ cur' = u
    OBVIOUS
  <2>1. TypeInv'
    BY DEF FilesInv, IdentityInv
  <2>. QED
    BY <2>1, CopiesStep
<1>. QED
  BY <1>1, <1>2, FilesInit, PTL DEF Spec, CopiesPersist

-----------------------------------------------------------------------------
(* DamageBounded.  The file that save() is writing is the one that is torn *)
(* beyond the number of restarts.                                          *)

DamageInv == FilesInv /\ IsFiniteSet(TornFiles) /\ DamageBounded

LEMMA DamageInit == Init => DamageInv
<1> SUFFICES ASSUME Init PROVE DamageInv
  OBVIOUS
<1>1. TornFiles = {}
  BY KeyFilesType, SentinelAssumption DEF Init, TornFiles
<1>. QED
  BY <1>1, FilesInit, FS_EmptySet DEF DamageInv, DamageBounded, Init

LEMMA DamageNext == ASSUME DamageInv, [Next]_vars, "full" \notin Faults PROVE DamageInv'
<1> USE DEF DamageInv
<1> DEFINE n == Cardinality(TornFiles)
           G == IsFiniteSet(TornFiles') /\ DamageBounded'
<1>0. TypeInv /\ TypeOK /\ FilesInv' /\ n \in Nat /\ restarts \in Nat
  BY FilesNext, FS_CardinalityType, ConstantsAssumption DEF FilesInv, IdentityInv, TypeInv, TypeOK
<1>1. ASSUME TornFiles' \subseteq TornFiles, restarts' = restarts, phase # "write" PROVE G
  <2>1. IsFiniteSet(TornFiles') /\ Cardinality(TornFiles') <= n /\ Cardinality(TornFiles') \in Nat
    BY <1>1, FS_Subset, FS_CardinalityType
  <2>2. n <= restarts
    BY <1>0, <1>1 DEF DamageBounded
  <2>. QED
    BY <1>0, <1>1, <2>1, <2>2 DEF DamageBounded
<1>2. ASSUME disk' = disk, restarts' = restarts, phase # "write" PROVE G
  <2>1. TornFiles' = TornFiles
    BY <1>2 DEF TornFiles
  <2>. QED
    BY <1>1, <1>2, <2>1
<1>3. ASSUME NEW u \in Uuids, SaveOpen(u) PROVE G
  <2>1. TornFiles' = TornFiles \cup {u}
    BY <1>0, <1>3 DEF SaveOpen, TornFiles, TypeOK, FileNames
  <2>2. /\ IsFiniteSet(TornFiles') /\ Cardinality(TornFiles') \in {n, n + 1}
    BY <2>1, FS_AddElement
  <2>3. n <= restarts /\ restarts' = restarts /\ phase' = "write"
    BY <1>0, <1>3 DEF DamageBounded, SaveOpen
  <2>. QED
    BY <1>0, <2>2, <2>3 DEF DamageBounded
<1>4. ASSUME SaveWritten PROVE G
  <2>1. cur \in Uuids /\ cur \in FileNames /\ m_keys[cur] \in EncryptedKey /\ phase = "write"
    BY <1>0, <1>4 DEF SaveWritten, TypeInv, TypeOK, Shape, Stored, FileNames
  <2>2. FileOf(cur) \in KeyFile
    BY <2>1 DEF FileOf, KeyFile, EncryptedKey
  <2>3. cur \in TornFiles /\ TornFiles' = TornFiles \ {cur}
    BY <1>0, <1>4, <2>1, <2>2, SentinelAssumption DEF SaveWritten, TornFiles, TypeOK, FilesInv, SavePoint
  <2>4. IsFiniteSet(TornFiles') /\ Cardinality(TornFiles') = n - 1
    BY <2>3, FS_RemoveElement
  <2>5. n <= restarts + 1 /\ restarts' = restarts
    BY <1>0, <1>4, <2>1 DEF DamageBounded, SaveWritten, SwapFilename
  <2>6. phase' = "remove"
    BY <1>4 DEF SaveWritten, SwapFilename
  <2>. QED
    BY <1>0, <2>4, <2>5, <2>6 DEF DamageBounded
<1>5. ASSUME SaveRemoveOld PROVE G
  <2>1. TornFiles' \subseteq TornFiles
    BY <1>0, <1>5, SentinelAssumption DEF SaveRemoveOld, TornFiles, TypeOK
  <2>. QED
    BY <1>1, <1>5, <2>1 DEF SaveRemoveOld
<1>6. ASSUME NEW u \in Uuids, kill(u) PROVE G
  <2>1. TornFiles' \subseteq TornFiles
    BY <1>0, <1>6, SentinelAssumption DEF kill, TornFiles, TypeOK
  <2>. QED
    BY <1>1, <1>6, <2>1 DEF kill, Idle
<1>7. ASSUME Stop PROVE G
  <2>1. TornFiles' = TornFiles
    BY <1>7 DEF TornFiles, Stop
  <2>2. restarts' = restarts + 1 /\ phase' = "idle"
    BY <1>7 DEF Stop, EndSave
  <2>3. n <= restarts + 1
    BY <1>0 DEF DamageBounded
  <2>. QED
    BY <1>0, <2>1, <2>2, <2>3 DEF DamageBounded
<1>8. ASSUME UNCHANGED vars PROVE G
  BY <1>8 DEF vars, TornFiles, DamageBounded
<1> HIDE DEF G
<1>9. ASSUME SaveReturn \/ SaveThrows PROVE G
  BY <1>2, <1>9 DEF SaveReturn, SaveThrows, SaveOpenFails, SaveRemoveFails
<1>10. ASSUME BeginSave, Idle PROVE G
  BY <1>2, <1>10 DEF BeginSave, Idle
<1>11. ASSUME \/ \E u \in Uuids, s \in Secrets, p \in Passes : importSecret(u, s, p)
              \/ \E k \in KeyFiles : importKey(k)
              \/ \E u \in Uuids, p, q \in Passes : recode(u, p, q) \/ recodeAddress(u, p, q)
       PROVE  G
  BY <1>10, <1>11 DEF importSecret, importKey, recode, recodeAddress
<1>12. ASSUME \/ \E w \in BOOLEAN : Start(w)
              \/ clearCache \/ setPath
              \/ \E u \in Uuids, p \in Passes, c \in BOOLEAN : secret(u, p, c)
              \/ \E u \in Uuids : killThrows(u)
       PROVE  disk' = disk /\ restarts' = restarts /\ phase # "write"
  BY <1>0, <1>12 DEF Start, clearCache, setPath, secret, killThrows, Idle, TypeInv, Shape
<1>13. G
  BY <1>2, <1>3, <1>4, <1>5, <1>6, <1>7, <1>8, <1>9, <1>11, <1>12, SaveStepCases DEF Next, SaveWriteShort
<1>. QED
  BY <1>0, <1>13 DEF G

(* Every stop of the process damages at most the one file that save() was  *)
(* writing, and a failure that save() reports damages none, on a device    *)
(* that takes what is written to it.                                       *)
THEOREM DamageLimited == ASSUME "full" \notin Faults PROVE Spec => []DamageBounded
<1>1. DamageInv /\ [Next]_vars => DamageInv'
  BY DamageNext
<1>2. DamageInv => DamageBounded
  BY DEF DamageInv
<1>. QED
  BY <1>1, <1>2, DamageInit, PTL DEF Spec
=============================================================================
