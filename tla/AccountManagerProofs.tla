----------------------- MODULE AccountManagerProofs ------------------------
(* Proofs about AccountManager, on top of those about its SecretStore.     *)
EXTENDS AccountManager, SecretStoreProofs

(* What an operation of the manager does to the store is one of the        *)
(* store's own operations, except a Delete whose fs::remove throws, which  *)
(* is secret() followed by a kill() that throws.                           *)
LEMMA StoreStep ==
    ASSUME AMTypeOK, [AMNext]_allVars
    PROVE  \/ Deriving \/ UNCHANGED vars
           \/ \E s \in Secrets, p \in Passes : ImportNew(s, p)
           \/ \E a \in Accounts, p \in Passes : DeleteThrows(a, p)
<1>1. ASSUME NEW a \in Listed PROVE cfxAddressDic[a] \in Uuids /\ a \in Accounts
  BY DEF Listed, AMTypeOK
<1>2. ASSUME NEW r \in RawFiles, ImportKeystore(r) PROVE Deriving \/ UNCHANGED vars
  BY <1>2 DEF ImportKeystore, KeyFiles, Deriving
<1>3. ASSUME NEW a \in Accounts, NEW p \in Passes, NEW q \in Passes, UpdatePassphrase(a, p, q)
      PROVE Deriving \/ UNCHANGED vars
  BY <1>1, <1>3 DEF UpdatePassphrase, Deriving
<1>4. ASSUME NEW a \in Accounts, NEW p \in Passes, GetSecret(a, p) PROVE Deriving \/ UNCHANGED vars
  BY <1>1, <1>4 DEF GetSecret, Deriving
<1>5. ASSUME NEW a \in Accounts, NEW p \in Passes, Delete(a, p) PROVE Deriving \/ UNCHANGED vars
  BY <1>1, <1>5 DEF Delete, Deriving
<1>6. ASSUME NEW s \in Importable, NEW p \in Passes, ImportPrivateKey(s, p)
      PROVE (s \in Secrets /\ ImportNew(s, p)) \/ UNCHANGED vars
  BY <1>6, ImportableAssumption DEF ImportPrivateKey
<1>7. ASSUME NEW p \in Passes, Create(p) PROVE \E s \in Secrets : ImportNew(s, p)
  BY <1>7 DEF Create
<1>8. ASSUME \/ \E w \in BOOLEAN : Construct(w)
             \/ End \/ Saving \/ Finish \/ Throw
      PROVE Deriving
  BY <1>8 DEF Construct, End, Saving, Finish, Throw, Deriving
<1>9. ASSUME NEW t \in Threads, GetDefaultTest(t) \/ GetDefaultList(t) PROVE UNCHANGED vars
  BY <1>9 DEF GetDefaultTest, GetDefaultList
<1>10. ASSUME UNCHANGED allVars PROVE UNCHANGED vars
  BY <1>10 DEF allVars
<1>. QED
  BY <1>2, <1>3, <1>4, <1>5, <1>6, <1>7, <1>8, <1>9, <1>10 DEF AMNext

LEMMA StoreNext ==
    ASSUME AMTypeOK, [AMNext]_allVars
    PROVE  [Next]_vars \/ \E a \in Accounts, p \in Passes : DeleteThrows(a, p)
<1>1. Deriving => Next
  BY DEF Deriving, Next
<1>2. ASSUME NEW s \in Secrets, NEW p \in Passes, ImportNew(s, p) PROVE Next
  BY <1>2 DEF ImportNew, Next
<1>. QED
  BY <1>1, <1>2, StoreStep

(* The store after a Delete that threw. *)
LEMMA ThrowingDelete ==
    ASSUME AMTypeOK, NEW a \in Accounts, NEW p \in Passes, DeleteThrows(a, p)
    PROVE  LET u == cfxAddressDic[a] IN
           /\ u \in Stored /\ Stored' = Stored /\ Idle /\ Idle'
           /\ m_keys' \in [Uuids -> EncryptedKey \cup {None}]
           /\ \A v \in Uuids : v # u => m_keys'[v] = m_keys[v]
           /\ m_keys'[u].sec = m_keys[u].sec /\ m_keys'[u].file = m_keys[u].file
           /\ m_keys'[u].addr \in {m_keys[u].addr, AddressOf[m_keys[u].sec]}
           /\ m_cached' = [m_cached EXCEPT ![u] = None]
           /\ UNCHANGED <<up, m_path, disk, phase, todo, cur, old, restarts>>
<1> DEFINE u == cfxAddressDic[a]
<1>1. u \in Uuids
  BY DEF DeleteThrows, Listed, AMTypeOK
<1>2. u \in Stored
  BY <1>1 DEF DeleteThrows, Secret, CacheHit, Stored
<1>3. m_keys' = KeysAfter(u, p, FALSE) /\ m_cached' = [m_cached EXCEPT ![u] = None]
      /\ UNCHANGED <<up, m_path, disk, phase, todo, cur, old, restarts>> /\ Idle
  BY DEF DeleteThrows, saveVars, MutexFree
<1> HIDE DEF u
<1>4. /\ m_keys' \in [Uuids -> EncryptedKey \cup {None}]
      /\ \A v \in Uuids : v # u => m_keys'[v] = m_keys[v]
      /\ m_keys'[u] # None
      /\ m_keys'[u].sec = m_keys[u].sec /\ m_keys'[u].file = m_keys[u].file
      /\ m_keys'[u].addr \in {m_keys[u].addr, AddressOf[m_keys[u].sec]}
  BY <1>1, <1>2, <1>3, SecretType DEF AMTypeOK, Stored
<1>5. Stored' = Stored
  BY <1>2, <1>4 DEF Stored
<1>. QED
  BY <1>2, <1>3, <1>4, <1>5 DEF Idle, u

LEMMA ThrowingDeleteIdentity ==
    ASSUME AMTypeOK, IdentityInv, NEW a \in Accounts, NEW p \in Passes, DeleteThrows(a, p)
    PROVE  IdentityInv' /\ DerivedCopies
<1> DEFINE u == cfxAddressDic[a]
<1> USE DEF IdentityInv, KeyIdentity
<1>1. /\ u \in Stored /\ Stored' = Stored /\ Idle /\ Idle'
      /\ m_keys' \in [Uuids -> EncryptedKey \cup {None}]
      /\ \A v \in Uuids : v # u => m_keys'[v] = m_keys[v]
      /\ m_keys'[u].sec = m_keys[u].sec /\ m_keys'[u].file = m_keys[u].file
      /\ m_keys'[u].addr \in {m_keys[u].addr, AddressOf[m_keys[u].sec]}
      /\ m_cached' = [m_cached EXCEPT ![u] = None]
      /\ UNCHANGED <<up, m_path, disk, phase, todo, cur, old, restarts>>
  BY ThrowingDelete
<1> HIDE DEF u
<1>2. u \in Uuids
  BY <1>1 DEF Stored
<1>3. m_cached' \in [Uuids -> Secrets \cup {None}]
  BY <1>1 DEF TypeInv, TypeOK
<1>4. TypeInv'
  BY <1>1, <1>2, <1>3 DEF TypeInv, TypeOK, Shape, Idle
<1>5. ASSUME NEW v \in Stored' PROVE From(m_keys'[v], v)
  <2>1. CASE v = u
    BY <1>1, <2>1, MemoryCopy DEF From
  <2>2. CASE v # u
    BY <1>1, <2>2, FromMemory DEF Stored
  <2>. QED
    BY <2>1, <2>2
<1>6. DerivedCopies
  BY <1>1, <1>5, DiskCopy DEF DerivedCopies, Readable
<1>7. CacheSound'
  BY <1>1, <1>2 DEF CacheSound, TypeInv, TypeOK, Stored
<1>. QED
  BY <1>4, <1>6, <1>7, Derive

-----------------------------------------------------------------------------
(* Type correctness, and that every key the store has is sound. *)

AMTypeInv == AMTypeOK /\ IdentityInv

LEMMA AMTypeInit == AMInit => AMTypeInv
<1> SUFFICES ASSUME AMInit PROVE AMTypeInv
  OBVIOUS
<1>1. IdentityInv
  BY IdentityInit DEF AMInit
<1>2. TypeOK
  BY <1>1 DEF IdentityInv, TypeInv
<1>. QED
  BY <1>1, <1>2 DEF AMInit, AMTypeInv, AMTypeOK, NoAccounts

LEMMA AMIdentityNext == ASSUME AMTypeInv, [AMNext]_allVars PROVE IdentityInv'
BY StoreNext, IdentityNext, ThrowingDeleteIdentity DEF AMTypeInv

LEMMA AMTypeNext == ASSUME AMTypeInv, [AMNext]_allVars PROVE AMTypeInv'
<1> USE DEF AMTypeInv
<1> DEFINE T == /\ cfxAddressDic' \in [Accounts -> Uuids \cup {None}]
                /\ entering' \in Uuids \cup {None}
                /\ inDefault' \subseteq Threads
                /\ deleted' \subseteq Uuids
                /\ ret' \in {"none", "ok", "fail", "throw", "out of range"}
<1>1. IdentityInv' /\ TypeOK'
  BY AMIdentityNext DEF IdentityInv, TypeInv
<1>2. ASSUME NEW u \in Uuids, Begins(u) PROVE T
  BY <1>2 DEF Begins, AMTypeOK
<1>3. ASSUME NEW r \in {"none", "ok", "fail", "throw", "out of range"}, Returns(r) PROVE T
  BY <1>3 DEF Returns, AMTypeOK
<1>4. ASSUME NEW s \in Secrets, NEW p \in Passes, ImportNew(s, p) PROVE T
  BY <1>2, <1>4 DEF ImportNew
<1>5. ASSUME NEW p \in Passes, Create(p) PROVE T
  BY <1>4, <1>5 DEF Create
<1>6. ASSUME NEW s \in Importable, NEW p \in Passes, ImportPrivateKey(s, p) PROVE T
  BY <1>3, <1>4, <1>6, ImportableAssumption DEF ImportPrivateKey
<1>7. ASSUME NEW r \in RawFiles, ImportKeystore(r) PROVE T
  <2>1. r.id \in Uuids
    BY ConstantsAssumption DEF RawFile
  <2>. QED
    BY <1>2, <1>3, <1>7, <2>1 DEF ImportKeystore
<1>8. ASSUME NEW a \in Accounts, NEW p \in Passes, NEW q \in Passes, UpdatePassphrase(a, p, q) PROVE T
  BY <1>3, <1>8 DEF UpdatePassphrase, AMTypeOK
<1>9. ASSUME NEW a \in Accounts, NEW p \in Passes, GetSecret(a, p) \/ DeleteThrows(a, p) PROVE T
  BY <1>3, <1>9 DEF GetSecret, DeleteThrows
<1>10. ASSUME NEW a \in Accounts, NEW p \in Passes, Delete(a, p) PROVE T
  <2>1. a \in Listed => cfxAddressDic[a] \in Uuids
    BY DEF Listed, AMTypeOK
  <2>2. CASE a \in Listed /\ cfxAddressDic' = [cfxAddressDic EXCEPT ![a] = None]
             /\ deleted' \subseteq deleted \cup {cfxAddressDic[a]} /\ ret' = "ok" /\ UNCHANGED <<entering, inDefault>>
    BY <2>1, <2>2 DEF AMTypeOK
  <2>. QED
    BY <1>3, <1>10, <2>2 DEF Delete
<1>11. ASSUME NEW t \in Threads, GetDefaultTest(t) PROVE T
  BY <1>3, <1>11 DEF GetDefaultTest, AMTypeOK
<1>12. ASSUME NEW t \in Threads, GetDefaultList(t) PROVE T
  BY <1>12 DEF GetDefaultList, AMTypeOK
<1>13. ASSUME NEW w \in BOOLEAN, Construct(w) PROVE T
  BY <1>13 DEF Construct, initialize, AMTypeOK
<1>14. ASSUME End PROVE T
  BY <1>14 DEF End, NoAccounts, AMTypeOK
<1>15. ASSUME Saving PROVE T
  BY <1>15 DEF Saving, amVars, AMTypeOK
<1>16. ASSUME Finish PROVE T
  BY <1>16 DEF Finish, AMTypeOK
<1>17. ASSUME Throw PROVE T
  BY <1>17 DEF Throw, AMTypeOK
<1>18. ASSUME UNCHANGED allVars PROVE T
  BY <1>18 DEF allVars, amVars, AMTypeOK
<1>19. T
  BY <1>5, <1>6, <1>7, <1>8, <1>9, <1>10, <1>11, <1>12, <1>13, <1>14, <1>15, <1>16, <1>17, <1>18 DEF AMNext
<1>. QED
  BY <1>1, <1>19 DEF AMTypeOK

(* The type invariant of the manager and of its store, with any files and  *)
(* any fault.                                                              *)
THEOREM AMTypeCorrect == AMSpec => []AMTypeOK
<1>1. AMTypeInv /\ [AMNext]_allVars => AMTypeInv'
  BY AMTypeNext
<1>2. AMTypeInv => AMTypeOK
  BY DEF AMTypeInv
<1>. QED
  BY <1>1, <1>2, AMTypeInit, PTL DEF AMSpec

-----------------------------------------------------------------------------
(* SecretMatchesAccount.  The dictionary goes by uuids, GetSecret answers  *)
(* with what the store has for the uuid: so every copy of the key of that  *)
(* uuid, wherever it is, has to derive the account.                        *)

DicSound ==
    \A a \in Listed, c \in Copies :
        c.id = cfxAddressDic[a] => a \in {Secret2CfxAddr(c.sec), ZeroAccount}

(* Only an operation that is saving has an account to enter. *)
EnteringStored == entering # None => entering \in Stored /\ phase # "idle"

SoundInv == AMTypeInv /\ EnteringStored /\ DicSound

(* The account of a copy is that of its key, or the zero account. *)
LEMMA CopyAccount ==
    ASSUME IdentityInv, NEW c \in Copies
    PROVE  /\ c.sec \in Secrets
           /\ getCfxUserAddress(c.addr) \in {Secret2CfxAddr(c.sec), ZeroAccount}
           /\ getCfxUserAddress(c.addr) \in Accounts
<1>1. c.sec \in Secrets
  <2>1. ASSUME NEW u \in Stored, c = FileOf(u) PROVE c.sec \in Secrets
    <3>1. m_keys[u] \in EncryptedKey
      BY DEF Stored, IdentityInv, TypeInv, TypeOK
    <3>. QED
      BY <2>1, <3>1 DEF FileOf, EncryptedKey
  <2>2. ASSUME NEW f \in FileNames, Readable(f), c = disk[f] PROVE c.sec \in Secrets
    <3>1. c \in KeyFile
      BY <2>2 DEF Readable, IdentityInv, TypeInv, TypeOK
    <3>. QED
      BY <3>1 DEF KeyFile
  <2>3. ASSUME c \in KeyFiles PROVE c.sec \in Secrets
    BY <2>3, KeyFilesType DEF KeyFile
  <2>. QED
    BY <2>1, <2>2, <2>3 DEF Copies
<1>2. c.addr \in {ZeroAddress, AddressOf[c.sec]}
  BY DEF IdentityInv, KeyIdentity, AddressesRight
<1>3. getCfxUserAddress(c.addr) \in {Secret2CfxAddr(c.sec), ZeroAccount}
  BY <1>2 DEF Secret2CfxAddr, ZeroAccount
<1>. QED
  BY <1>1, <1>3 DEF Accounts

(* What the operations that store a key do to memory. *)
LEMMA ImportStores ==
    ASSUME TypeInv, NEW u \in Uuids, NEW s \in Secrets, NEW p \in Passes, importSecret(u, s, p)
    PROVE  Stored' = Stored \cup {u} /\ phase' = "loop"
<1> DEFINE e == [sec |-> s, pass |-> p, addr |-> AddressOf[s], file |-> None]
<1>1. e \in EncryptedKey /\ m_keys' = [m_keys EXCEPT ![u] = e]
  BY ConstantsAssumption DEF EncryptedKey, importSecret
<1> HIDE DEF e
<1>2. phase' = "loop"
  BY DEF importSecret, BeginSave
<1>. QED
  BY <1>1, <1>2, SentinelAssumption DEF Stored, TypeInv, TypeOK

LEMMA ImportKeyStores ==
    ASSUME TypeInv, NEW k \in KeyFiles, importKey(k)
    PROVE  k.id \in Uuids /\ Stored' = Stored \cup {k.id} /\ phase' = "loop"
<1>1. k \in KeyFile /\ k.id \in Uuids
  BY KeyFilesType DEF KeyFile
<1>2. EntryOf(k, None) \in EncryptedKey
  BY <1>1 DEF EntryOf, EncryptedKey, KeyFile
<1>. QED
  BY <1>1, <1>2, SentinelAssumption DEF importKey, BeginSave, Stored, TypeInv, TypeOK

LEMMA EnteringNext == ASSUME AMTypeInv, EnteringStored, [AMNext]_allVars PROVE EnteringStored'
<1> USE DEF AMTypeInv, IdentityInv, EnteringStored
<1>1. ASSUME phase = "idle", entering' = entering PROVE EnteringStored'
  BY <1>1
<1>2. ASSUME NEW s \in Secrets, NEW p \in Passes, ImportNew(s, p) PROVE EnteringStored'
  BY <1>2, ImportStores DEF ImportNew, Begins
<1>3. ASSUME NEW p \in Passes, Create(p) PROVE EnteringStored'
  BY <1>2, <1>3 DEF Create
<1>4. ASSUME NEW s \in Importable, NEW p \in Passes, ImportPrivateKey(s, p) PROVE EnteringStored'
  BY <1>1, <1>2, <1>4, ImportableAssumption DEF ImportPrivateKey, Returns, MutexFree, Idle
<1>5. ASSUME NEW r \in RawFiles, ImportKeystore(r) PROVE EnteringStored'
  <2>1. CASE upgraded(r) = Torn
    BY <1>1, <1>5, <2>1 DEF ImportKeystore, Returns, MutexFree, Idle
  <2>2. CASE upgraded(r) # Torn
    <3>1. upgraded(r) \in KeyFiles /\ upgraded(r).id = r.id
      BY <2>2 DEF KeyFiles, upgraded
    <3>2. importKey(upgraded(r)) /\ entering' = r.id
      BY <1>5, <2>2 DEF ImportKeystore, Begins
    <3>. QED
      BY <3>1, <3>2, ImportKeyStores
  <2>. QED
    BY <2>1, <2>2
<1>6. ASSUME NEW a \in Accounts, NEW p \in Passes, NEW q \in Passes, UpdatePassphrase(a, p, q) PROVE EnteringStored'
  BY <1>1, <1>6 DEF UpdatePassphrase, Returns, MutexFree, Idle
<1>7. ASSUME NEW a \in Accounts, NEW p \in Passes, GetSecret(a, p) \/ Delete(a, p) \/ DeleteThrows(a, p)
      PROVE EnteringStored'
  BY <1>1, <1>7 DEF GetSecret, Delete, DeleteThrows, Returns, MutexFree, Idle
<1>8. ASSUME NEW t \in Threads, GetDefaultTest(t) \/ GetDefaultList(t) PROVE EnteringStored'
  BY <1>1, <1>8 DEF GetDefaultTest, GetDefaultList, Returns, MutexFree, Idle
<1>9. ASSUME NEW w \in BOOLEAN, Construct(w) PROVE EnteringStored'
  BY <1>1, <1>9 DEF Construct, Start, TypeInv, Shape
<1>10. CASE End \/ Finish \/ Throw
  BY <1>10 DEF End, Finish, Throw
<1>11. CASE Saving
  <2>1. Stored' = Stored /\ entering' = entering
    BY <1>11, SaveKeepsKeys DEF Saving, amVars
  <2>2. phase' # "idle"
    BY <1>11, SaveStepCases DEF Saving, SaveOpen, SaveWritten, SaveWriteShort, SwapFilename, SaveRemoveOld
  <2>. QED
    BY <1>11, <2>1, <2>2
<1>12. CASE UNCHANGED allVars
  BY <1>12 DEF allVars, amVars, vars, Stored
<1>. QED
  BY <1>3, <1>4, <1>5, <1>6, <1>7, <1>8, <1>9, <1>10, <1>11, <1>12 DEF AMNext

(* The operations that change the dictionary. *)
Enters == Finish /\ entering # None
Removes(a) ==
    /\ MutexFree /\ a \in Listed
    /\ m_keys[cfxAddressDic[a]] # None /\ kill(cfxAddressDic[a])
    /\ cfxAddressDic' = [cfxAddressDic EXCEPT ![a] = None]
    /\ deleted' = IF m_path THEN deleted \cup {cfxAddressDic[a]} ELSE deleted

LEMMA DicStep ==
    ASSUME [AMNext]_allVars
    PROVE  \/ cfxAddressDic' = cfxAddressDic
           \/ Enters
           \/ \E a \in Accounts : Removes(a)
           \/ \E w \in BOOLEAN : Construct(w)
           \/ End
<1>1. ASSUME NEW a \in Accounts, NEW p \in Passes, Delete(a, p)
      PROVE  cfxAddressDic' = cfxAddressDic \/ Removes(a)
  BY <1>1 DEF Delete, Removes, Returns, Secret, CacheHit
<1>2. ASSUME Finish PROVE cfxAddressDic' = cfxAddressDic \/ Enters
  BY <1>2 DEF Finish, Enters
<1>3. ASSUME \/ \E p \in Passes : Create(p)
             \/ \E s \in Importable, p \in Passes : ImportPrivateKey(s, p)
             \/ \E r \in RawFiles : ImportKeystore(r)
             \/ \E a \in Accounts, p, q \in Passes : UpdatePassphrase(a, p, q)
             \/ \E a \in Accounts, p \in Passes : GetSecret(a, p) \/ DeleteThrows(a, p)
             \/ \E t \in Threads : GetDefaultTest(t) \/ GetDefaultList(t)
             \/ Saving \/ Throw \/ UNCHANGED allVars
      PROVE  cfxAddressDic' = cfxAddressDic
  BY <1>3 DEF Create, ImportPrivateKey, ImportNew, ImportKeystore, Begins, UpdatePassphrase, GetSecret,
              DeleteThrows, GetDefaultTest, GetDefaultList, Saving, Throw, Returns, allVars, amVars
<1>. QED
  BY <1>1, <1>2, <1>3 DEF AMNext

(* The account that Enters puts into the dictionary. *)
LEMMA EnteredAccount ==
    ASSUME AMTypeInv, EnteringStored, Enters
    PROVE  LET b == getCfxUserAddress(m_keys[entering].addr) IN
           /\ b \in Accounts /\ entering \in Stored
           /\ b \in {Secret2CfxAddr(m_keys[entering].sec), ZeroAccount}
           /\ cfxAddressDic' = [cfxAddressDic EXCEPT ![b] = entering]
           /\ Listed' = Listed \cup {b}
           /\ m_keys' = m_keys /\ disk' = disk /\ m_path' = m_path
<1> DEFINE b == getCfxUserAddress(m_keys[entering].addr)
<1>1. entering \in Stored
  BY DEF EnteringStored, Enters
<1>2. b \in Accounts /\ b \in {Secret2CfxAddr(m_keys[entering].sec), ZeroAccount}
  BY <1>1, MemoryCopy, CopyAccount DEF AMTypeInv
<1>3. /\ cfxAddressDic' = [cfxAddressDic EXCEPT ![b] = entering]
      /\ m_keys' = m_keys /\ disk' = disk /\ m_path' = m_path
  BY DEF Enters, Finish, SaveReturn
<1> HIDE DEF b
<1>4. Listed' = Listed \cup {b}
  BY <1>1, <1>2, <1>3 DEF Listed, Enters, AMTypeInv, AMTypeOK
<1>. QED
  BY <1>1, <1>2, <1>3, <1>4 DEF b

(* What a constructor enters. *)
LEMMA ConstructedAccounts ==
    ASSUME AMTypeInv, NEW w \in BOOLEAN, Construct(w), NEW a \in Listed'
    PROVE  cfxAddressDic'[a] \in Stored' /\ getCfxUserAddress(m_keys'[cfxAddressDic'[a]].addr) = a
BY DEF Construct, initialize, Listed, Stored

LEMMA DicSoundNext == ASSUME SoundInv, AMTypeInv', [AMNext]_allVars PROVE DicSound'
<1> USE DEF SoundInv
<1>0. IdentityInv /\ IdentityInv' /\ AMTypeOK
  BY DEF AMTypeInv
<1> SUFFICES ASSUME NEW a \in Listed', NEW c \in Copies', c.id = cfxAddressDic'[a]
             PROVE  a \in {Secret2CfxAddr(c.sec), ZeroAccount}
  BY DEF DicSound
<1>1. CASE a \in Listed /\ cfxAddressDic'[a] = cfxAddressDic[a]
  <2>1. ASSUME DerivedCopies PROVE a \in {Secret2CfxAddr(c.sec), ZeroAccount}
    <3>1. PICK d \in Copies : Similar(c, d)
      BY <2>1, DerivedSimilar
    <3>. QED
      BY <1>1, <3>1 DEF Similar, DicSound
  <2>2. ASSUME NEW s \in Secrets, NEW p \in Passes, ImportNew(s, p)
        PROVE  a \in {Secret2CfxAddr(c.sec), ZeroAccount}
    <3>1. PICK u \in Uuids : (\A b \in Accounts : cfxAddressDic[b] # u) /\ importSecret(u, s, p)
      BY <2>2 DEF ImportNew
    <3>2. c \in Copies
      BY <1>0, <1>1, <3>1, IdentityImport DEF Listed
    <3>. QED
      BY <1>1, <3>2 DEF DicSound
  <2>. QED
    BY <1>0, <2>1, <2>2, StoreStep, DerivedNext, ThrowingDeleteIdentity
<1>2. ASSUME NEW w \in BOOLEAN, Construct(w) PROVE a \in {Secret2CfxAddr(c.sec), ZeroAccount}
  <2>1. PICK u \in Stored' : u = cfxAddressDic'[a] /\ getCfxUserAddress(m_keys'[u].addr) = a
    BY <1>2, ConstructedAccounts DEF SoundInv
  <2>2. /\ FileOf(u)' \in Copies'
        /\ FileOf(u)'.id = u /\ FileOf(u)'.sec = m_keys'[u].sec /\ FileOf(u)'.addr = m_keys'[u].addr
    <3>1. FileOf(u)' \in Copies'
      BY <2>1 DEF Copies
    <3>2. FileOf(u)'.id = u /\ FileOf(u)'.sec = m_keys'[u].sec /\ FileOf(u)'.addr = m_keys'[u].addr
      BY DEF FileOf
    <3>. QED
      BY <3>1, <3>2
  <2>3. c.sec = m_keys'[u].sec /\ m_keys'[u].addr \in {ZeroAddress, AddressOf[c.sec]}
    BY <1>0, <2>1, <2>2 DEF IdentityInv, KeyIdentity, OneSecretPerUuid, AddressesRight
  <2>. QED
    BY <2>1, <2>3 DEF Secret2CfxAddr, ZeroAccount
<1>3. CASE Enters
  <2> DEFINE b == getCfxUserAddress(m_keys[entering].addr)
  <2>1. /\ b \in Accounts /\ entering \in Stored
        /\ b \in {Secret2CfxAddr(m_keys[entering].sec), ZeroAccount}
        /\ cfxAddressDic' = [cfxAddressDic EXCEPT ![b] = entering]
        /\ Listed' = Listed \cup {b}
        /\ m_keys' = m_keys /\ disk' = disk /\ m_path' = m_path
    BY <1>3, EnteredAccount
  <2> HIDE DEF b
  <2>2. Copies' = Copies
    BY <2>1 DEF Copies, Stored, FileOf, Readable
  <2>3. CASE a = b
    <3>1. c.id = entering
      BY <2>1, <2>3 DEF AMTypeInv, AMTypeOK
    <3>2. c.sec = m_keys[entering].sec
      BY <1>0, <2>1, <2>2, <3>1, MemoryCopy DEF IdentityInv, KeyIdentity, OneSecretPerUuid
    <3>. QED
      BY <2>1, <2>3, <3>2
  <2>4. CASE a # b
    <3>1. a \in Listed /\ a \in Accounts
      BY <2>1, <2>4 DEF Listed
    <3>2. cfxAddressDic'[a] = cfxAddressDic[a]
      BY <2>1, <2>4, <3>1 DEF AMTypeInv, AMTypeOK
    <3>. QED
      BY <1>1, <3>1, <3>2
  <2>. QED
    BY <2>3, <2>4
<1>4. ASSUME NEW b \in Accounts, Removes(b) PROVE a \in Listed /\ cfxAddressDic'[a] = cfxAddressDic[a]
  BY <1>4 DEF Removes, Listed, AMTypeInv, AMTypeOK
<1>5. ASSUME End PROVE FALSE
  BY <1>5 DEF End, NoAccounts, Listed
<1>6. ASSUME cfxAddressDic' = cfxAddressDic PROVE a \in Listed /\ cfxAddressDic'[a] = cfxAddressDic[a]
  BY <1>6 DEF Listed
<1>. QED
  BY <1>1, <1>2, <1>3, <1>4, <1>5, <1>6, DicStep

LEMMA SoundInit == AMInit => SoundInv
<1> SUFFICES ASSUME AMInit PROVE SoundInv
  OBVIOUS
<1>1. AMTypeInv
  BY AMTypeInit
<1>. QED
  BY <1>1 DEF AMInit, SoundInv, EnteringStored, DicSound, NoAccounts, Listed

LEMMA SoundNext == ASSUME SoundInv, [AMNext]_allVars PROVE SoundInv'
<1>1. AMTypeInv'
  BY AMTypeNext DEF SoundInv
<1>. QED
  BY <1>1, EnteringNext, DicSoundNext DEF SoundInv

(* GetSecret(a, ..) answers with the secret of account a, whatever was     *)
(* imported, recoded, deleted, reloaded or failed before, with any files   *)
(* and any fault; only the zero account can give another key's secret.     *)
THEOREM SecretOfAccount == AMSpec => []SecretMatchesAccount
<1>1. SoundInv /\ [AMNext]_allVars => SoundInv'
  BY SoundNext
<1>2. SoundInv => SecretMatchesAccount
  <2> SUFFICES ASSUME SoundInv, NEW a \in Listed, NEW p \in Passes, Secret(cfxAddressDic[a], p, TRUE) # None
               PROVE  a \in {Secret2CfxAddr(Secret(cfxAddressDic[a], p, TRUE)), ZeroAccount}
    BY DEF SecretMatchesAccount
  <2> DEFINE u == cfxAddressDic[a]
  <2>1. u \in Uuids
    BY DEF SoundInv, AMTypeInv, AMTypeOK, Listed
  <2>2. u \in Stored /\ Secret(u, p, TRUE) = m_keys[u].sec
    BY <2>1 DEF SoundInv, AMTypeInv, IdentityInv, KeyIdentity, CacheSound, Secret, CacheHit, decrypt, Stored
  <2>3. FileOf(u) \in Copies /\ FileOf(u).id = u /\ FileOf(u).sec = m_keys[u].sec
    BY <2>2, MemoryCopy
  <2> HIDE DEF u
  <2>4. a \in {Secret2CfxAddr(m_keys[u].sec), ZeroAccount}
    BY <2>3 DEF SoundInv, DicSound, u
  <2>. QED
    BY <2>2, <2>4 DEF u
<1>. QED
  BY <1>1, <1>2, SoundInit, PTL DEF AMSpec

-----------------------------------------------------------------------------
(* ListedAccountsExist, for keystore files that carry their address.  Then *)
(* a key has one account, so that Delete of one account never takes the    *)
(* key of another.                                                         *)

Addressed == \A k \in KeyFiles : k.addr # ZeroAddress

AllAddressed == \A c \in Copies : c.addr # ZeroAddress

ExistInv == SoundInv /\ AllAddressed /\ ListedAccountsExist /\ ZeroAccount \notin Listed

LEMMA NoZeroAddress == \A s \in Secrets : AddressOf[s] # ZeroAddress
BY AccountsAssumption DEF Secret2CfxAddr, ZeroAccount

(* The account of a key. *)
LEMMA CopyOwnAccount ==
    IdentityInv /\ AllAddressed =>
        \A c \in Copies : /\ c.sec \in Secrets
                          /\ getCfxUserAddress(c.addr) = Secret2CfxAddr(c.sec)
                          /\ Secret2CfxAddr(c.sec) \in Accounts \ {ZeroAccount}
<1> SUFFICES ASSUME IdentityInv, AllAddressed, NEW c \in Copies
             PROVE  /\ c.sec \in Secrets
                    /\ getCfxUserAddress(c.addr) = Secret2CfxAddr(c.sec)
                    /\ Secret2CfxAddr(c.sec) \in Accounts \ {ZeroAccount}
  OBVIOUS
<1>1. c.sec \in Secrets
  BY CopyAccount
<1>2. c.addr = AddressOf[c.sec]
  BY DEF AllAddressed, IdentityInv, KeyIdentity, AddressesRight
<1>. QED
  BY <1>1, <1>2, AccountsAssumption DEF Secret2CfxAddr, Accounts

KeysOwnAccount ==
    \A u \in Stored : /\ getCfxUserAddress(m_keys[u].addr) = Secret2CfxAddr(m_keys[u].sec)
                      /\ Secret2CfxAddr(m_keys[u].sec) \in Accounts \ {ZeroAccount}

LEMMA KeyOwnAccount == IdentityInv /\ AllAddressed => KeysOwnAccount
BY CopyOwnAccount, MemoryCopy DEF KeysOwnAccount

LEMMA KeyOwnAccountNext == IdentityInv' /\ AllAddressed' => KeysOwnAccount'
BY KeyOwnAccount, PTL

(* A listed account is that of the key of its uuid. *)
LEMMA ListedAccount ==
    ASSUME ExistInv, NEW a \in Listed
    PROVE  /\ cfxAddressDic[a] \in Stored
           /\ a = Secret2CfxAddr(m_keys[cfxAddressDic[a]].sec)
           /\ a = getCfxUserAddress(m_keys[cfxAddressDic[a]].addr)
<1> DEFINE u == cfxAddressDic[a]
<1>1. u \in Stored
  BY DEF ExistInv, ListedAccountsExist
<1>2. FileOf(u) \in Copies /\ FileOf(u).id = u /\ FileOf(u).sec = m_keys[u].sec
  BY <1>1, MemoryCopy
<1>3. a \in {Secret2CfxAddr(FileOf(u).sec), ZeroAccount}
  BY <1>2 DEF ExistInv, SoundInv, DicSound
<1> HIDE DEF u
<1>4. a = Secret2CfxAddr(m_keys[u].sec)
  BY <1>2, <1>3 DEF ExistInv
<1>5. getCfxUserAddress(m_keys[u].addr) = Secret2CfxAddr(m_keys[u].sec)
  BY <1>1, KeyOwnAccount DEF ExistInv, SoundInv, AMTypeInv, KeysOwnAccount
<1>. QED
  BY <1>1, <1>4, <1>5 DEF u

ListedOwnAccount ==
    \A a \in Listed : cfxAddressDic[a] \in Stored /\ a = getCfxUserAddress(m_keys[cfxAddressDic[a]].addr)

LEMMA ListedAccountNext == ExistInv' => ListedOwnAccount'
<1>1. ExistInv => ListedOwnAccount
  BY ListedAccount DEF ListedOwnAccount
<1>. QED
  BY <1>1, PTL

(* Only Delete and the end of the process take a key out of memory. *)
LEMMA StoredStays ==
    ASSUME AMTypeInv, [AMNext]_allVars
    PROVE  \/ Stored \subseteq Stored'
           \/ \E a \in Accounts : Removes(a)
           \/ \E w \in BOOLEAN : Construct(w)
           \/ End
<1> DEFINE G == Stored \subseteq Stored'
<1> USE DEF AMTypeInv, IdentityInv
<1>1. ASSUME UNCHANGED vars PROVE G
  BY <1>1 DEF vars, Stored
<1>2. ASSUME NEW s \in Secrets, NEW p \in Passes, ImportNew(s, p) PROVE G
  BY <1>2, ImportStores DEF ImportNew
<1>3. ASSUME NEW r \in RawFiles, ImportKeystore(r) PROVE G
  <2>1. CASE upgraded(r) = Torn
    BY <1>1, <1>3, <2>1 DEF ImportKeystore
  <2>2. CASE upgraded(r) # Torn
    BY <1>3, <2>2, ImportKeyStores DEF ImportKeystore, KeyFiles
  <2>. QED
    BY <2>1, <2>2
<1>4. ASSUME NEW a \in Listed PROVE cfxAddressDic[a] \in Uuids
  BY DEF Listed, AMTypeOK
<1>5. ASSUME NEW a \in Accounts, NEW p \in Passes, NEW q \in Passes, UpdatePassphrase(a, p, q) PROVE G
  BY <1>1, <1>4, <1>5, RecodeStores DEF UpdatePassphrase
<1>6. ASSUME NEW u \in Uuids, NEW p \in Passes, secret(u, p, TRUE) PROVE G
  BY <1>6, SecretStores DEF TypeInv
<1>7. ASSUME NEW a \in Accounts, NEW p \in Passes, GetSecret(a, p) PROVE G
  BY <1>1, <1>4, <1>6, <1>7 DEF GetSecret
<1>8. ASSUME NEW a \in Accounts, NEW p \in Passes, DeleteThrows(a, p) PROVE G
  BY <1>8, ThrowingDelete
<1>9. ASSUME NEW a \in Accounts, NEW p \in Passes, Delete(a, p) PROVE G \/ Removes(a)
  BY <1>1, <1>9 DEF Delete, Removes, Secret, CacheHit
<1>10. ASSUME Saving \/ Finish \/ Throw PROVE G
  BY <1>10, SaveKeepsKeys DEF Saving, Finish, Throw
<1>11. ASSUME NEW t \in Threads, GetDefaultTest(t) \/ GetDefaultList(t) PROVE G
  BY <1>1, <1>11 DEF GetDefaultTest, GetDefaultList
<1>12. ASSUME NEW p \in Passes, Create(p) PROVE G
  BY <1>2, <1>12 DEF Create
<1>13. ASSUME NEW s \in Importable, NEW p \in Passes, ImportPrivateKey(s, p) PROVE G
  BY <1>1, <1>2, <1>13, ImportableAssumption DEF ImportPrivateKey
<1>14. ASSUME UNCHANGED allVars PROVE G
  BY <1>1, <1>14 DEF allVars
<1> HIDE DEF G
<1>15. ASSUME AMNext PROVE G \/ (\E a \in Accounts : Removes(a)) \/ (\E w \in BOOLEAN : Construct(w)) \/ End
  BY <1>3, <1>5, <1>7, <1>8, <1>9, <1>10, <1>11, <1>12, <1>13, <1>15 DEF AMNext
<1>. QED
  BY <1>14, <1>15 DEF G

LEMMA AddressedNext ==
    ASSUME AMTypeInv, AllAddressed, [AMNext]_allVars PROVE AllAddressed'
<1> USE DEF AMTypeInv
<1> SUFFICES ASSUME NEW c \in Copies' PROVE c.addr # ZeroAddress
  BY DEF AllAddressed
<1>1. CASE DerivedCopies
  <2>1. PICK d \in Copies : Similar(c, d)
    BY <1>1, DerivedSimilar
  <2>2. d.addr # ZeroAddress /\ d.sec \in Secrets
    BY CopyAccount DEF AllAddressed
  <2>. QED
    BY <2>1, <2>2, NoZeroAddress DEF Similar
<1>2. ASSUME NEW s \in Secrets, NEW p \in Passes, ImportNew(s, p) PROVE c.addr # ZeroAddress
  <2>1. PICK u \in Uuids : importSecret(u, s, p)
    BY <1>2 DEF ImportNew
  <2>2. c \in Copies \/ c.addr = AddressOf[s]
    BY <2>1, IdentityImport
  <2>. QED
    BY <2>2, NoZeroAddress DEF AllAddressed
<1>. QED
  BY <1>1, <1>2, StoreStep, DerivedNext, ThrowingDeleteIdentity

LEMMA ExistNext == ASSUME ExistInv, [AMNext]_allVars PROVE ExistInv'
<1>1. SoundInv'
  BY SoundNext DEF ExistInv
<1>2. AllAddressed'
  BY AddressedNext DEF ExistInv, SoundInv
<1> DEFINE G(a) == cfxAddressDic'[a] \in Stored' /\ a # ZeroAccount
<1>3. ASSUME NEW a \in Listed' PROVE G(a)
  <2>1. ASSUME a \in Listed, cfxAddressDic'[a] = cfxAddressDic[a], Stored \subseteq Stored' PROVE G(a)
    BY <2>1 DEF ExistInv, ListedAccountsExist
  <2>2. ASSUME NEW w \in BOOLEAN, Construct(w) PROVE G(a)
    <3>1. PICK u \in Stored' : u = cfxAddressDic'[a] /\ getCfxUserAddress(m_keys'[u].addr) = a
      BY <2>2, ConstructedAccounts DEF ExistInv, SoundInv
    <3>2. KeysOwnAccount'
      BY <1>1, <1>2, KeyOwnAccountNext DEF SoundInv, AMTypeInv
    <3>. QED
      BY <3>1, <3>2 DEF KeysOwnAccount
  <2>3. CASE Enters
    <3> DEFINE b == getCfxUserAddress(m_keys[entering].addr)
    <3>1. /\ b \in Accounts /\ entering \in Stored
          /\ cfxAddressDic' = [cfxAddressDic EXCEPT ![b] = entering]
          /\ Listed' = Listed \cup {b} /\ m_keys' = m_keys
      BY <2>3, EnteredAccount DEF ExistInv, SoundInv
    <3>2. b # ZeroAccount
      BY <3>1, KeyOwnAccount DEF ExistInv, SoundInv, AMTypeInv, KeysOwnAccount
    <3> HIDE DEF b
    <3>3. Stored' = Stored
      BY <3>1 DEF Stored
    <3>4. CASE a = b
      BY <3>1, <3>2, <3>3, <3>4 DEF ExistInv, SoundInv, AMTypeInv, AMTypeOK
    <3>5. CASE a # b
      <4>1. a \in Listed /\ a \in Accounts
        BY <3>1, <3>5 DEF Listed
      <4>2. cfxAddressDic'[a] = cfxAddressDic[a]
        BY <3>1, <3>5, <4>1 DEF ExistInv, SoundInv, AMTypeInv, AMTypeOK
      <4>. QED
        BY <2>1, <3>3, <4>1, <4>2
    <3>. QED
      BY <3>4, <3>5
  <2>4. ASSUME NEW b \in Accounts, Removes(b) PROVE G(a)
    <3>1. a \in Listed /\ a # b /\ cfxAddressDic'[a] = cfxAddressDic[a]
      BY <2>4 DEF Removes, Listed, ExistInv, SoundInv, AMTypeInv, AMTypeOK
    <3>2. b \in Listed /\ kill(cfxAddressDic[b])
      BY <2>4 DEF Removes
    <3>3. cfxAddressDic[a] \in Stored /\ cfxAddressDic[a] # cfxAddressDic[b]
      BY <3>1, <3>2, ListedAccount
    <3>4. m_keys'[cfxAddressDic[a]] = m_keys[cfxAddressDic[a]]
      BY <3>2, <3>3 DEF kill, Stored, ExistInv, SoundInv, AMTypeInv, AMTypeOK, TypeOK
    <3>. QED
      BY <3>1, <3>3, <3>4 DEF Stored, ExistInv
  <2>5. ASSUME End PROVE FALSE
    BY <2>5 DEF End, NoAccounts, Listed
  <2>6. ASSUME cfxAddressDic' = cfxAddressDic PROVE a \in Listed /\ cfxAddressDic'[a] = cfxAddressDic[a]
    BY <2>6 DEF Listed
  <2> HIDE DEF G
  <2>. QED
    BY <2>1, <2>2, <2>3, <2>4, <2>5, <2>6, DicStep, StoredStays DEF ExistInv, SoundInv
<1>. QED
  BY <1>1, <1>2, <1>3 DEF ExistInv, ListedAccountsExist

LEMMA ExistInit == ASSUME Addressed, AMInit PROVE ExistInv
<1>1. SoundInv
  BY SoundInit
<1>2. Stored = {}
  BY DEF AMInit, Init, Stored, NoKeys
<1>3. Copies \subseteq KeyFiles
  BY <1>2 DEF Copies, AMInit, Init, Readable
<1>. QED
  BY <1>1, <1>3 DEF ExistInv, Addressed, AllAddressed, ListedAccountsExist, AMInit, NoAccounts, Listed

(* Every account that List() returns has its key in the store, with any    *)
(* fault and after any sequence of calls, provided that keystore files     *)
(* carry their address.                                                    *)
THEOREM AccountsExist == ASSUME Addressed PROVE AMSpec => []ListedAccountsExist
<1>1. ExistInv /\ [AMNext]_allVars => ExistInv'
  BY ExistNext
<1>2. ExistInv => ListedAccountsExist
  BY DEF ExistInv
<1>3. AMInit => ExistInv
  BY ExistInit
<1>. QED
  BY <1>1, <1>2, <1>3, PTL DEF AMSpec

-----------------------------------------------------------------------------
(* AccountsOnDisk, on a device that never drops a write silently. *)

DiskInv == ExistInv /\ FilesInv /\ AccountsOnDisk

LEMMA AMFilesNext ==
    ASSUME AMTypeInv, FilesInv, [AMNext]_allVars, "full" \notin Faults PROVE FilesInv'
<1>1. ASSUME NEW a \in Accounts, NEW p \in Passes, DeleteThrows(a, p) PROVE FilesInv'
  <2> DEFINE u == cfxAddressDic[a]
  <2>1. /\ u \in Stored /\ Stored' = Stored /\ Idle /\ Idle'
        /\ \A v \in Uuids : v # u => m_keys'[v] = m_keys[v]
        /\ m_keys'[u].sec = m_keys[u].sec /\ m_keys'[u].file = m_keys[u].file
        /\ disk' = disk
    BY <1>1, ThrowingDelete DEF AMTypeInv
  <2> HIDE DEF u
  <2>2. IdentityInv' /\ TypeInv'
    BY <1>1, ThrowingDeleteIdentity DEF AMTypeInv, IdentityInv
  <2>3. ASSUME NEW v \in Stored' PROVE m_keys'[v].file = None \/ Holds(m_keys[v].file, v)'
    <3>1. v \in Stored /\ m_keys'[v].file = m_keys[v].file /\ m_keys'[v].sec = m_keys[v].sec
      BY <2>1 DEF Stored
    <3>. QED
      BY <2>1, <3>1, HoldsKept
  <2>. QED
    BY <2>1, <2>2, <2>3, FilesQuiet DEF FilesInv, Idle
<1>. QED
  BY <1>1, StoreNext, FilesNext DEF AMTypeInv

(* The manager has no setPath. *)
LEMMA PathKept ==
    ASSUME [AMNext]_allVars
    PROVE  \/ up' = up /\ m_path' = m_path
           \/ \E w \in BOOLEAN : Construct(w)
           \/ End
<1>1. ASSUME BeginSave PROVE up' = up /\ m_path' = m_path
  BY <1>1 DEF BeginSave
<1>2. ASSUME \/ \E p \in Passes : Create(p)
             \/ \E s \in Importable, p \in Passes : ImportPrivateKey(s, p)
             \/ \E r \in RawFiles : ImportKeystore(r)
             \/ \E a \in Accounts, p, q \in Passes : UpdatePassphrase(a, p, q)
      PROVE  up' = up /\ m_path' = m_path
  BY <1>1, <1>2 DEF Create, ImportPrivateKey, ImportNew, importSecret, ImportKeystore, importKey,
                    UpdatePassphrase, recode, vars
<1>3. ASSUME \/ \E a \in Accounts, p \in Passes : GetSecret(a, p) \/ Delete(a, p) \/ DeleteThrows(a, p)
             \/ \E t \in Threads : GetDefaultTest(t) \/ GetDefaultList(t)
             \/ UNCHANGED allVars
      PROVE  up' = up /\ m_path' = m_path
  BY <1>3 DEF GetSecret, secret, Delete, kill, DeleteThrows, GetDefaultTest, GetDefaultList, allVars, vars
<1>4. ASSUME Saving \/ Finish \/ Throw PROVE up' = up /\ m_path' = m_path
  BY <1>4, SaveStepCases
     DEF Saving, Finish, Throw, SaveOpen, SaveWritten, SaveWriteShort, SwapFilename, SaveRemoveOld,
         SaveReturn, SaveThrows, SaveOpenFails, SaveRemoveFails
<1>. QED
  BY <1>2, <1>3, <1>4 DEF AMNext

(* While a file is being written no other operation has the mutex. *)
LEMMA WriteStep ==
    ASSUME TypeInv, [AMNext]_allVars, phase = "write"
    PROVE  SaveWritten \/ SaveWriteShort \/ End \/ UNCHANGED vars
<1>1. up
  BY DEF TypeInv, Shape
<1>2. ASSUME \/ \E p \in Passes : Create(p)
             \/ \E s \in Importable, p \in Passes : ImportPrivateKey(s, p)
             \/ \E r \in RawFiles : ImportKeystore(r)
             \/ \E a \in Accounts, p, q \in Passes : UpdatePassphrase(a, p, q)
             \/ \E a \in Accounts, p \in Passes : GetSecret(a, p) \/ Delete(a, p) \/ DeleteThrows(a, p)
             \/ \E t \in Threads : GetDefaultTest(t) \/ GetDefaultList(t)
      PROVE  FALSE
  BY <1>2 DEF Create, ImportPrivateKey, ImportNew, importSecret, ImportKeystore, UpdatePassphrase,
              GetSecret, Delete, DeleteThrows, GetDefaultTest, GetDefaultList, MutexFree, Idle
<1>3. ASSUME \/ \E w \in BOOLEAN : Construct(w)
             \/ Finish \/ Throw
      PROVE  FALSE
  BY <1>1, <1>3 DEF Construct, Start, Finish, SaveReturn, Throw, SaveThrows, SaveOpenFails, SaveRemoveFails
<1>4. ASSUME Saving PROVE SaveWritten \/ SaveWriteShort
  BY <1>4, SaveStepCases DEF Saving, SaveOpen, SaveRemoveOld
<1>5. ASSUME UNCHANGED allVars PROVE UNCHANGED vars
  BY <1>5 DEF allVars
<1>. QED
  BY <1>2, <1>3, <1>4, <1>5 DEF AMNext

(* The file that SaveWritten writes. *)
LEMMA WrittenFile ==
    ASSUME TypeInv, SaveWritten
    PROVE  /\ cur \in Stored /\ cur \in FileNames
           /\ disk'[cur] = FileOf(cur) /\ disk'[cur] \notin {None, Torn} /\ disk'[cur].id = cur
           /\ \A f \in FileNames : f # cur => disk'[f] = disk[f]
<1>1. cur \in Stored /\ cur \in Uuids /\ cur \in FileNames /\ m_keys[cur] \in EncryptedKey
  BY DEF SaveWritten, TypeInv, TypeOK, Shape, Stored, FileNames
<1>2. FileOf(cur) \in KeyFile /\ FileOf(cur).id = cur
  BY <1>1 DEF FileOf, KeyFile, EncryptedKey
<1>3. FileOf(cur) \notin {None, Torn}
  BY <1>2, SentinelAssumption
<1>. QED
  BY <1>1, <1>2, <1>3 DEF SaveWritten, TypeInv, TypeOK

(* A key that save() has written. *)
LEMMA WrittenCopy ==
    ASSUME TypeInv, NEW u \in Stored, Written(u)
    PROVE  u \in FileNames /\ Readable(u) /\ disk[u].id = u /\ disk[u].addr = m_keys[u].addr
<1>1. u \in FileNames /\ u \in Uuids /\ m_keys[u] \in EncryptedKey
  BY DEF TypeInv, TypeOK, Stored, FileNames
<1>2. FileOf(u) \in KeyFile /\ FileOf(u).id = u /\ FileOf(u).addr = m_keys[u].addr
  BY <1>1 DEF FileOf, KeyFile, EncryptedKey
<1>. QED
  BY <1>1, <1>2, SentinelAssumption DEF Written, Readable

(* What a constructor with a directory reads an entry from. *)
LEMMA ConstructedFrom ==
    ASSUME AMTypeInv, NEW w \in BOOLEAN, Construct(w), NEW u \in Stored'
    PROVE  w /\ \E f \in FileNames : Readable(f) /\ disk[f].id = u /\ m_keys'[u] = EntryOf(disk[f], f)
<1>1. u \in Uuids /\ m_keys'[u] # None
  BY DEF Stored
<1>2. NoKeys \in [Uuids -> EncryptedKey \cup {None}] /\ NoKeys[u] = None
  BY <1>1 DEF NoKeys
<1>3. w
  BY <1>1, <1>2 DEF Construct, Start
<1>4. m_keys' \in load(NoKeys)
  BY <1>3 DEF Construct, Start
<1>. QED
  BY <1>1, <1>2, <1>3, <1>4, LoadType DEF AMTypeInv, AMTypeOK

LEMMA DiskNext == ASSUME DiskInv, [AMNext]_allVars, "full" \notin Faults PROVE DiskInv'
<1>1. ExistInv'
  BY ExistNext DEF DiskInv
<1>2. FilesInv'
  BY AMFilesNext DEF DiskInv, ExistInv, SoundInv
<1>3. /\ AMTypeInv /\ AMTypeInv' /\ TypeInv /\ TypeInv' /\ EnteringStored
      /\ ListedAccountsExist /\ ListedAccountsExist' /\ FilesInv /\ AccountsOnDisk
  BY <1>1 DEF DiskInv, ExistInv, SoundInv, AMTypeInv, IdentityInv
<1>4. ASSUME m_path', NEW a \in Listed', NEW u \in Stored', u = cfxAddressDic'[a]
      PROVE  HasCopy(u)' \/ (phase' = "write" /\ cur' = u)
  <2>0. u \in Uuids
    BY DEF Stored
  <2>1. ASSUME a \in Listed, cfxAddressDic[a] = u, m_path
        PROVE  HasCopy(u)' \/ (phase' = "write" /\ cur' = u) \/ End
    <3>1. CASE phase = "write" /\ cur = u
      <4>1. ASSUME SaveWritten PROVE HasCopy(u)'
        BY <1>3, <3>1, <4>1, WrittenFile DEF HasCopy, Readable
      <4>2. ASSUME UNCHANGED vars PROVE phase' = "write" /\ cur' = u
        BY <3>1, <4>2 DEF vars
      <4>. QED
        BY <1>3, <3>1, <4>1, <4>2, WriteStep DEF SaveWriteShort
    <3>2. CASE HasCopy(u)
      <4>1. ASSUME NEW b \in Accounts, NEW p \in Passes, DeleteThrows(b, p) PROVE HasCopy(u)'
        <5>1. disk' = disk
          BY <4>1 DEF DeleteThrows
        <5>. QED
          BY <3>2, <5>1 DEF HasCopy, Readable
      <4>2. ASSUME [Next]_vars PROVE HasCopy(u)' \/ (phase' = "write" /\ cur' = u)
        BY <1>3, <2>0, <3>2, <4>2, CopiesStep
      <4>. QED
        BY <1>3, <4>1, <4>2, StoreNext DEF AMTypeInv
    <3>3. u \in Stored
      BY <1>3, <2>1 DEF ListedAccountsExist
    <3>. QED
      BY <1>3, <2>1, <3>1, <3>2, <3>3 DEF AccountsOnDisk
  <2>2. ASSUME NEW w \in BOOLEAN, Construct(w) PROVE HasCopy(u)'
    <3>1. disk' = disk
      BY <2>2 DEF Construct, Start
    <3>. QED
      BY <1>3, <2>2, <3>1, ConstructedFrom DEF HasCopy, Readable
  <2>3. ASSUME Enters PROVE HasCopy(u)'
    <3>1. disk' = disk /\ m_keys' = m_keys /\ m_path /\ phase = "loop" /\ todo = {}
      BY <1>4, <2>3 DEF Enters, Finish, SaveReturn
    <3>2. u \in Stored
      BY <3>1 DEF Stored
    <3>3. Written(u)
      BY <1>3, <3>1, <3>2 DEF FilesInv, SavePoint
    <3>. QED
      BY <1>3, <3>1, <3>2, <3>3, WrittenCopy DEF HasCopy, Readable
  <2>4. ASSUME NEW b \in Accounts, Removes(b) PROVE a \in Listed /\ cfxAddressDic[a] = u
    BY <1>3, <1>4, <2>4 DEF Removes, Listed, AMTypeInv, AMTypeOK
  <2>5. ASSUME End PROVE FALSE
    BY <2>5 DEF End, NoAccounts, Listed
  <2>6. ASSUME cfxAddressDic' = cfxAddressDic PROVE a \in Listed /\ cfxAddressDic[a] = u
    BY <1>4, <2>6 DEF Listed
  <2>7. m_path \/ (\E w \in BOOLEAN : Construct(w)) \/ End
    BY <1>4, PathKept
  <2>. QED
    BY <2>1, <2>2, <2>3, <2>4, <2>5, <2>6, <2>7, DicStep
<1>5. AccountsOnDisk'
  BY <1>4 DEF AccountsOnDisk
<1>. QED
  BY <1>1, <1>2, <1>5 DEF DiskInv

LEMMA DiskInit == ASSUME Addressed, AMInit PROVE DiskInv
<1>1. ExistInv /\ FilesInv
  BY ExistInit, FilesInit DEF AMInit
<1>. QED
  BY <1>1 DEF DiskInv, AccountsOnDisk, AMInit, Init

(* A listed account has a readable file for its key, except while that     *)
(* file is being rewritten, also after operations that threw: on a device  *)
(* that drops no write silently, with keystore files that carry their      *)
(* address.                                                                *)
THEOREM AccountsKept == ASSUME Addressed, "full" \notin Faults PROVE AMSpec => []AccountsOnDisk
<1>1. DiskInv /\ [AMNext]_allVars => DiskInv'
  BY DiskNext
<1>2. DiskInv => AccountsOnDisk
  BY DEF DiskInv
<1>3. AMInit => DiskInv
  BY DiskInit
<1>. QED
  BY <1>1, <1>2, <1>3, PTL DEF AMSpec

-----------------------------------------------------------------------------
(* The manager implements AccountBook, under the same two hypotheses.      *)

(* An operation that saves and enters nothing changes the passphrase of a  *)
(* listed account.                                                         *)
RecodeListed == phase # "idle" /\ entering = None => Listed # {}

BookInv == DiskInv /\ RecodeListed

LEMMA RecodeListedNext ==
    ASSUME AMTypeInv, RecodeListed, [AMNext]_allVars PROVE RecodeListed'
<1> USE DEF AMTypeInv, IdentityInv, RecodeListed
<1>1. ASSUME phase' = "idle" PROVE RecodeListed'
  BY <1>1
<1>2. ASSUME NEW u \in Uuids, Begins(u) PROVE RecodeListed'
  BY <1>2, SentinelAssumption DEF Begins, FileNames
<1>3. ASSUME NEW s \in Secrets, NEW p \in Passes, ImportNew(s, p) PROVE RecodeListed'
  BY <1>2, <1>3 DEF ImportNew
<1>4. ASSUME NEW p \in Passes, Create(p) PROVE RecodeListed'
  BY <1>3, <1>4 DEF Create
<1>5. ASSUME Idle, UNCHANGED vars PROVE RecodeListed'
  BY <1>5 DEF Idle, vars
<1>6. ASSUME NEW s \in Importable, NEW p \in Passes, ImportPrivateKey(s, p) PROVE RecodeListed'
  BY <1>3, <1>5, <1>6, ImportableAssumption DEF ImportPrivateKey, MutexFree
<1>7. ASSUME NEW r \in RawFiles, ImportKeystore(r) PROVE RecodeListed'
  <2>1. r.id \in Uuids
    BY ConstantsAssumption DEF RawFile
  <2>. QED
    BY <1>2, <1>5, <1>7, <2>1 DEF ImportKeystore, MutexFree
<1>8. ASSUME NEW a \in Accounts, NEW p \in Passes, NEW q \in Passes, UpdatePassphrase(a, p, q) PROVE RecodeListed'
  <2>1. ASSUME a \in Listed, cfxAddressDic' = cfxAddressDic PROVE RecodeListed'
    BY <2>1 DEF Listed
  <2>. QED
    BY <1>5, <1>8, <2>1 DEF UpdatePassphrase, MutexFree
<1>9. ASSUME NEW a \in Accounts, NEW p \in Passes, GetSecret(a, p) \/ Delete(a, p) \/ DeleteThrows(a, p)
      PROVE RecodeListed'
  BY <1>1, <1>9 DEF GetSecret, secret, Delete, kill, DeleteThrows, MutexFree, Idle, saveVars, vars
<1>10. ASSUME NEW t \in Threads, GetDefaultTest(t) \/ GetDefaultList(t) PROVE RecodeListed'
  BY <1>5, <1>10 DEF GetDefaultTest, GetDefaultList, MutexFree
<1>11. ASSUME NEW w \in BOOLEAN, Construct(w) PROVE RecodeListed'
  BY <1>1, <1>11 DEF Construct, Start, saveVars, TypeInv, Shape
<1>12. ASSUME End \/ Finish \/ Throw PROVE RecodeListed'
  BY <1>1, <1>12 DEF End, Stop, Finish, SaveReturn, Throw, SaveThrows, SaveOpenFails, SaveRemoveFails, EndSave
<1>13. ASSUME Saving PROVE RecodeListed'
  <2>1. phase # "idle" /\ entering' = entering /\ Listed' = Listed
    BY <1>13, SaveStepCases DEF Saving, amVars, Listed, SaveOpen, SaveWritten, SaveWriteShort, SaveRemoveOld
  <2>. QED
    BY <2>1
<1>14. ASSUME UNCHANGED allVars PROVE RecodeListed'
  BY <1>14 DEF allVars, amVars, vars, Listed
<1>. QED
  BY <1>4, <1>6, <1>7, <1>8, <1>9, <1>10, <1>11, <1>12, <1>13, <1>14 DEF AMNext

LEMMA BookNext == ASSUME BookInv, [AMNext]_allVars, "full" \notin Faults PROVE BookInv'
BY DiskNext, RecodeListedNext DEF BookInv, DiskInv, ExistInv, SoundInv

LEMMA BookInvInit == ASSUME Addressed, AMInit PROVE BookInv
<1>1. DiskInv
  BY DiskInit
<1>. QED
  BY <1>1 DEF BookInv, RecodeListed, AMInit, Init

(* The account of a file is that of the key it holds. *)
LEMMA FileAccount ==
    ASSUME ExistInv, NEW f \in FileNames, Readable(f)
    PROVE  /\ disk[f].id \in Uuids
           /\ getCfxUserAddress(disk[f].addr) \in Accounts
           /\ getCfxUserAddress(disk[f].addr) \in SafeAccounts
           /\ \A g \in FileNames : Readable(g) /\ disk[g].id = disk[f].id =>
                 getCfxUserAddress(disk[g].addr) = getCfxUserAddress(disk[f].addr)
           /\ \A u \in Stored : disk[f].id = u =>
                 getCfxUserAddress(m_keys[u].addr) = getCfxUserAddress(disk[f].addr)
<1> DEFINE account(c) == getCfxUserAddress(c.addr)
<1>1. IdentityInv /\ AllAddressed
  BY DEF ExistInv, SoundInv, AMTypeInv
<1>2. disk[f] \in Copies /\ disk[f] \in KeyFile
  BY <1>1, DiskCopy DEF Readable, IdentityInv, TypeInv, TypeOK
<1>3. disk[f].id \in Uuids
  BY <1>2 DEF KeyFile
<1>4. account(disk[f]) \in Accounts /\ account(disk[f]) = Secret2CfxAddr(disk[f].sec)
  BY <1>1, <1>2, CopyOwnAccount
<1>5. account(disk[f]) \in SafeAccounts
  BY DEF SafeAccounts
<1>6. ASSUME NEW g \in FileNames, Readable(g), disk[g].id = disk[f].id PROVE account(disk[g]) = account(disk[f])
  <2>1. disk[g] \in Copies
    BY <1>6, DiskCopy
  <2>2. disk[g].sec = disk[f].sec
    BY <1>1, <1>2, <1>6, <2>1 DEF IdentityInv, KeyIdentity, OneSecretPerUuid
  <2>. QED
    BY <1>1, <1>4, <2>1, <2>2, CopyOwnAccount
<1>7. ASSUME NEW u \in Stored, disk[f].id = u PROVE getCfxUserAddress(m_keys[u].addr) = account(disk[f])
  <2>1. FileOf(u) \in Copies /\ FileOf(u).id = u /\ FileOf(u).sec = m_keys[u].sec /\ FileOf(u).addr = m_keys[u].addr
    BY MemoryCopy
  <2>2. m_keys[u].sec = disk[f].sec
    BY <1>1, <1>2, <1>7, <2>1 DEF IdentityInv, KeyIdentity, OneSecretPerUuid
  <2>. QED
    BY <1>1, <1>4, <2>1, <2>2, CopyOwnAccount
<1>. QED
  BY <1>3, <1>4, <1>5, <1>6, <1>7

(* A file other than those that change is as safe after the step. *)
LEMMA SafeKept ==
    ASSUME NEW f \in FileNames, Readable(f), disk'[f] = disk[f]
    PROVE  getCfxUserAddress(disk[f].addr) \in SafeAccounts'
BY DEF SafeAccounts, Readable

LEMMA SafeOnly ==
    ASSUME NEW S, \A f \in FileNames : Readable(f)' => getCfxUserAddress(disk'[f].addr) \in S
    PROVE  SafeAccounts' \subseteq S
BY DEF SafeAccounts

LEMMA BookInit == ASSUME BookInv, AMInit PROVE Book!Init
<1>1. SafeAccounts \subseteq Accounts
  BY FileAccount DEF SafeAccounts, BookInv, DiskInv
<1>2. Listed = {}
  BY DEF AMInit, NoAccounts, Listed
<1>. QED
  BY <1>1, <1>2 DEF AMInit, Init, Book!Init

(* A constructor lists what the directory holds. *)
LEMMA BookOpen ==
    ASSUME BookInv, BookInv', NEW w \in BOOLEAN, Construct(w) PROVE Book!Open
<1>1. ExistInv /\ AMTypeInv /\ TypeInv
  BY DEF BookInv, DiskInv, ExistInv, SoundInv, AMTypeInv, IdentityInv
<1>2. ~up /\ up' /\ m_path' = w /\ phase = "idle" /\ phase' = "idle" /\ disk' = disk
  BY <1>1 DEF Construct, Start, saveVars, TypeInv, TypeOK, Shape
<1>3. SafeAccounts' = SafeAccounts
  BY <1>2 DEF SafeAccounts, Readable
<1>4. ASSUME NEW a \in Listed' PROVE w /\ a \in SafeAccounts
  <2>1. PICK u \in Stored' : u = cfxAddressDic'[a] /\ getCfxUserAddress(m_keys'[u].addr) = a
    BY <1>1, ConstructedAccounts
  <2>2. PICK f \in FileNames : w /\ Readable(f) /\ disk[f].id = u /\ m_keys'[u] = EntryOf(disk[f], f)
    BY <1>1, ConstructedFrom
  <2>3. m_keys'[u].addr = disk[f].addr
    BY <2>2 DEF EntryOf
  <2>. QED
    BY <1>1, <2>1, <2>2, <2>3, FileAccount
<1>5. ASSUME w, NEW f \in FileNames, Readable(f) PROVE getCfxUserAddress(disk[f].addr) \in Listed'
  <2> DEFINE a == getCfxUserAddress(disk[f].addr)
             u == disk[f].id
  <2>1. u \in Uuids /\ a \in Accounts
    BY <1>1, <1>5, FileAccount
  <2>2. m_keys'[u] \in LoadChoices(NoKeys, u)
    BY <1>5, <2>1 DEF Construct, Start, load
  <2>3. PICK g \in FileNames : Readable(g) /\ disk[g].id = u /\ m_keys'[u] = EntryOf(disk[g], g)
    BY <1>5, <2>2 DEF LoadChoices
  <2>4. m_keys'[u].addr = disk[g].addr
    BY <2>3 DEF EntryOf
  <2>5. getCfxUserAddress(m_keys'[u].addr) = a
    BY <1>1, <1>5, <2>3, <2>4, FileAccount
  <2>6. disk[g] \in KeyFile
    BY <1>1, <2>3 DEF Readable, TypeInv, TypeOK
  <2>7. m_keys'[u] # None
    <3>1. EntryOf(disk[g], g) \in EncryptedKey
      BY <2>6 DEF EntryOf, KeyFile, EncryptedKey
    <3>. QED
      BY <2>3, <3>1, SentinelAssumption
  <2> HIDE DEF a, u
  <2>8. cfxAddressDic'[a] \in {v \in Uuids : m_keys'[v] # None /\ getCfxUserAddress(m_keys'[v].addr) = a}
    BY <2>1, <2>5, <2>7 DEF Construct, initialize
  <2>9. cfxAddressDic'[a] # None
    BY <2>8, SentinelAssumption DEF FileNames
  <2>. QED
    BY <2>1, <2>9 DEF Listed, a
<1>6. Listed' = IF w THEN SafeAccounts ELSE {}
  <2>1. ASSUME w PROVE SafeAccounts \subseteq Listed'
    BY <1>5, <2>1 DEF SafeAccounts
  <2>. QED
    BY <1>4, <2>1
<1>. QED
  BY <1>2, <1>3, <1>6 DEF Book!Open

(* Operations that begin to save, and those that change nothing of the     *)
(* list and of the directory.                                              *)
LEMMA BookBegin ==
    ASSUME Idle, phase' = "loop", UNCHANGED <<up, m_path, disk, cfxAddressDic>> PROVE Book!Begin
<1>1. SafeAccounts' = SafeAccounts /\ Listed' = Listed
  BY DEF SafeAccounts, Readable, Listed
<1>. QED
  BY <1>1 DEF Idle, Book!Begin

LEMMA BookStutter ==
    ASSUME phase # "write", phase' # "write", phase' = "idle" <=> phase = "idle",
           UNCHANGED <<up, m_path, cfxAddressDic>>, SafeAccounts' = SafeAccounts
    PROVE  UNCHANGED Book!bookVars
<1>1. Listed' = Listed
  BY DEF Listed
<1>. QED
  BY <1>1 DEF Book!bookVars

(* Truncating the file of a key. *)
LEMMA BookErase ==
    ASSUME BookInv, NEW u \in Uuids, SaveOpen(u), UNCHANGED cfxAddressDic
    PROVE  \E a \in Accounts : Book!Erase(a)
<1> DEFINE a == getCfxUserAddress(m_keys[u].addr)
<1>1. ExistInv /\ TypeInv /\ IdentityInv /\ AllAddressed /\ CanonicalOwn
  BY DEF BookInv, DiskInv, ExistInv, SoundInv, AMTypeInv, IdentityInv, FilesInv
<1>2. /\ up /\ up' /\ phase = "loop" /\ phase' = "write" /\ cur' = u /\ m_keys' = m_keys /\ m_path' = m_path
      /\ u \in FileNames /\ \A f \in FileNames : f # u => disk'[f] = disk[f]
      /\ disk'[u] = Torn
  BY <1>1 DEF SaveOpen, TypeInv, TypeOK, FileNames
<1>3. u \in Stored /\ m_path
  BY <1>1 DEF SaveOpen, TypeInv, TypeOK, Shape
<1>4. a \in Accounts
  BY <1>1, <1>3, KeyOwnAccount DEF KeysOwnAccount
<1>5. Listed' = Listed
  BY DEF Listed
<1>6. ASSUME NEW f \in FileNames, Readable(f) PROVE getCfxUserAddress(disk[f].addr) \in SafeAccounts' \cup {a}
  <2>1. CASE f = u
    BY <1>1, <1>3, <1>6, <2>1, FileAccount DEF CanonicalOwn
  <2>2. CASE f # u
    BY <1>2, <1>6, <2>2, SafeKept
  <2>. QED
    BY <2>1, <2>2
<1>7. ASSUME NEW f \in FileNames, Readable(f)' PROVE getCfxUserAddress(disk'[f].addr) \in SafeAccounts
  BY <1>1, <1>2, <1>7, FileAccount DEF Readable
<1>8. SafeAccounts' \subseteq SafeAccounts
  BY <1>7, SafeOnly
<1> HIDE DEF a
<1>9. SafeAccounts \subseteq SafeAccounts' \cup {a}
  BY <1>6 DEF SafeAccounts
<1>10. SafeAccounts' \in {SafeAccounts, SafeAccounts \ {a}}
  BY <1>8, <1>9
<1>11. Book!Erase(a)
  BY <1>2, <1>3, <1>5, <1>10 DEF Book!Erase, a
<1>. QED
  BY <1>4, <1>11

(* Writing it. *)
LEMMA BookRewrite ==
    ASSUME BookInv, SaveWritten, UNCHANGED cfxAddressDic PROVE Book!Rewrite
<1> DEFINE a == getCfxUserAddress(m_keys[cur].addr)
<1>1. ExistInv /\ TypeInv /\ IdentityInv /\ AllAddressed /\ SavePoint
  BY DEF BookInv, DiskInv, ExistInv, SoundInv, AMTypeInv, IdentityInv, FilesInv
<1>2. /\ up /\ up' /\ phase = "write" /\ phase' = "remove" /\ m_path' = m_path
  BY DEF SaveWritten, SwapFilename
<1>3. /\ cur \in Stored /\ cur \in FileNames
      /\ disk'[cur] = FileOf(cur) /\ disk'[cur] \notin {None, Torn}
      /\ \A f \in FileNames : f # cur => disk'[f] = disk[f]
  BY <1>1, WrittenFile
<1>4. disk[cur] = Torn /\ disk'[cur].addr = m_keys[cur].addr
  BY <1>1, <1>2, <1>3 DEF SavePoint, FileOf
<1>5. a \in Accounts /\ a # None
  BY <1>1, <1>3, KeyOwnAccount, AccountsAssumption DEF KeysOwnAccount
<1>6. Listed' = Listed
  BY DEF Listed
<1>7. a \in SafeAccounts'
  BY <1>3, <1>4 DEF SafeAccounts, Readable
<1>8. ASSUME NEW f \in FileNames, Readable(f) PROVE getCfxUserAddress(disk[f].addr) \in SafeAccounts'
  BY <1>3, <1>4, <1>8, SafeKept DEF Readable
<1>9. ASSUME NEW f \in FileNames, Readable(f)' PROVE getCfxUserAddress(disk'[f].addr) \in SafeAccounts \cup {a}
  <2>1. CASE f = cur
    BY <1>4, <2>1
  <2>2. CASE f # cur
    BY <1>1, <1>3, <1>9, <2>2, FileAccount DEF Readable
  <2>. QED
    BY <2>1, <2>2
<1> HIDE DEF a
<1>10. SafeAccounts' \subseteq SafeAccounts \cup {a}
  BY <1>9, SafeOnly
<1>11. SafeAccounts \subseteq SafeAccounts'
  BY <1>8 DEF SafeAccounts
<1>12. SafeAccounts' = SafeAccounts \cup {a}
  BY <1>7, <1>10, <1>11
<1>. QED
  BY <1>2, <1>5, <1>6, <1>12 DEF Book!Rewrite, a

(* Removing the file whose key has moved is not seen. *)
LEMMA BookMoved ==
    ASSUME BookInv, SaveRemoveOld, UNCHANGED cfxAddressDic PROVE UNCHANGED Book!bookVars
<1>1. ExistInv /\ TypeInv /\ IdentityInv /\ SavePoint
  BY DEF BookInv, DiskInv, ExistInv, SoundInv, AMTypeInv, IdentityInv, FilesInv
<1>2. /\ up /\ up' /\ phase = "remove" /\ phase' = "loop" /\ m_path' = m_path
      /\ disk' = IF OldIsOther THEN [disk EXCEPT ![old] = None] ELSE disk
  BY DEF SaveRemoveOld
<1>3. cur \in Stored /\ cur \in FileNames /\ old \in FileNames \cup {None}
  BY <1>1, <1>2 DEF TypeInv, TypeOK, Shape, Stored, FileNames
<1>4. Readable(cur) /\ disk[cur].id = cur
  BY <1>1, <1>2, <1>3, WrittenCopy DEF SavePoint, Written, TypeInv, Shape
<1>5. OldIsOther => old \in FileNames /\ old # cur /\ Readable(old) /\ disk[old].id = cur
  BY <1>1, <1>2, <1>3 DEF SavePoint, OldIsOther
<1>6. \A f \in FileNames : disk'[f] = disk[f] \/ (OldIsOther /\ f = old /\ disk'[f] = None)
  BY <1>1, <1>2 DEF TypeInv, TypeOK
<1>7. ASSUME NEW f \in FileNames, Readable(f) PROVE getCfxUserAddress(disk[f].addr) \in SafeAccounts'
  <2>1. CASE disk'[f] = disk[f]
    BY <1>7, <2>1, SafeKept
  <2>2. CASE OldIsOther /\ f = old
    <3>1. disk'[cur] = disk[cur]
      BY <1>3, <1>5, <1>6, <2>2
    <3>2. getCfxUserAddress(disk[cur].addr) = getCfxUserAddress(disk[f].addr)
      BY <1>1, <1>3, <1>4, <1>5, <2>2, FileAccount
    <3>. QED
      BY <1>3, <1>4, <3>1, <3>2, SafeKept
  <2>. QED
    BY <1>6, <2>1, <2>2
<1>8. ASSUME NEW f \in FileNames, Readable(f)' PROVE getCfxUserAddress(disk'[f].addr) \in SafeAccounts
  BY <1>1, <1>6, <1>8, FileAccount DEF Readable
<1>9. SafeAccounts' = SafeAccounts
  <2>1. SafeAccounts' \subseteq SafeAccounts
    BY <1>8, SafeOnly
  <2>2. SafeAccounts \subseteq SafeAccounts'
    BY <1>7 DEF SafeAccounts
  <2>. QED
    BY <2>1, <2>2
<1>. QED
  BY <1>2, <1>9, BookStutter

(* The operation that was saving returns. *)
LEMMA BookCommit ==
    ASSUME BookInv, BookInv', Finish PROVE \E a \in Accounts : Book!Commit(a)
<1>1. ExistInv /\ ExistInv' /\ TypeInv /\ AMTypeInv /\ EnteringStored /\ SavePoint /\ RecodeListed
  BY DEF BookInv, DiskInv, ExistInv, SoundInv, AMTypeInv, IdentityInv, FilesInv
<1>2. /\ up /\ up' = up /\ m_path' = m_path /\ phase = "loop" /\ todo = {} /\ phase' = "idle"
      /\ disk' = disk /\ m_keys' = m_keys
  BY DEF Finish, SaveReturn, EndSave
<1>3. SafeAccounts' = SafeAccounts /\ Stored' = Stored
  BY <1>2 DEF SafeAccounts, Readable, Stored
<1>4. \E a \in Accounts : Listed' = Listed \cup {a}
  <2>1. CASE entering = None
    <3>1. Listed # {} /\ Listed \subseteq Accounts
      BY <1>1, <1>2, <2>1 DEF RecodeListed, Listed
    <3>2. Listed' = Listed
      BY <2>1 DEF Finish, Listed
    <3>. QED
      BY <3>1, <3>2
  <2>2. CASE entering # None
    BY <1>1, <2>2, EnteredAccount DEF Enters
  <2>. QED
    BY <2>1, <2>2
<1>5. ASSUME m_path, NEW a \in Listed' PROVE a \in SafeAccounts
  <2>0. ListedOwnAccount'
    BY <1>1, ListedAccountNext
  <2>1. PICK u \in Stored : a = getCfxUserAddress(m_keys[u].addr)
    BY <1>2, <1>3, <2>0 DEF ListedOwnAccount
  <2>2. Written(u)
    BY <1>1, <1>2, <1>5 DEF SavePoint
  <2>. QED
    BY <1>1, <2>1, <2>2, WrittenCopy, FileAccount
<1>6. PICK a \in Accounts : Listed' = Listed \cup {a}
  BY <1>4
<1>7. m_path => Listed' \subseteq SafeAccounts
  BY <1>5
<1>8. Book!Commit(a)
  BY <1>2, <1>3, <1>6, <1>7 DEF Book!Commit
<1>. QED
  BY <1>8

(* It throws. *)
LEMMA BookFail == ASSUME BookInv, Throw PROVE Book!Fail
<1>1. /\ up /\ up' = up /\ m_path' = m_path /\ phase \in {"loop", "remove"} /\ phase' = "idle"
      /\ disk' = disk
  BY DEF Throw, SaveThrows, SaveOpenFails, SaveRemoveFails, EndSave
<1>2. SafeAccounts' = SafeAccounts /\ Listed' = Listed
  BY <1>1 DEF Throw, SafeAccounts, Readable, Listed
<1>. QED
  BY <1>1, <1>2 DEF Book!Fail

(* The file that Delete removes is one of the account it deletes. *)
LEMMA BookDelete ==
    ASSUME BookInv, NEW a \in Accounts, Removes(a) PROVE Book!Delete(a)
<1> DEFINE u == cfxAddressDic[a]
<1>1. ExistInv /\ TypeInv /\ AMTypeInv /\ KeyHasGoodFile
  BY DEF BookInv, DiskInv, ExistInv, SoundInv, AMTypeInv, IdentityInv, FilesInv
<1>2. u \in Stored /\ a = getCfxUserAddress(m_keys[u].addr)
  BY <1>1, ListedAccount DEF Removes
<1>3. /\ up /\ up' = up /\ m_path' = m_path /\ phase = "idle" /\ phase' = "idle"
      /\ disk' = IF m_keys[u].file # None THEN [disk EXCEPT ![m_keys[u].file] = None] ELSE disk
  BY <1>2 DEF Removes, kill, Idle, saveVars
<1>4. a \in Listed /\ Listed' = Listed \ {a}
  BY <1>1 DEF Removes, Listed, AMTypeInv, AMTypeOK
<1> HIDE DEF u
<1>5. \A f \in FileNames : disk'[f] = disk[f] \/ (m_keys[u].file = f /\ f # None /\ disk'[f] = None)
  BY <1>1, <1>3, SentinelAssumption DEF TypeInv, TypeOK
<1>6. ASSUME NEW f \in FileNames, Readable(f) PROVE getCfxUserAddress(disk[f].addr) \in SafeAccounts' \cup {a}
  <2>1. CASE disk'[f] = disk[f]
    BY <1>6, <2>1, SafeKept
  <2>2. CASE m_keys[u].file = f /\ f # None
    <3>1. Holds(f, u)
      BY <1>1, <1>2, <1>3, <2>2 DEF KeyHasGoodFile
    <3>. QED
      BY <1>1, <1>2, <1>6, <3>1, FileAccount DEF Holds
  <2>. QED
    BY <1>5, <2>1, <2>2
<1>7. ASSUME NEW f \in FileNames, Readable(f)' PROVE getCfxUserAddress(disk'[f].addr) \in SafeAccounts
  BY <1>1, <1>5, <1>7, FileAccount DEF Readable
<1>8. SafeAccounts' \subseteq SafeAccounts
  BY <1>7, SafeOnly
<1>9. SafeAccounts \subseteq SafeAccounts' \cup {a}
  BY <1>6 DEF SafeAccounts
<1>10. SafeAccounts' \in {SafeAccounts, SafeAccounts \ {a}}
  BY <1>8, <1>9
<1>. QED
  BY <1>3, <1>4, <1>10 DEF Book!Delete

LEMMA BookClose == ASSUME End PROVE Book!Close
<1>1. up /\ ~up' /\ ~m_path' /\ phase' = "idle" /\ disk' = disk /\ up' \in BOOLEAN /\ m_path' \in BOOLEAN
  BY DEF End, Stop, EndSave
<1>2. SafeAccounts' = SafeAccounts /\ Listed' = {}
  BY <1>1 DEF End, SafeAccounts, Readable, Listed, NoAccounts
<1>. QED
  BY <1>1, <1>2 DEF Book!Close

LEMMA BookStep ==
    ASSUME BookInv, BookInv', [AMNext]_allVars, "full" \notin Faults
    PROVE  [Book!Next]_(Book!bookVars)
<1> DEFINE G == [Book!Next]_(Book!bookVars)
<1>0. TypeInv /\ AMTypeInv
  BY DEF BookInv, DiskInv, ExistInv, SoundInv, AMTypeInv, IdentityInv
<1>1. ASSUME Book!Begin PROVE G
  BY <1>1 DEF Book!Next
<1>2. ASSUME Idle, phase' = phase, UNCHANGED <<up, m_path, disk, cfxAddressDic>> PROVE G
  <2>1. SafeAccounts' = SafeAccounts
    BY <1>2 DEF SafeAccounts, Readable
  <2>. QED
    BY <1>2, <2>1, BookStutter DEF Idle
<1>3. ASSUME Idle, UNCHANGED vars, UNCHANGED cfxAddressDic PROVE G
  BY <1>2, <1>3 DEF vars
<1>4. ASSUME Idle, BeginSave, UNCHANGED cfxAddressDic PROVE G
  BY <1>1, <1>4, BookBegin DEF BeginSave
<1>5. ASSUME NEW s \in Secrets, NEW p \in Passes, ImportNew(s, p) PROVE G
  BY <1>4, <1>5 DEF ImportNew, importSecret, Begins
<1>6. ASSUME NEW p \in Passes, Create(p) PROVE G
  BY <1>5, <1>6 DEF Create
<1>7. ASSUME NEW s \in Importable, NEW p \in Passes, ImportPrivateKey(s, p) PROVE G
  BY <1>3, <1>5, <1>7, ImportableAssumption DEF ImportPrivateKey, Returns, MutexFree
<1>8. ASSUME NEW r \in RawFiles, ImportKeystore(r) PROVE G
  BY <1>3, <1>4, <1>8 DEF ImportKeystore, importKey, Begins, Returns, MutexFree
<1>9. ASSUME NEW a \in Accounts, NEW p \in Passes, NEW q \in Passes, UpdatePassphrase(a, p, q) PROVE G
  BY <1>3, <1>4, <1>9 DEF UpdatePassphrase, recode, Returns, MutexFree
<1>10. ASSUME NEW a \in Accounts, NEW p \in Passes, GetSecret(a, p) \/ DeleteThrows(a, p) PROVE G
  BY <1>2, <1>3, <1>10 DEF GetSecret, secret, DeleteThrows, Returns, MutexFree, saveVars
<1>11. ASSUME NEW a \in Accounts, NEW p \in Passes, Delete(a, p) PROVE G
  <2>1. ASSUME Removes(a) PROVE Book!Next
    BY <2>1, BookDelete DEF Book!Next
  <2>. QED
    BY <1>3, <1>11, <2>1 DEF Delete, Removes, Returns, MutexFree, Secret, CacheHit
<1>12. ASSUME NEW t \in Threads, GetDefaultTest(t) \/ GetDefaultList(t) PROVE G
  BY <1>3, <1>12 DEF GetDefaultTest, GetDefaultList, Returns, MutexFree
<1>13. ASSUME NEW w \in BOOLEAN, Construct(w) PROVE G
  BY <1>13, BookOpen DEF Book!Next
<1>14. ASSUME End PROVE G
  BY <1>14, BookClose DEF Book!Next
<1>15. ASSUME Finish PROVE G
  BY <1>15, BookCommit DEF Book!Next
<1>16. ASSUME Throw PROVE G
  BY <1>16, BookFail DEF Book!Next
<1>17. ASSUME Saving PROVE G
  <2>1. UNCHANGED cfxAddressDic
    BY <1>17 DEF Saving, amVars
  <2>2. ASSUME NEW u \in Uuids, SaveOpen(u) PROVE Book!Next
    BY <2>1, <2>2, BookErase DEF Book!Next
  <2>3. ASSUME SaveWritten PROVE Book!Next
    BY <2>1, <2>3, BookRewrite DEF Book!Next
  <2>4. ASSUME SaveRemoveOld PROVE UNCHANGED Book!bookVars
    BY <2>1, <2>4, BookMoved
  <2>. QED
    BY <1>17, <2>2, <2>3, <2>4, SaveStepCases DEF Saving, SaveWriteShort
<1>18. ASSUME UNCHANGED allVars PROVE UNCHANGED Book!bookVars
  BY <1>18 DEF allVars, vars, amVars, Book!bookVars, SafeAccounts, Readable, Listed
<1> HIDE DEF G
<1>19. ASSUME AMNext PROVE G
  BY <1>6, <1>7, <1>8, <1>9, <1>10, <1>11, <1>12, <1>13, <1>14, <1>15, <1>16, <1>17, <1>19 DEF AMNext
<1>. QED
  BY <1>18, <1>19 DEF G

(* The manager implements AccountBook, whatever is called, fails (with a   *)
(* report) or is interrupted: accounts enter the list one at a time and    *)
(* only when the whole list is on disk, a throw leaves the list as it was, *)
(* a restart lists exactly what is on disk, and an account leaves the disk *)
(* only by its own Delete or while its own file is rewritten.              *)
THEOREM BookImplemented == ASSUME Addressed, "full" \notin Faults PROVE AMSpec => ImplementsBook
<1>1. AMInit => BookInv /\ Book!Init
  BY BookInvInit, BookInit
<1>2. BookInv /\ [AMNext]_allVars => BookInv'
  BY BookNext
<1>3. BookInv /\ BookInv' /\ [AMNext]_allVars => [Book!Next]_(Book!bookVars)
  BY BookStep
<1>. QED
  BY <1>1, <1>2, <1>3, PTL DEF AMSpec, ImplementsBook, Book!Spec

-----------------------------------------------------------------------------
(* DeletedKeyGone.  kill() removes the file that the entry names and no    *)
(* other, so the entry has to name the only file of the key.  It does when *)
(* the directory has nothing but <uuid>.json files and every save ran to   *)
(* its end; a full device does not matter.                                 *)

(* An entry names its canonical file or none. *)
OwnFile == \A u \in Stored : m_keys[u].file \in {None, u}

(* It names it once save() has visited it. *)
VisitedNamed == m_path => \A u \in Stored \ todo : m_keys[u].file = u

OldOwn == phase = "remove" => ~OldIsOther

NamesInv == CanonicalOwn /\ OwnFile /\ VisitedNamed /\ OldOwn

(* Deleted keys are gone from the directory whether or not the manager     *)
(* that runs has one.                                                      *)
GoneFromDisk == \A u \in deleted : ~HasCopy(u)

GoneInv == AMTypeInv /\ NamesInv /\ GoneFromDisk /\ DeletedKeyGone

(* Who writes to the directory. *)
LEMMA DiskStep ==
    ASSUME TypeInv, [Next]_vars, NEW f \in FileNames
    PROVE  disk'[f] \in {disk[f], Torn, None} \/ (SaveWritten /\ f = cur)
<1>1. ASSUME disk' = disk PROVE disk'[f] = disk[f]
  BY <1>1
<1>2. ASSUME SaveStep PROVE disk'[f] \in {disk[f], Torn, None} \/ (SaveWritten /\ f = cur)
  BY <1>2, SaveStepCases DEF SaveOpen, SaveWritten, SaveWriteShort, SaveRemoveOld, TypeInv, TypeOK
<1>3. ASSUME NEW u \in Uuids, kill(u) PROVE disk'[f] \in {disk[f], None}
  BY <1>3 DEF kill, TypeInv, TypeOK
<1>. QED
  BY <1>1, <1>2, <1>3
     DEF Next, vars, SaveReturn, SaveThrows, SaveOpenFails, SaveRemoveFails,
         importSecret, importKey, BeginSave, secret, recode, recodeAddress, killThrows, clearCache, setPath,
         Start, Stop

(* How an entry comes by the name of its file. *)
LEMMA FileNameStep ==
    ASSUME IdentityInv, [Next]_vars, NEW u \in Stored'
    PROVE  \/ u \in Stored /\ m_keys'[u].file = m_keys[u].file
           \/ m_keys'[u].file = u
           \/ m_keys'[u].file = None /\ BeginSave
           \/ \E f \in FileNames : Readable(f) /\ disk[f].id = u /\ m_keys'[u].file = f
<1> DEFINE Kept == u \in Stored /\ m_keys'[u].file = m_keys[u].file
           New == m_keys'[u].file = None /\ BeginSave
           Read == \E f \in FileNames : Readable(f) /\ disk[f].id = u /\ m_keys'[u].file = f
<1>0. u \in Uuids /\ m_keys'[u] # None /\ TypeInv /\ TypeOK
  BY DEF Stored, IdentityInv, TypeInv
<1>1. ASSUME m_keys' = m_keys PROVE Kept
  BY <1>0, <1>1 DEF Stored
<1>2. ASSUME SaveStep PROVE Kept \/ m_keys'[u].file = u
  <2>1. ASSUME SwapFilename, phase = "write" PROVE Kept \/ m_keys'[u].file = u
    <3>1. m_keys' = [m_keys EXCEPT ![cur] = EntryOf(m_keys[cur], cur)]
      BY <2>1 DEF SwapFilename
    <3>2. CASE u = cur
      BY <1>0, <3>1, <3>2 DEF EntryOf, TypeOK
    <3>3. CASE u # cur
      BY <1>0, <3>1, <3>3 DEF TypeOK, Stored
    <3>. QED
      BY <3>2, <3>3
  <2>. QED
    BY <1>1, <1>2, <2>1, SaveStepCases DEF SaveOpen, SaveWritten, SaveWriteShort, SaveRemoveOld
<1>3. ASSUME NEW v \in Uuids, NEW s \in Secrets, NEW p \in Passes, importSecret(v, s, p) PROVE Kept \/ New
  BY <1>0, <1>3 DEF importSecret, TypeOK, Stored
<1>4. ASSUME NEW k \in KeyFiles, importKey(k) PROVE Kept \/ New
  BY <1>0, <1>4 DEF importKey, EntryOf, TypeOK, Stored
<1>5. ASSUME NEW v \in Uuids, NEW p \in Passes, NEW c \in BOOLEAN, m_keys' = KeysAfter(v, p, c) PROVE Kept
  <2>1. /\ \A x \in Uuids : x # v => m_keys'[x] = m_keys[x]
        /\ m_keys'[v] # None <=> m_keys[v] # None
        /\ m_keys[v] # None => m_keys'[v].file = m_keys[v].file
    BY <1>0, <1>5, SecretType
  <2>. QED
    BY <1>0, <2>1 DEF Stored
<1>6. ASSUME NEW v \in Uuids, NEW p \in Passes, NEW q \in Passes, recode(v, p, q) PROVE Kept
  <2> DEFINE ks == KeysAfter(v, p, TRUE)
             s == Secret(v, p, TRUE)
             e == Recoded(ks[v], s, q)
  <2>1. /\ ks \in [Uuids -> EncryptedKey \cup {None}]
        /\ \A x \in Uuids : x # v => ks[x] = m_keys[x]
        /\ ks[v] # None <=> m_keys[v] # None
        /\ m_keys[v] # None => ks[v].file = m_keys[v].file
    BY <1>0, SecretType
  <2>2. s # None /\ m_keys' = [ks EXCEPT ![v] = e]
    BY <1>6 DEF recode
  <2>3. m_keys[v] # None
    BY <1>6, <2>2 DEF IdentityInv, KeyIdentity, CacheSound, Secret, CacheHit, Stored
  <2>4. e.file = ks[v].file
    BY <2>1, <2>3 DEF Recoded
  <2> HIDE DEF ks, s, e
  <2>5. m_keys'[v] = e /\ \A x \in Uuids : x # v => m_keys'[x] = m_keys[x]
    BY <2>1, <2>2
  <2>. QED
    BY <1>0, <2>1, <2>3, <2>4, <2>5 DEF Stored
<1>7. ASSUME NEW v \in Uuids, NEW p \in Passes, NEW q \in Passes, recodeAddress(v, p, q) PROVE Kept
  <2>1. v \in Stored /\ m_keys' = [m_keys EXCEPT ![v] = Recoded(m_keys[v], m_keys[v].sec, q)]
    BY <1>7 DEF recodeAddress
  <2>2. Recoded(m_keys[v], m_keys[v].sec, q).file = m_keys[v].file
    BY <2>1 DEF Recoded, Stored
  <2>. QED
    BY <1>0, <2>1, <2>2 DEF TypeOK, Stored
<1>8. ASSUME NEW v \in Uuids, kill(v) PROVE Kept
  BY <1>0, <1>8 DEF kill, TypeOK, Stored
<1>9. ASSUME NEW keys \in [Uuids -> EncryptedKey \cup {None}], m_keys' \in load(keys),
             keys[u] \in {m_keys[u], None}
      PROVE  Kept \/ Read
  <2>1. \/ m_keys'[u] = keys[u]
        \/ \E f \in FileNames : Readable(f) /\ disk[f].id = u /\ m_keys'[u] = EntryOf(disk[f], f)
    BY <1>0, <1>9, LoadType
  <2>2. \A f : EntryOf(disk[f], f).file = f
    BY DEF EntryOf
  <2>. QED
    BY <1>0, <1>9, <2>1, <2>2 DEF Stored
<1>10. NoKeys \in [Uuids -> EncryptedKey \cup {None}] /\ NoKeys[u] = None
  BY <1>0 DEF NoKeys
<1>11. ASSUME NEW w \in BOOLEAN, Start(w) PROVE Kept \/ Read
  BY <1>0, <1>9, <1>10, <1>11 DEF Start
<1>12. ASSUME setPath PROVE Kept \/ Read
  BY <1>0, <1>9, <1>12 DEF setPath, TypeOK
<1>13. ASSUME Stop PROVE FALSE
  BY <1>0, <1>10, <1>13 DEF Stop
<1>14. ASSUME NEW v \in Uuids, NEW p \in Passes, NEW c \in BOOLEAN, secret(v, p, c) PROVE Kept
  BY <1>5, <1>14 DEF secret
<1>15. ASSUME SaveReturn \/ SaveThrows \/ clearCache \/ (\E v \in Uuids : killThrows(v)) \/ UNCHANGED vars PROVE Kept
  BY <1>1, <1>15 DEF SaveReturn, SaveThrows, SaveOpenFails, SaveRemoveFails, clearCache, killThrows, vars
<1> HIDE DEF Kept, New, Read
<1>16. Kept \/ New \/ Read \/ m_keys'[u].file = u
  BY <1>2, <1>3, <1>4, <1>6, <1>7, <1>8, <1>11, <1>12, <1>13, <1>14, <1>15 DEF Next
<1>. QED
  BY <1>16 DEF Kept, New, Read

(* Which keys save() leaves off its list. *)
LEMMA TodoStep ==
    ASSUME TypeInv, [Next]_vars, "open" \notin Faults, OldOwn
    PROVE  BeginSave \/ Stop \/ \A u \in todo \ todo' : phase = "remove" /\ u = cur
<1> DEFINE G == \A u \in todo \ todo' : phase = "remove" /\ u = cur
<1>1. ASSUME SaveStep PROVE G
  BY <1>1, SaveStepCases DEF SaveOpen, SaveWritten, SaveWriteShort, SwapFilename, SaveRemoveOld
<1>2. ASSUME SaveReturn \/ SaveThrows PROVE G
  BY <1>2 DEF SaveReturn, SaveThrows, SaveOpenFails, SaveRemoveFails, OldOwn
<1>3. ASSUME todo' = todo PROVE G
  BY <1>3
<1> HIDE DEF G
<1>4. ASSUME \/ \E w \in BOOLEAN : Start(w)
             \/ clearCache \/ setPath
             \/ \E u \in Uuids, p \in Passes, c \in BOOLEAN : secret(u, p, c)
             \/ \E u \in Uuids : kill(u) \/ killThrows(u)
             \/ UNCHANGED vars
      PROVE  todo' = todo
  BY <1>4 DEF Start, clearCache, setPath, secret, kill, killThrows, saveVars, vars
<1>5. ASSUME \/ \E u \in Uuids, s \in Secrets, p \in Passes : importSecret(u, s, p)
             \/ \E k \in KeyFiles : importKey(k)
             \/ \E u \in Uuids, p, q \in Passes : recode(u, p, q) \/ recodeAddress(u, p, q)
      PROVE  BeginSave
  BY <1>5 DEF importSecret, importKey, recode, recodeAddress
<1>6. BeginSave \/ Stop \/ G
  BY <1>1, <1>2, <1>3, <1>4, <1>5 DEF Next
<1>. QED
  BY <1>6 DEF G

LEMMA OldOwnStep ==
    ASSUME TypeInv, OwnFile, OldOwn, [Next]_vars
    PROVE  OldOwn'
<1>1. ASSUME phase' # "remove" PROVE OldOwn'
  BY <1>1 DEF OldOwn
<1>2. ASSUME phase = "write", SwapFilename PROVE OldOwn'
  BY <1>2 DEF SwapFilename, OwnFile, OldOwn, OldIsOther, TypeInv, TypeOK, Shape
<1>3. ASSUME SaveStep PROVE OldOwn'
  BY <1>1, <1>2, <1>3, SaveStepCases DEF SaveOpen, SaveWritten, SaveWriteShort, SaveRemoveOld
<1>4. ASSUME UNCHANGED vars PROVE OldOwn'
  BY <1>4 DEF vars, OldOwn, OldIsOther
<1>5. ASSUME SaveReturn \/ SaveThrows \/ Stop PROVE phase' # "remove"
  BY <1>5 DEF SaveReturn, SaveThrows, SaveOpenFails, SaveRemoveFails, Stop, EndSave
<1>6. ASSUME \/ \E u \in Uuids, s \in Secrets, p \in Passes : importSecret(u, s, p)
             \/ \E k \in KeyFiles : importKey(k)
             \/ \E u \in Uuids, p, q \in Passes : recode(u, p, q) \/ recodeAddress(u, p, q)
      PROVE  phase' # "remove"
  BY <1>6 DEF importSecret, importKey, recode, recodeAddress, BeginSave
<1>7. ASSUME \/ \E w \in BOOLEAN : Start(w)
             \/ clearCache \/ setPath
             \/ \E u \in Uuids, p \in Passes, c \in BOOLEAN : secret(u, p, c)
             \/ \E u \in Uuids : kill(u) \/ killThrows(u)
      PROVE  phase' # "remove"
  BY <1>7 DEF Start, clearCache, setPath, secret, kill, killThrows, saveVars, Idle, TypeInv, Shape
<1>. QED
  BY <1>1, <1>3, <1>4, <1>5, <1>6, <1>7 DEF Next

LEMMA NamesInit == AMInit => NamesInv
<1> SUFFICES ASSUME AMInit PROVE NamesInv
  OBVIOUS
<1>1. Stored = {}
  BY DEF AMInit, Init, Stored, NoKeys
<1>. QED
  BY <1>1 DEF AMInit, Init, NamesInv, CanonicalOwn, OwnFile, VisitedNamed, OldOwn, Readable

LEMMA NamesNext ==
    ASSUME AMTypeInv, NamesInv, [AMNext]_allVars, Strays = {}, "open" \notin Faults
    PROVE  NamesInv'
<1> USE DEF NamesInv
<1>0. TypeInv /\ IdentityInv /\ AMTypeOK /\ FileNames = Uuids
  BY DEF AMTypeInv, IdentityInv, FileNames
<1>1. ASSUME NEW a \in Accounts, NEW p \in Passes, DeleteThrows(a, p) PROVE NamesInv'
  <2> DEFINE u == cfxAddressDic[a]
  <2>1. /\ Stored' = Stored /\ Idle'
        /\ \A v \in Uuids : v # u => m_keys'[v] = m_keys[v]
        /\ m_keys'[u].file = m_keys[u].file
        /\ UNCHANGED <<m_path, disk, todo>>
    BY <1>0, <1>1, ThrowingDelete
  <2> HIDE DEF u
  <2>2. \A v \in Stored : v \in Uuids /\ m_keys'[v].file = m_keys[v].file
    BY <2>1 DEF Stored
  <2>3. CanonicalOwn'
    BY <2>1 DEF CanonicalOwn, Readable
  <2>. QED
    BY <2>1, <2>2, <2>3 DEF OwnFile, VisitedNamed, OldOwn, Idle
<1>2. ASSUME [Next]_vars PROVE NamesInv'
  <2>1. ASSUME NEW u \in Uuids, Readable(u)' PROVE disk'[u].id = u
    <3>1. disk'[u] = disk[u] \/ (SaveWritten /\ u = cur)
      BY <1>0, <1>2, <2>1, DiskStep DEF Readable
    <3>. QED
      BY <1>0, <2>1, <3>1, WrittenFile DEF CanonicalOwn, Readable
  <2>2. ASSUME NEW u \in Stored'
        PROVE  \/ u \in Stored /\ m_keys'[u].file = m_keys[u].file
               \/ m_keys'[u].file = u
               \/ m_keys'[u].file = None /\ BeginSave
    BY <1>0, <1>2, FileNameStep DEF CanonicalOwn
  <2>3. OwnFile'
    BY <2>2 DEF OwnFile
  <2>4. OldOwn'
    BY <1>0, <1>2, OldOwnStep
  <2>5. ASSUME m_path', NEW u \in Stored' \ todo' PROVE m_keys'[u].file = u
    <3>1. ~BeginSave /\ ~Stop
      BY <2>5 DEF BeginSave, Stored, Stop
    <3>2. CASE u \in Stored /\ m_keys'[u].file = m_keys[u].file
      <4>1. ASSUME NEW w \in BOOLEAN, Construct(w) PROVE m_keys'[u].file = u
        <5>1. PICK f \in FileNames : Readable(f) /\ disk[f].id = u /\ m_keys'[u] = EntryOf(disk[f], f)
          BY <4>1, ConstructedFrom
        <5>. QED
          BY <1>0, <5>1 DEF CanonicalOwn, EntryOf
      <4>2. CASE m_path
        <5>1. \A v \in todo \ todo' : phase = "remove" /\ v = cur
          BY <1>0, <1>2, <3>1, TodoStep
        <5>. QED
          BY <1>0, <2>5, <3>2, <4>2, <5>1 DEF VisitedNamed, TypeInv, Shape
      <4>. QED
        BY <2>5, <3>1, <4>1, <4>2, PathKept DEF End
    <3>. QED
      BY <2>2, <3>1, <3>2
  <2>. QED
    BY <2>1, <2>3, <2>4, <2>5 DEF CanonicalOwn, VisitedNamed
<1>. QED
  BY <1>0, <1>1, <1>2, StoreNext

(* How a key comes into memory. *)
LEMMA StoredGains ==
    ASSUME AMTypeInv, [AMNext]_allVars
    PROVE  \/ Stored' \subseteq Stored
           \/ \E w \in BOOLEAN : Construct(w)
           \/ \E u \in Uuids : Begins(u) /\ Stored' \subseteq Stored \cup {u}
<1> DEFINE G == Stored' \subseteq Stored
           B == \E u \in Uuids : Begins(u) /\ Stored' \subseteq Stored \cup {u}
<1>0. TypeInv /\ IdentityInv /\ AMTypeOK
  BY DEF AMTypeInv, IdentityInv
<1>1. ASSUME UNCHANGED vars PROVE G
  BY <1>1 DEF vars, Stored
<1>2. ASSUME NEW s \in Secrets, NEW p \in Passes, ImportNew(s, p) PROVE B
  BY <1>0, <1>2, ImportStores DEF ImportNew
<1>3. ASSUME NEW r \in RawFiles, ImportKeystore(r) PROVE G \/ B
  <2>1. CASE upgraded(r) = Torn
    BY <1>1, <1>3, <2>1 DEF ImportKeystore
  <2>2. CASE upgraded(r) # Torn
    <3>1. upgraded(r) \in KeyFiles /\ upgraded(r).id = r.id
      BY <2>2 DEF KeyFiles, upgraded
    <3>2. importKey(upgraded(r)) /\ Begins(r.id)
      BY <1>3, <2>2 DEF ImportKeystore
    <3>. QED
      BY <1>0, <3>1, <3>2, ImportKeyStores
  <2>. QED
    BY <2>1, <2>2
<1>4. ASSUME NEW a \in Listed PROVE cfxAddressDic[a] \in Uuids
  BY <1>0 DEF Listed, AMTypeOK
<1>5. ASSUME NEW u \in Uuids, NEW p \in Passes, NEW q \in Passes, recode(u, p, q) PROVE G
  <2> DEFINE keys == KeysAfter(u, p, TRUE)
  <2>1. m_keys[u] # None
    BY <1>0, <1>5 DEF recode, IdentityInv, KeyIdentity, CacheSound, Secret, CacheHit, Stored
  <2>2. keys \in [Uuids -> EncryptedKey \cup {None}] /\ \A v \in Uuids : v # u => keys[v] = m_keys[v]
    BY <1>0, SecretType DEF TypeInv
  <2>3. \E e : m_keys' = [keys EXCEPT ![u] = e]
    BY <1>5 DEF recode
  <2> HIDE DEF keys
  <2>4. \A v \in Uuids : v # u => m_keys'[v] = m_keys[v]
    BY <2>2, <2>3
  <2>. QED
    BY <2>1, <2>4 DEF Stored
<1>6. ASSUME NEW a \in Accounts, NEW p \in Passes, NEW q \in Passes, UpdatePassphrase(a, p, q) PROVE G
  BY <1>1, <1>4, <1>5, <1>6 DEF UpdatePassphrase
<1>7. ASSUME NEW u \in Uuids, NEW p \in Passes, secret(u, p, TRUE) PROVE G
  <2>1. m_keys' = KeysAfter(u, p, TRUE)
    BY <1>7 DEF secret
  <2>2. /\ \A v \in Uuids : v # u => m_keys'[v] = m_keys[v]
        /\ m_keys'[u] # None <=> m_keys[u] # None
    BY <1>0, <2>1, SecretType DEF TypeInv
  <2>. QED
    BY <2>2 DEF Stored
<1>8. ASSUME NEW a \in Accounts, NEW p \in Passes, GetSecret(a, p) PROVE G
  BY <1>1, <1>4, <1>7, <1>8 DEF GetSecret
<1>9. ASSUME NEW a \in Accounts, NEW p \in Passes, DeleteThrows(a, p) PROVE G
  BY <1>0, <1>9, ThrowingDelete
<1>10. ASSUME NEW a \in Accounts, NEW p \in Passes, Delete(a, p) PROVE G
  <2>1. ASSUME NEW u \in Uuids, kill(u) PROVE G
    BY <1>0, <2>1 DEF kill, Stored, TypeInv, TypeOK
  <2>. QED
    BY <1>1, <1>4, <1>10, <2>1 DEF Delete
<1>11. ASSUME Saving \/ Finish \/ Throw PROVE G
  BY <1>0, <1>11, SaveKeepsKeys DEF Saving, Finish, Throw
<1>12. ASSUME End PROVE G
  BY <1>12 DEF End, Stop, NoKeys, Stored
<1>13. ASSUME NEW t \in Threads, GetDefaultTest(t) \/ GetDefaultList(t) PROVE G
  BY <1>1, <1>13 DEF GetDefaultTest, GetDefaultList
<1>14. ASSUME NEW p \in Passes, Create(p) PROVE B
  BY <1>2, <1>14 DEF Create
<1>15. ASSUME NEW s \in Importable, NEW p \in Passes, ImportPrivateKey(s, p) PROVE G \/ B
  BY <1>1, <1>2, <1>15, ImportableAssumption DEF ImportPrivateKey
<1>16. ASSUME UNCHANGED allVars PROVE G
  BY <1>1, <1>16 DEF allVars
<1> HIDE DEF G, B
<1>17. ASSUME AMNext PROVE G \/ B \/ \E w \in BOOLEAN : Construct(w)
  BY <1>3, <1>6, <1>8, <1>9, <1>10, <1>11, <1>12, <1>13, <1>14, <1>15, <1>17 DEF AMNext
<1>. QED
  BY <1>16, <1>17 DEF G, B

LEMMA DeletedStep ==
    ASSUME [AMNext]_allVars
    PROVE  deleted' \subseteq deleted \/ \E a \in Accounts : Removes(a)
<1>1. ASSUME NEW a \in Accounts, NEW p \in Passes, Delete(a, p)
      PROVE  deleted' \subseteq deleted \/ Removes(a)
  BY <1>1 DEF Delete, Removes, Returns, Secret, CacheHit
<1>2. ASSUME \/ \E p \in Passes : Create(p)
             \/ \E s \in Importable, p \in Passes : ImportPrivateKey(s, p)
             \/ \E r \in RawFiles : ImportKeystore(r)
      PROVE  deleted' \subseteq deleted
  BY <1>2 DEF Create, ImportPrivateKey, ImportNew, ImportKeystore, Begins, Returns
<1>3. ASSUME \/ \E w \in BOOLEAN : Construct(w)
             \/ \E a \in Accounts, p, q \in Passes : UpdatePassphrase(a, p, q)
             \/ \E a \in Accounts, p \in Passes : GetSecret(a, p) \/ DeleteThrows(a, p)
             \/ \E t \in Threads : GetDefaultTest(t) \/ GetDefaultList(t)
             \/ End \/ Saving \/ Finish \/ Throw \/ UNCHANGED allVars
      PROVE  deleted' = deleted
  BY <1>3 DEF Construct, End, UpdatePassphrase, GetSecret, DeleteThrows, GetDefaultTest, GetDefaultList,
              Saving, Finish, Throw, Returns, allVars, amVars
<1>. QED
  BY <1>1, <1>2, <1>3 DEF AMNext

(* The only file of the deleted key is the one that kill() removes. *)
LEMMA KilledGone ==
    ASSUME GoneInv, NEW a \in Accounts, Removes(a), NEW u, u = cfxAddressDic[a], m_path, Strays = {}
    PROVE  u \notin Stored' /\ ~HasCopy(u)'
<1>0. TypeInv /\ AMTypeOK /\ FileNames = Uuids /\ NamesInv
  BY DEF GoneInv, AMTypeInv, IdentityInv, FileNames
<1>1. u \in Uuids /\ u \in Stored /\ kill(u) /\ todo = {}
  BY <1>0 DEF Removes, Listed, AMTypeOK, Stored, TypeInv, Shape, MutexFree, Idle
<1>2. m_keys[u].file = u
  BY <1>0, <1>1 DEF NamesInv, VisitedNamed
<1>3. disk' = [disk EXCEPT ![u] = None] /\ m_keys' = [m_keys EXCEPT ![u] = None]
  BY <1>0, <1>1, <1>2, SentinelAssumption DEF kill
<1>4. u \notin Stored'
  BY <1>0, <1>1, <1>3 DEF Stored, TypeInv, TypeOK
<1>5. ASSUME NEW f \in FileNames, Readable(f)', disk'[f].id = u PROVE FALSE
  BY <1>0, <1>1, <1>3, <1>5 DEF NamesInv, CanonicalOwn, Readable, TypeInv, TypeOK
<1>. QED
  BY <1>4, <1>5 DEF HasCopy

(* Nothing but storing it again brings a deleted key back. *)
LEMMA StaysGone ==
    ASSUME GoneInv, [AMNext]_allVars, NEW u \in deleted, u \in deleted'
    PROVE  ~HasCopy(u)' /\ (m_path' => u \notin Stored')
<1>0. TypeInv /\ AMTypeInv /\ AMTypeOK /\ u \in Uuids /\ ~HasCopy(u)
  BY DEF GoneInv, AMTypeInv, IdentityInv, AMTypeOK, GoneFromDisk
<1>1. ASSUME NEW f \in FileNames, Readable(f)', disk'[f].id = u PROVE FALSE
  <2>1. disk'[f] = disk[f] \/ (SaveWritten /\ f = cur)
    <3>1. ASSUME NEW a \in Accounts, NEW p \in Passes, DeleteThrows(a, p) PROVE disk' = disk
      BY <3>1 DEF DeleteThrows
    <3>. QED
      BY <1>0, <1>1, <3>1, StoreNext, DiskStep DEF Readable
  <2>2. CASE disk'[f] = disk[f]
    BY <1>0, <1>1, <2>2 DEF HasCopy, Readable
  <2>3. CASE SaveWritten /\ f = cur
    <3>1. cur \in Stored /\ cur = u
      BY <1>0, <1>1, <2>3, WrittenFile
    <3>2. m_path
      BY <1>0, <2>3 DEF TypeInv, Shape, SaveWritten
    <3>. QED
      BY <3>1, <3>2 DEF GoneInv, DeletedKeyGone
  <2>. QED
    BY <2>1, <2>2, <2>3
<1>2. ASSUME m_path', u \in Stored' PROVE FALSE
  <2>1. ASSUME NEW w \in BOOLEAN, Construct(w) PROVE FALSE
    BY <1>0, <1>2, <2>1, ConstructedFrom DEF HasCopy
  <2>2. m_path
    BY <1>2, <2>1, PathKept DEF End, Stop
  <2>3. u \notin Stored
    BY <2>2 DEF GoneInv, DeletedKeyGone
  <2>4. ASSUME NEW v \in Uuids, Begins(v), Stored' \subseteq Stored \cup {v} PROVE FALSE
    BY <1>2, <2>2, <2>3, <2>4 DEF Begins
  <2>. QED
    BY <1>0, <1>2, <2>1, <2>3, <2>4, StoredGains
<1>. QED
  BY <1>1, <1>2 DEF HasCopy

LEMMA GoneNext ==
    ASSUME GoneInv, [AMNext]_allVars, Strays = {}, "open" \notin Faults PROVE GoneInv'
<1>1. AMTypeInv' /\ NamesInv'
  BY AMTypeNext, NamesNext DEF GoneInv
<1>2. ASSUME NEW u \in deleted' PROVE ~HasCopy(u)' /\ (m_path' => u \notin Stored')
  <2>1. ASSUME NEW a \in Accounts, Removes(a), u \notin deleted PROVE ~HasCopy(u)' /\ u \notin Stored'
    <3>1. m_path /\ u = cfxAddressDic[a]
      BY <1>2, <2>1 DEF Removes
    <3>. QED
      BY <2>1, <3>1, KilledGone
  <2>. QED
    BY <1>2, <2>1, StaysGone, DeletedStep
<1>. QED
  BY <1>1, <1>2 DEF GoneInv, GoneFromDisk, DeletedKeyGone

(* A key that Delete killed is neither in memory nor in any file until it  *)
(* is stored again: after a stop in the middle of a save, after a Delete   *)
(* of it that first threw, and on a full device too.  The directory has    *)
(* no file but <uuid>.json ones, and opening a file never fails: a save    *)
(* that threw leaves entries that name no file, and kill() of such an      *)
(* entry removes none.                                                     *)
THEOREM DeletedGone ==
    ASSUME Strays = {}, "open" \notin Faults PROVE AMSpec => []DeletedKeyGone
<1>1. AMInit => GoneInv
  BY AMTypeInit, NamesInit DEF GoneInv, GoneFromDisk, DeletedKeyGone, AMInit
<1>2. GoneInv /\ [AMNext]_allVars => GoneInv'
  BY GoneNext
<1>3. GoneInv => DeletedKeyGone
  BY DEF GoneInv
<1>. QED
  BY <1>1, <1>2, <1>3, PTL DEF AMSpec
=============================================================================
