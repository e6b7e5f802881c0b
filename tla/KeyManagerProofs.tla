-------------------------- MODULE KeyManagerProofs -------------------------
(* Proofs about KeyManager, on top of those about its SecretStore. *)
EXTENDS KeyManager, SecretStoreProofs

(* The parts of KMTypeOK, with what the steps of an operation rely on. *)
LookupTypes ==
    /\ m_addrLookup \in [Addrs -> Uuids \cup {None}]
    /\ m_uuidLookup \in [Uuids -> Addrs \cup {None}]
    /\ m_keyInfo \in [Addrs -> Hashes \cup {UnknownPassword, None}]

PasswordTypes ==
    /\ m_cachedPasswords \subseteq Hashes
    /\ m_default \in Defaults \cup {None}
    /\ m_keysFileKey \in (Passes \X SaltContents) \cup {None}
    /\ m_master \in Hashes \cup {None}

(* The keys file names accounts, keys and hashes. *)
FileTypes ==
    /\ saltFile \in SaltContents
    /\ keysFile # None =>
          /\ keysFile.pass \in Passes \cup {None} /\ keysFile.salt \in SaltContents
          /\ keysFile.default \in Defaults \cup {None}
          /\ \A i \in keysFile.infos :
                /\ i.addr \in Addrs /\ i.uuid \in Uuids \cup {None}
                /\ i.hash \in Hashes \cup {UnknownPassword}

(* What an operation under way remembers. *)
DoingType ==
    /\ doing.step \in {"rest", "salt", "rekey", "keys", "load", "import", "recode"}
    /\ doing.step \in {"salt", "rekey", "keys", "load", "import", "recode"} => doing.pass \in Passes
    /\ doing.step \in {"rekey", "keys"} => doing.salt \in SaltContents
    /\ doing.step = "keys" => doing.addr \in Addrs \cup {None}
    /\ doing.step \in {"import", "recode"} => doing.addr \in Addrs
    /\ doing.step = "import" => doing.uuid \in Uuids

HistoryTypes == broken \subseteq Addrs /\ pairBroken \in BOOLEAN /\ failures \in 0 .. MaxFailures

(* A manager that loads has a keys file; one that does not run, nothing.   *)
Life ==
    /\ loaded \in BOOLEAN
    /\ doing.step = "load" => keysFile # None
    /\ ~up => ~loaded /\ doing = Rest

KMTypes == LookupTypes /\ PasswordTypes /\ FileTypes /\ DoingType /\ HistoryTypes /\ Life

(* Where in its life the manager of orderly callers is: only one that has  *)
(* loaded or created its keys file works on accounts; when no file is lost *)
(* creating one starts from nothing.                                       *)
Ordered ==
    /\ doing.step \in {"keys", "import", "recode"} => loaded
    /\ doing.step = "load" => ~loaded
    /\ "full" \notin Faults =>
          /\ doing.step \in {"salt", "rekey"} /\ ~loaded => keysFile = None
          /\ loaded \/ keysFile # None \/ doing.step = "rekey" => saltFile # None

(* The key of the keys file, in memory and on its way to the file. *)
KeyPoint ==
    /\ doing.step = "rekey" => m_master[2] = doing.pass
    /\ doing.step = "keys" => m_keysFileKey = <<doing.pass, doing.salt>>
    /\ doing.step = "load" => /\ Opens(doing.pass)
                              /\ m_keysFileKey = <<doing.pass, saltFile>>
    /\ loaded /\ doing.step # "rekey" /\ ~pairBroken => m_keysFileKey = <<m_master[2], saltFile>>

(* Every copy of key u derives account a. *)
KeyOfAddr(u, a) == \A c \in Copies : c.id = u => AddressOf[c.sec] = a

(* What a lookup, the keys file and an import under way say of a key. *)
LookupRight ==
    \A a \in Addrs \ {ZeroAddress} : m_addrLookup[a] # None =>
        m_addrLookup[a] \in Stored /\ KeyOfAddr(m_addrLookup[a], a)

InfosRight ==
    keysFile # None => \A i \in keysFile.infos : i.addr # ZeroAddress => KeyOfAddr(i.uuid, i.addr)

ImportRight ==
    doing.step = "import" => doing.uuid \in Stored /\ KeyOfAddr(doing.uuid, doing.addr)

(* A manager that has read the keys file has what it says. *)
InfosTaken ==
    (loaded \/ doing.step = "load") /\ keysFile # None => \A i \in keysFile.infos :
        i.uuid \in Stored /\ m_addrLookup[i.addr] # None => m_keyInfo[i.addr] # None

-----------------------------------------------------------------------------
(* What a step of the manager does to its store. *)

LEMMA AddrsType == Addrs \subseteq Address
BY ConstantsAssumption DEF Addrs, Address, ZeroAddress

LEMMA AtFields ==
    ASSUME NEW step, NEW a, NEW u, NEW p, NEW s
    PROVE  /\ At(step, a, u, p, s).step = step /\ At(step, a, u, p, s).addr = a
           /\ At(step, a, u, p, s).uuid = u /\ At(step, a, u, p, s).pass = p
           /\ At(step, a, u, p, s).salt = s
BY DEF At

LEMMA HashType == ASSUME PasswordTypes, NEW p \in Passes PROVE hashPassword(p) \in Hashes
BY DEF hashPassword, Hashes, PasswordTypes

LEMMA PasswordType ==
    ASSUME PasswordTypes, NEW u \in Uuids, NEW p \in Passes
    PROVE  getPassword(u, p) \in Passes \cup {None} /\ PasswordsAfter(u, p) \subseteq Hashes
<1>1. hashPassword(p) \in Hashes
  BY HashType
<1>2. \A h \in Hashes : h[2] \in Passes
  BY DEF Hashes
<1>. QED
  BY <1>1, <1>2 DEF getPassword, PasswordsAfter, PasswordTypes

(* An empty password decrypts nothing. *)
LEMMA EmptyPassword ==
    ASSUME TypeOK, NEW u \in Uuids, NEW c \in BOOLEAN PROVE ~Decrypts(u, None, c)
<1>1. m_keys[u] # None => m_keys[u].pass \in Passes
  BY DEF TypeOK, EncryptedKey
<1>. QED
  BY <1>1, KMAssumption DEF Decrypts, Secret, decrypt

(* secret and recode with what getPassword answers, which may be nothing.  *)
LEMMA SecretAsked ==
    ASSUME TypeOK, NEW u \in Uuids, NEW p \in Passes \cup {None}, NEW c \in BOOLEAN, secret(u, p, c)
    PROVE  Deriving \/ UNCHANGED vars
<1>1. CASE p \in Passes
  BY <1>1 DEF Deriving
<1>2. CASE p = None
  BY <1>2, EmptyPassword DEF secret, CachedAfter, KeysAfter, vars, saveVars
<1>. QED
  BY <1>1, <1>2

LEMMA RecodeEmpty ==
    ASSUME TypeOK, NEW u \in Uuids, NEW q \in Passes, recode(u, None, q) PROVE recode(u, q, q)
<1>1. ~Decrypts(u, None, TRUE) /\ Secret(u, None, TRUE) # None
  BY EmptyPassword DEF recode
<1>2. CacheHit(u, TRUE)
  BY <1>1 DEF Decrypts
<1>3. Secret(u, None, TRUE) = Secret(u, q, TRUE) /\ KeysAfter(u, None, TRUE) = KeysAfter(u, q, TRUE)
  BY <1>2 DEF Secret, KeysAfter, Decrypts
<1>. QED
  BY <1>3 DEF recode

LEMMA RecodeAsked ==
    ASSUME TypeOK, NEW u \in Uuids, NEW p \in Passes \cup {None}, NEW q \in Passes, recode(u, p, q)
    PROVE  Deriving
<1>1. CASE p \in Passes
  BY <1>1 DEF Deriving
<1>2. CASE p = None
  <2>1. recode(u, q, q)
    BY <1>2, RecodeEmpty
  <2>. QED
    BY <2>1 DEF Deriving
<1>. QED
  BY <1>1, <1>2

(* Every step but an import, and a load that notes addresses, is a step of *)
(* the store that makes no key, or leaves the store alone.                 *)
LEMMA StoreCases ==
    ASSUME TypeOK, KMTypes, [KMNext]_allVars
    PROVE  \/ Deriving \/ UNCHANGED vars
           \/ \E s \in Secrets, p \in Passes : import(s, p)
           \/ Unaddressed # {} /\ \E p \in Passes : LoadAccepted(p)
<1>1. CASE UNCHANGED allVars
  BY <1>1 DEF allVars
<1>2. ASSUME NEW a \in Addrs, NEW p \in Passes, NEW c \in BOOLEAN, secretOf(a, p, c)
      PROVE  Deriving \/ UNCHANGED vars
  <2>1. m_addrLookup[a] \in Uuids
    BY <1>2 DEF secretOf, KMTypes, LookupTypes
  <2>2. getPassword(m_addrLookup[a], p) \in Passes \cup {None}
    BY <2>1, PasswordType DEF KMTypes
  <2>. QED
    BY <1>2, <2>1, <2>2, SecretAsked DEF secretOf
<1>3. ASSUME NEW a \in Addrs, NEW p \in Passes, NEW q \in Passes, recodeAccount(a, p, q)
      PROVE  Deriving
  <2>1. m_addrLookup[a] \in Uuids
    BY <1>3 DEF recodeAccount, KMTypes, LookupTypes
  <2>2. getPassword(m_addrLookup[a], p) \in Passes \cup {None}
    BY <2>1, PasswordType DEF KMTypes
  <2>. QED
    BY <1>3, <2>1, <2>2, RecodeAsked DEF recodeAccount
<1>4. ASSUME NEW a \in Addrs, killAccount(a) \/ killUnknown(a) \/ killAccountThrows(a)
      PROVE  Deriving \/ UNCHANGED vars
  <2>1. m_addrLookup[a] # None => m_addrLookup[a] \in Uuids
    BY DEF KMTypes, LookupTypes
  <2>. QED
    BY <1>4, <2>1 DEF killAccount, killUnknown, killAccountThrows, Deriving
<1>5. ASSUME NEW u \in Uuids, NEW p \in Passes, importExisting(u, p) PROVE Deriving
  BY <1>5 DEF importExisting, Deriving
<1>6. ASSUME NEW p \in Passes, LoadAccepted(p), Unaddressed = {} PROVE UNCHANGED vars
  BY <1>6 DEF LoadAccepted
<1>7. CASE Construct \/ End \/ StoreSaving \/ StoreThrows \/ LoadSaved \/ ImportSaved \/ RecodeSaved
  BY <1>7 DEF Construct, End, StoreSaving, StoreThrows, LoadSaved, ImportSaved, RecodeSaved, Deriving
<1>8. CASE Query \/ (\E s \in Salts : WriteSalt(s)) \/ WriteKeys \/ WriteFails
           \/ (\E p \in Passes : create(p) \/ save(p) \/ LoadRejected(p) \/ notePassword(p))
           \/ (\E u \in Uuids, a \in Addrs : importExistingAs(u, a))
  BY <1>8 DEF Query, WriteSalt, WriteKeys, WriteFails, create, save, LoadRejected, notePassword,
              importExistingAs, allVars
<1>. QED
  BY <1>1, <1>2, <1>3, <1>4, <1>5, <1>6, <1>7, <1>8 DEF KMNext

(* load() notes in the store the addresses the keys file has for keys that *)
(* have none; they are those the keys derive.                              *)
LEMMA NoteAddresses ==
    ASSUME IdentityInv, KMTypes, InfosRight, NEW p \in Passes, LoadAccepted(p), Unaddressed # {}
    PROVE  IdentityInv' /\ DerivedCopies /\ Stored' = Stored
<1> USE DEF IdentityInv, KeyIdentity
<1>0. PICK addrs \in [{i.uuid : i \in Unaddressed} -> Addrs] :
         /\ \A u \in DOMAIN addrs : \E i \in Unaddressed : i.uuid = u /\ i.addr = addrs[u]
         /\ m_keys' = [u \in Uuids |->
               IF u \in DOMAIN addrs
               THEN [sec |-> m_keys[u].sec, pass |-> m_keys[u].pass, file |-> m_keys[u].file,
                     addr |-> addrs[u]]
               ELSE m_keys[u]]
  BY DEF LoadAccepted
<1> DEFINE entry(u) == [sec |-> m_keys[u].sec, pass |-> m_keys[u].pass, file |-> m_keys[u].file,
                        addr |-> addrs[u]]
           noted(u) == u \in DOMAIN addrs
<1>1. /\ m_keys' = [u \in Uuids |-> IF noted(u) THEN entry(u) ELSE m_keys[u]]
      /\ m_cached' = m_cached /\ disk' = disk /\ BeginSave /\ Idle /\ keysFile # None
  BY <1>0 DEF LoadAccepted, BeginSave, Opening, Resting
<1>2. ASSUME NEW u \in Uuids, noted(u)
      PROVE  /\ u \in Stored /\ addrs[u] \in Addrs
             /\ addrs[u] = AddressOf[m_keys[u].sec]
  <2>1. PICK i \in Unaddressed : i.uuid = u /\ i.addr = addrs[u]
    BY <1>0, <1>2
  <2>2. i \in keysFile.infos /\ i.uuid \in Stored /\ i.addr # ZeroAddress
    BY <2>1 DEF Unaddressed, Known
  <2>3. KeyOfAddr(u, addrs[u])
    BY <1>1, <2>1, <2>2 DEF InfosRight
  <2>. QED
    BY <1>0, <1>2, <2>1, <2>2, <2>3, MemoryCopy DEF KeyOfAddr
<1>3. ASSUME NEW u \in Uuids, noted(u)
      PROVE  /\ entry(u) \in EncryptedKey /\ entry(u).sec = m_keys[u].sec
             /\ entry(u).addr = AddressOf[m_keys[u].sec]
  <2>1. m_keys[u] \in EncryptedKey
    BY <1>2, <1>3 DEF Stored, TypeInv, TypeOK
  <2>. QED
    BY <1>2, <1>3, <2>1, AddrsType DEF EncryptedKey
<1> HIDE DEF entry, noted
<1>4. m_keys' \in [Uuids -> EncryptedKey \cup {None}]
  BY <1>1, <1>3 DEF TypeInv, TypeOK
<1>5. TypeInv'
  BY <1>1, <1>4, TypeBegin DEF TypeInv, TypeOK
<1>6. ASSUME NEW u \in Uuids
      PROVE  /\ m_keys'[u] = None <=> m_keys[u] = None
             /\ u \in Stored => /\ m_keys'[u].sec = m_keys[u].sec
                                /\ m_keys'[u].addr \in {m_keys[u].addr, AddressOf[m_keys[u].sec]}
  <2>1. CASE noted(u)
    <3>1. m_keys'[u] = entry(u)
      BY <1>1, <2>1
    <3>. QED
      BY <1>2, <1>3, <2>1, <3>1, SentinelAssumption DEF Stored
  <2>2. CASE ~noted(u)
    BY <1>1, <2>2
  <2>. QED
    BY <2>1, <2>2
<1>7. Stored' = Stored
  BY <1>6 DEF Stored
<1>8. DerivedCopies
  <2>1. ASSUME NEW u \in Stored' PROVE From(m_keys'[u], u)
    BY <1>6, <1>7, MemoryCopy DEF From, Stored
  <2>2. \A f \in FileNames : Readable(f)' => disk'[f] \in Copies
    BY <1>1, DiskCopy DEF Readable
  <2>. QED
    BY <2>1, <2>2 DEF DerivedCopies
<1>9. CacheSound'
  BY <1>1, <1>6, <1>7 DEF CacheSound
<1>. QED
  BY <1>5, <1>7, <1>8, <1>9, Derive

(* The store under the manager keeps what it keeps by itself. *)
LEMMA StoreKept ==
    ASSUME IdentityInv, KMTypes, InfosRight, [KMNext]_allVars PROVE IdentityInv'
<1>1. CASE Deriving \/ UNCHANGED vars
  BY <1>1, IdentityNext DEF Deriving, Next
<1>2. ASSUME NEW s \in Secrets, NEW p \in Passes, import(s, p) PROVE IdentityInv'
  BY <1>2, IdentityNext DEF import, Next
<1>. QED
  BY <1>1, <1>2, StoreCases, NoteAddresses DEF IdentityInv, TypeInv

(* No copy of u appears but of the key that u had. *)
NoNewKey(u) == \A c \in Copies' : c.id = u => \E d \in Copies : d.id = u /\ d.sec = c.sec

LEMMA KeyOfAddrKept ==
    ASSUME NEW u, NEW a, NoNewKey(u), KeyOfAddr(u, a) PROVE KeyOfAddr(u, a)'
BY DEF NoNewKey, KeyOfAddr

LEMMA NoKeyMade ==
    ASSUME IdentityInv, KMTypes, InfosRight, [KMNext]_allVars, ~\E s \in Secrets, p \in Passes : import(s, p)
    PROVE  \A u : NoNewKey(u)
<1>1. DerivedCopies
  BY StoreCases, NoteAddresses, DerivedNext DEF IdentityInv, TypeInv
<1>. QED
  BY <1>1, DerivedSimilar DEF NoNewKey, Similar

(* The key an import makes has a uuid that nothing else has. *)
LEMMA KeyMade ==
    ASSUME IdentityInv, KMTypes, NEW s \in Secrets, NEW p \in Passes, import(s, p)
    PROVE  \E u \in Uuids :
              /\ u \notin Stored /\ Stored' = Stored \cup {u}
              /\ \A v : v # u => NoNewKey(v)
              /\ KeyOfAddr(u, AddressOf[s])'
              /\ keysFile # None => \A i \in keysFile.infos : i.uuid # u
              /\ doing' = At("import", AddressOf[s], u, p, None)
<1>1. PICK u \in Uuids : /\ keysFile # None => \A i \in keysFile.infos : i.uuid # u
                         /\ importSecret(u, s, p)
                         /\ doing' = At("import", AddressOf[s], u, p, None)
  BY DEF import
<1>2. \A c \in Copies' : c \in Copies \/ (c.id = u /\ c.sec = s /\ c.addr = AddressOf[s])
  BY <1>1, IdentityImport
<1>3. \A c \in Copies : c.id # u
  BY <1>1 DEF importSecret, FreshUuid
<1>4. u \notin Stored
  BY <1>3, MemoryCopy
<1>5. Stored' = Stored \cup {u}
  <2> DEFINE e == [sec |-> s, pass |-> p, addr |-> AddressOf[s], file |-> None]
  <2>1. e \in EncryptedKey /\ m_keys' = [m_keys EXCEPT ![u] = e]
    BY <1>1, ConstantsAssumption DEF importSecret, EncryptedKey
  <2>2. e # None
    BY <2>1, SentinelAssumption
  <2> HIDE DEF e
  <2>. QED
    BY <2>1, <2>2 DEF Stored, IdentityInv, TypeInv, TypeOK
<1>6. \A v : v # u => NoNewKey(v)
  BY <1>2 DEF NoNewKey
<1>7. KeyOfAddr(u, AddressOf[s])'
  BY <1>2, <1>3 DEF KeyOfAddr
<1>. QED
  BY <1>1, <1>4, <1>5, <1>6, <1>7

-----------------------------------------------------------------------------
(* Type correctness *)

(* Which steps change the lookups, the passwords, the files and `doing`.   *)
Recording ==
    \/ LoadSaved \/ ImportSaved \/ RecodeSaved
    \/ (\E p \in Passes : LoadAccepted(p))
    \/ (\E u \in Uuids, p \in Passes : importExisting(u, p))
    \/ (\E u \in Uuids, a \in Addrs : importExistingAs(u, a))
    \/ \E a \in Addrs \ {ZeroAddress} : killAccount(a) \/ killUnknown(a) \/ killAccountThrows(a)

LEMMA LookupCases ==
    [KMNext]_allVars => UNCHANGED lookups \/ Construct \/ End \/ Recording
BY DEF KMNext, Recording, Query, StoreSaving, StoreThrows, WriteSalt, WriteKeys, WriteFails, create, save,
       LoadRejected, notePassword, import, secretOf, recodeAccount, allVars, kmVars

LEMMA FileCases ==
    [KMNext]_allVars => UNCHANGED files \/ (\E s \in Salts : WriteSalt(s)) \/ WriteKeys
BY DEF KMNext, Construct, End, Query, StoreSaving, StoreThrows, LoadSaved, ImportSaved, RecodeSaved, WriteFails,
       create, save, LoadAccepted, LoadRejected, notePassword, import, importExisting, importExistingAs,
       secretOf, recodeAccount, killAccount, killUnknown, killAccountThrows, allVars, kmVars, history

LEMMA HashesKnown == \A h \in Hashes \cup {UnknownPassword} : h # None
BY KMAssumption

LEMMA EnterTypes ==
    ASSUME LookupTypes, NEW a \in Addrs, NEW u \in Uuids, NEW h \in Hashes \cup {UnknownPassword}, Enter(a, u, h)
    PROVE  LookupTypes'
BY DEF LookupTypes, Enter

LEMMA ForgetTypes == ASSUME LookupTypes, NEW a \in Addrs, Forget(a) PROVE LookupTypes'
BY DEF LookupTypes, Forget

(* The entries of the keys file that load() takes over. *)
LEMMA TakeTypes == ASSUME LookupTypes, FileTypes, keysFile # None, TakeInfos PROVE LookupTypes'
<1> DEFINE taken == Known \cup {i \in keysFile.infos : i.uuid = None}
<1>1. \A i \in Known : i \in keysFile.infos /\ i.uuid \in Uuids
  BY DEF Known, Stored
<1>2. \A i \in taken : i.addr \in Addrs /\ i.hash \in Hashes \cup {UnknownPassword}
  BY <1>1 DEF FileTypes
<1>3. m_addrLookup' \in [Addrs -> Uuids \cup {None}]
  <2> SUFFICES ASSUME NEW a \in Addrs
               PROVE (IF \E i \in Known : i.addr = a THEN (CHOOSE i \in Known : i.addr = a).uuid ELSE m_addrLookup[a])
                        \in Uuids \cup {None}
    BY DEF TakeInfos
  <2>. QED
    BY <1>1 DEF LookupTypes
<1>4. m_uuidLookup' \in [Uuids -> Addrs \cup {None}]
  BY DEF TakeInfos, TakeUuids
<1>5. m_keyInfo' \in [Addrs -> Hashes \cup {UnknownPassword, None}]
  <2>1. m_keyInfo' = [a \in Addrs |->
            IF \E i \in taken : i.addr = a THEN (CHOOSE i \in taken : i.addr = a).hash ELSE m_keyInfo[a]]
    BY DEF TakeInfos
  <2> HIDE DEF taken
  <2>2. ASSUME NEW a \in Addrs
        PROVE (IF \E i \in taken : i.addr = a THEN (CHOOSE i \in taken : i.addr = a).hash ELSE m_keyInfo[a])
                 \in Hashes \cup {UnknownPassword, None}
    BY <1>2 DEF LookupTypes
  <2>. QED
    BY <2>1, <2>2
<1>. QED
  BY <1>3, <1>4, <1>5 DEF LookupTypes

(* The secret that importExisting gets from the store is that of the key. *)
LEMMA ExistingSecret ==
    ASSUME IdentityInv, NEW u \in Uuids, NEW p, Secret(u, p, TRUE) # None
    PROVE  u \in Stored /\ Secret(u, p, TRUE) = m_keys[u].sec /\ AddressOf[m_keys[u].sec] \in Addrs
<1>1. u \in Stored /\ Secret(u, p, TRUE) = m_keys[u].sec
  BY DEF Secret, CacheHit, decrypt, IdentityInv, KeyIdentity, CacheSound, Stored
<1>2. m_keys[u].sec \in Secrets
  BY <1>1 DEF IdentityInv, TypeInv, TypeOK, Stored, EncryptedKey
<1>. QED
  BY <1>1, <1>2 DEF Addrs

LEMMA LookupsTyped ==
    ASSUME IdentityInv, IdentityInv', KMTypes, [KMNext]_allVars PROVE LookupTypes'
<1> USE DEF KMTypes
<1>1. CASE UNCHANGED lookups
  BY <1>1 DEF lookups, LookupTypes
<1>2. CASE Construct
  <2>1. ASSUME NEW u \in Uuids, m_keys'[u] # None PROVE m_keys'[u].addr \in Addrs
    <3>1. u \in Stored' /\ m_keys'[u].sec \in Secrets
      BY <2>1 DEF Stored, IdentityInv, TypeInv, TypeOK, EncryptedKey
    <3>2. FileOf(u)' \in Copies' /\ FileOf(u)'.addr = m_keys'[u].addr /\ FileOf(u)'.sec = m_keys'[u].sec
      BY <3>1 DEF Copies, FileOf
    <3>3. m_keys'[u].addr \in {ZeroAddress, AddressOf[m_keys'[u].sec]}
      BY <3>2 DEF IdentityInv, KeyIdentity, AddressesRight
    <3>. QED
      BY <3>1, <3>3 DEF Addrs
  <2>. QED
    BY <1>2, <2>1 DEF Construct, LookupTypes
<1>3. CASE End
  BY <1>3 DEF End, NoAddrs, NoKeys, LookupTypes
<1>4. CASE LoadSaved
  BY <1>4 DEF LoadSaved, lookups, LookupTypes
<1>5. CASE ImportSaved
  BY <1>5, EnterTypes, HashType DEF ImportSaved, DoingType
<1>6. CASE RecodeSaved
  BY <1>6, HashType DEF RecodeSaved, DoingType, LookupTypes
<1>7. ASSUME NEW p \in Passes, LoadAccepted(p) PROVE LookupTypes'
  BY <1>7, TakeTypes DEF LoadAccepted
<1>8. ASSUME NEW u \in Uuids, NEW p \in Passes, importExisting(u, p) PROVE LookupTypes'
  BY <1>8, ExistingSecret, EnterTypes, HashType DEF importExisting
<1>9. ASSUME NEW u \in Uuids, NEW b \in Addrs, importExistingAs(u, b) PROVE LookupTypes'
  BY <1>9, EnterTypes DEF importExistingAs
<1>10. ASSUME NEW a \in Addrs, killAccount(a) \/ killUnknown(a) \/ killAccountThrows(a) PROVE LookupTypes'
  BY <1>10, ForgetTypes DEF killAccount, killUnknown, killAccountThrows
<1>. QED
  BY <1>1, <1>2, <1>3, <1>4, <1>5, <1>6, <1>7, <1>8, <1>9, <1>10, LookupCases DEF Recording

LEMMA PasswordsTyped ==
    ASSUME IdentityInv, KMTypes, [KMNext]_allVars PROVE PasswordTypes'
<1> USE DEF KMTypes
<1>1. CASE UNCHANGED passwords
  BY <1>1 DEF passwords, PasswordTypes
<1>2. ASSUME NEW p \in Passes, Loaded(p), keysFile # None, m_keysFileKey' \in (Passes \X SaltContents) \cup {None}
      PROVE  PasswordTypes'
  <2>1. <<keysFile.default, p>> \in Hashes
    BY <1>2 DEF FileTypes, Hashes
  <2>. QED
    BY <1>2, <2>1 DEF Loaded, PasswordTypes, FileTypes
<1>3. CASE End
  BY <1>3 DEF End, PasswordTypes
<1>4. ASSUME NEW s \in Salts, WriteSalt(s) PROVE PasswordTypes'
  BY <1>4, HashType DEF WriteSalt, DoingType, PasswordTypes
<1>5. CASE WriteKeys
  <2>1. m_master \in m_cachedPasswords => hashPassword(m_master[2]) \in Hashes
    BY HashType DEF PasswordTypes, Hashes
  <2>2. <<doing.pass, doing.salt>> \in Passes \X SaltContents
    BY <1>5 DEF WriteKeys, DoingType
  <2>. QED
    BY <1>5, <2>1, <2>2 DEF WriteKeys, PasswordTypes
<1>6. ASSUME NEW p \in Passes,
             create(p) \/ LoadRejected(p) \/ notePassword(p) \/ \E s \in Secrets : import(s, p)
      PROVE  PasswordTypes'
  BY <1>6, HashType DEF create, LoadRejected, notePassword, import, PasswordTypes, FileTypes
<1>7. ASSUME NEW u \in Uuids, NEW p \in Passes, importExisting(u, p) PROVE PasswordTypes'
  BY <1>7, HashType DEF importExisting, PasswordTypes
<1>8. ASSUME NEW p \in Passes, LoadAccepted(p) PROVE PasswordTypes'
  <2>1. keysFile # None /\ m_keysFileKey' \in Passes \X SaltContents
    BY <1>8 DEF LoadAccepted, FileTypes
  <2>. QED
    BY <1>2, <1>8, <2>1 DEF LoadAccepted, PasswordTypes
<1>9. CASE LoadSaved
  BY <1>2, <1>9 DEF LoadSaved, DoingType, Life, PasswordTypes
<1>10. ASSUME NEW a \in Addrs, NEW p \in Passes, NEW c \in BOOLEAN, secretOf(a, p, c) PROVE PasswordTypes'
  BY <1>10, PasswordType DEF secretOf, LookupTypes, PasswordTypes
<1>11. ASSUME NEW a \in Addrs, NEW p \in Passes, NEW q \in Passes, recodeAccount(a, p, q) PROVE PasswordTypes'
  BY <1>11, PasswordType DEF recodeAccount, LookupTypes, PasswordTypes
<1>12. CASE \/ Construct \/ Query \/ StoreSaving \/ StoreThrows \/ ImportSaved \/ RecodeSaved \/ WriteFails
            \/ UNCHANGED allVars
            \/ \E p \in Passes : save(p)
            \/ \E u \in Uuids, a \in Addrs : importExistingAs(u, a)
            \/ \E a \in Addrs \ {ZeroAddress} : killAccount(a) \/ killUnknown(a) \/ killAccountThrows(a)
  BY <1>1, <1>12 DEF Construct, Query, StoreSaving, StoreThrows, ImportSaved, RecodeSaved, WriteFails, save,
        importExistingAs, killAccount, killUnknown, killAccountThrows, allVars, kmVars
<1>. QED
  BY <1>3, <1>4, <1>5, <1>6, <1>7, <1>8, <1>9, <1>10, <1>11, <1>12 DEF KMNext

(* What write(key, ..) makes of the keys file. *)
LEMMA KeysWritten ==
    ASSUME WriteKeys
    PROVE  keysFile' = Contents \/ (keysFile' \in {None, TornKeys} /\ "full" \in Faults)
BY DEF WriteKeys, FileAfter

LEMMA FilesTyped ==
    ASSUME KMTypes, [KMNext]_allVars PROVE FileTypes'
<1> USE DEF KMTypes
<1>1. CASE UNCHANGED files
  BY <1>1 DEF files, FileTypes
<1>2. ASSUME NEW s \in Salts, WriteSalt(s) PROVE FileTypes'
  BY <1>2 DEF WriteSalt, FileAfter, SaltContents, FileTypes
<1>3. CASE WriteKeys
  <2>1. saltFile' = saltFile /\ doing.pass \in Passes /\ doing.salt \in SaltContents
    BY <1>3 DEF WriteKeys, DoingType
  <2>2. Contents.pass = doing.pass /\ Contents.salt = doing.salt /\ Contents.default = m_default
    BY DEF Contents
  <2>3. ASSUME NEW i \in Contents.infos
        PROVE  i.addr \in Addrs /\ i.uuid \in Uuids \cup {None} /\ i.hash \in Hashes \cup {UnknownPassword}
    <3>1. PICK a \in Addrs : /\ m_keyInfo[a] # None
                             /\ i = [addr |-> a, uuid |-> m_addrLookup[a], hash |-> m_keyInfo[a]]
      BY DEF Contents
    <3>. QED
      BY <3>1 DEF LookupTypes
  <2>4. CASE keysFile' = Contents
    BY <2>1, <2>2, <2>3, <2>4 DEF FileTypes, PasswordTypes
  <2>5. CASE keysFile' \in {None, TornKeys}
    BY <2>1, <2>5 DEF FileTypes, TornKeys, SaltContents
  <2>. QED
    BY <1>3, <2>4, <2>5, KeysWritten
<1>. QED
  BY <1>1, <1>2, <1>3, FileCases

(* What an operation that is cut short leaves in the history. *)
LEMMA DamageTypes == ASSUME DoingType, HistoryTypes, Damage PROVE broken' \subseteq Addrs /\ pairBroken' \in BOOLEAN
BY DEF Damage, DoingType, HistoryTypes

LEMMA FailsTypes == ASSUME HistoryTypes, Fails PROVE failures' \in 0 .. MaxFailures
BY KMAssumption DEF Fails, HistoryTypes

LEMMA HistoryTyped ==
    ASSUME IdentityInv, KMTypes, [KMNext]_allVars PROVE HistoryTypes'
<1> USE DEF KMTypes
<1>1. CASE UNCHANGED history
  BY <1>1 DEF history, HistoryTypes
<1>2. CASE End \/ StoreThrows \/ WriteFails
  BY <1>2, DamageTypes, FailsTypes DEF End, StoreThrows, WriteFails, HistoryTypes
<1>3. CASE WriteKeys
  BY <1>3 DEF WriteKeys, Paired, HistoryTypes
<1>4. ASSUME NEW u \in Uuids, NEW p \in Passes, importExisting(u, p) PROVE HistoryTypes'
  BY <1>4, ExistingSecret DEF importExisting, HistoryTypes
<1>5. ASSUME NEW a \in Addrs,
             killAccountThrows(a) \/ \E p, q \in Passes : recodeAccount(a, p, q)
      PROVE  HistoryTypes'
  BY <1>5, FailsTypes DEF killAccountThrows, recodeAccount, HistoryTypes
<1>6. CASE \/ Construct \/ Query \/ StoreSaving \/ LoadSaved \/ ImportSaved \/ RecodeSaved
           \/ (\E s \in Salts : WriteSalt(s))
           \/ UNCHANGED allVars
           \/ \E p \in Passes : create(p) \/ save(p) \/ LoadAccepted(p) \/ LoadRejected(p) \/ notePassword(p)
           \/ \E s \in Secrets, p \in Passes : import(s, p)
           \/ \E u \in Uuids, a \in Addrs : importExistingAs(u, a)
           \/ \E a \in Addrs \ {ZeroAddress}, p \in Passes, c \in BOOLEAN : secretOf(a, p, c)
           \/ \E a \in Addrs \ {ZeroAddress} : killAccount(a) \/ killUnknown(a)
  BY <1>1, <1>6 DEF Construct, Query, StoreSaving, LoadSaved, ImportSaved, RecodeSaved, WriteSalt, create, save,
        LoadAccepted, LoadRejected, notePassword, import, importExistingAs, secretOf, killAccount,
        killUnknown, allVars, kmVars
<1>. QED
  BY <1>2, <1>3, <1>4, <1>5, <1>6 DEF KMNext

(* An operation begins or ends; the store changes `up` only with the       *)
(* process.                                                                *)
LEMMA UpCases == ASSUME TypeOK, KMTypes, [KMNext]_allVars PROVE up' = up \/ Construct \/ End
<1>1. CASE UNCHANGED vars
  BY <1>1 DEF vars
<1>2. CASE \E s \in Secrets, p \in Passes : import(s, p)
  BY <1>2 DEF import, importSecret, BeginSave
<1>3. CASE StoreSaving \/ StoreThrows \/ LoadSaved \/ ImportSaved \/ RecodeSaved
  BY <1>3, SaveStepCases DEF StoreSaving, StoreThrows, LoadSaved, ImportSaved, RecodeSaved, SaveOpen, SaveWritten,
        SaveWriteShort, SwapFilename, SaveRemoveOld, SaveReturn, SaveThrows, SaveOpenFails, SaveRemoveFails
<1>4. CASE \/ Query \/ (\E s \in Salts : WriteSalt(s)) \/ WriteKeys \/ WriteFails
           \/ \E p \in Passes : create(p) \/ save(p) \/ LoadRejected(p) \/ notePassword(p)
           \/ \E u \in Uuids, a \in Addrs : importExistingAs(u, a)
  BY <1>1, <1>4 DEF Query, WriteSalt, WriteKeys, WriteFails, create, save, LoadRejected, notePassword,
              importExistingAs, allVars
<1>5. CASE \/ \E u \in Uuids, p \in Passes : importExisting(u, p)
           \/ \E a \in Addrs, p \in Passes, c \in BOOLEAN : secretOf(a, p, c)
           \/ \E a \in Addrs, p, q \in Passes : recodeAccount(a, p, q)
           \/ \E a \in Addrs : killAccount(a) \/ killUnknown(a) \/ killAccountThrows(a)
  BY <1>1, <1>5 DEF importExisting, secretOf, recodeAccount, killAccount, killUnknown, killAccountThrows,
              secret, recode, kill, killThrows, BeginSave
<1>6. ASSUME NEW p \in Passes, LoadAccepted(p) PROVE up' = up
  <2>1. UNCHANGED vars \/ BeginSave
    BY <1>6 DEF LoadAccepted
  <2>. QED
    BY <2>1 DEF BeginSave, vars
<1>7. CASE UNCHANGED allVars
  BY <1>1, <1>7 DEF allVars
<1>. QED
  BY <1>2, <1>3, <1>4, <1>5, <1>6, <1>7 DEF KMNext

(* The steps that are part of no operation, or of one that goes on. *)
Elsewhere ==
    \/ Query \/ StoreSaving \/ UNCHANGED allVars
    \/ \E p \in Passes : notePassword(p)
    \/ \E a \in Addrs \ {ZeroAddress}, p \in Passes, c \in BOOLEAN : secretOf(a, p, c)
    \/ \E a \in Addrs \ {ZeroAddress} : killAccountThrows(a)

LEMMA ElsewhereKeeps ==
    Elsewhere => UNCHANGED <<m_default, m_keysFileKey, m_master, files, doing, loaded, pairBroken>>
BY DEF Elsewhere, Query, StoreSaving, notePassword, secretOf, killAccountThrows, allVars, kmVars, passwords, history

(* The steps that end an operation on accounts by writing the keys file. *)
Ending ==
    \/ ImportSaved \/ RecodeSaved
    \/ \E u \in Uuids, p \in Passes : importExisting(u, p)
    \/ \E u \in Uuids, a \in Addrs : importExistingAs(u, a)
    \/ \E a \in Addrs \ {ZeroAddress} : killAccount(a) \/ killUnknown(a)

LEMMA EndingWrites ==
    ASSUME KMTypes, Ending
    PROVE  /\ UNCHANGED <<m_default, m_keysFileKey, m_master, files, loaded, pairBroken>>
           /\ doing.step # "rekey"
           /\ \E a \in Addrs \cup {None} : Write(a)
<1> USE DEF KMTypes
<1>1. CASE ImportSaved \/ RecodeSaved
  BY <1>1 DEF ImportSaved, RecodeSaved, DoingType, Life, passwords, history
<1>2. CASE ~(ImportSaved \/ RecodeSaved)
  <2>1. Ready /\ (\E a \in Addrs \cup {None} : Write(a))
    BY <1>2 DEF Ending, importExisting, importExistingAs, killAccount, killUnknown
  <2>2. doing.step # "rekey"
    BY <2>1 DEF Ready, Resting, Rest, At
  <2>3. UNCHANGED <<m_default, m_keysFileKey, m_master, files, loaded, pairBroken>>
    BY <1>2 DEF Ending, importExisting, importExistingAs, killAccount, killUnknown, passwords, history
  <2>. QED
    BY <2>1, <2>2, <2>3
<1>. QED
  BY <1>1, <1>2

(* write() without a key leaves the file alone, otherwise it keeps the key. *)
LEMMA WriteDoing ==
    ASSUME PasswordTypes, NEW a \in Addrs \cup {None}, Write(a)
    PROVE  /\ DoingType' /\ doing'.step \in {"rest", "keys"}
           /\ doing'.step = "keys" => m_keysFileKey = <<doing'.pass, doing'.salt>>
<1>1. CASE m_keysFileKey = None
  BY <1>1 DEF Write, Rest, At, DoingType
<1>2. CASE m_keysFileKey # None
  <2>1. m_keysFileKey = <<m_keysFileKey[1], m_keysFileKey[2]>> /\ m_keysFileKey[1] \in Passes /\ m_keysFileKey[2] \in SaltContents
    BY <1>2 DEF PasswordTypes
  <2>2. doing' = At("keys", a, None, m_keysFileKey[1], m_keysFileKey[2])
    BY <1>2 DEF Write
  <2>3. doing'.step = "keys" /\ doing'.addr = a /\ doing'.pass = m_keysFileKey[1] /\ doing'.salt = m_keysFileKey[2]
    BY <2>2, AtFields
  <2>. QED
    BY <2>1, <2>3 DEF DoingType
<1>. QED
  BY <1>1, <1>2

LEMMA EndingUp == Ending => up
BY DEF Ending, ImportSaved, RecodeSaved, SaveReturn, importExisting, importExistingAs, killAccount, killUnknown,
       Ready, Resting, Idle

LEMMA LifeKept ==
    ASSUME TypeOK, KMTypes, [KMNext]_allVars PROVE DoingType' /\ Life'
<1> USE DEF KMTypes
<1>0. Rest.step = "rest"
  BY DEF Rest, At
<1>1. ASSUME Elsewhere, up' = up PROVE DoingType' /\ Life'
  <2>1. UNCHANGED <<doing, loaded, saltFile, keysFile>>
    BY <1>1, ElsewhereKeeps DEF files
  <2>. QED
    BY <1>1, <2>1 DEF DoingType, Life
<1>2. ASSUME Ending, up' = up PROVE DoingType' /\ Life'
  <2>1. /\ DoingType' /\ doing'.step \in {"rest", "keys"}
        /\ UNCHANGED <<loaded, keysFile>> /\ up
    BY <1>2, EndingWrites, EndingUp, WriteDoing DEF files
  <2>. QED
    BY <1>2, <2>1 DEF Life
<1>3. ASSUME StoreThrows \/ WriteFails, up' = up PROVE DoingType' /\ Life'
  <2>1. doing' = Rest /\ UNCHANGED <<loaded, saltFile, keysFile>>
    BY <1>3 DEF StoreThrows, WriteFails, files
  <2>. QED
    BY <1>0, <1>3, <2>1 DEF DoingType, Life
<1>4. ASSUME NEW s \in Salts, WriteSalt(s), up' = up PROVE DoingType' /\ Life'
  <2>1. /\ doing'.step = "rekey" /\ doing'.pass = doing.pass /\ doing'.salt = s /\ doing.step = "salt"
        /\ UNCHANGED <<loaded, keysFile>> /\ up
    BY <1>4, AtFields DEF WriteSalt
  <2>. QED
    BY <1>4, <2>1 DEF DoingType, Life, SaltContents
<1>5. ASSUME WriteKeys, up' = up PROVE DoingType' /\ Life'
  <2>1. doing' = Rest /\ loaded' = (loaded \/ doing.step = "rekey") /\ up
    BY <1>5 DEF WriteKeys
  <2>. QED
    BY <1>0, <1>5, <2>1 DEF DoingType, Life
<1>6. ASSUME NEW p \in Passes, create(p) \/ save(p), up' = up PROVE DoingType' /\ Life'
  <2>1. doing'.step = "salt" /\ doing'.pass = p /\ UNCHANGED <<loaded, keysFile>> /\ up
    BY <1>6, AtFields DEF create, save, Ready, Opening, Resting, Idle, files
  <2>. QED
    BY <1>6, <2>1 DEF DoingType, Life
<1>7. ASSUME NEW p \in Passes, LoadRejected(p), up' = up PROVE DoingType' /\ Life'
  BY <1>7 DEF LoadRejected, files, DoingType, Life
<1>8. ASSUME NEW p \in Passes, LoadAccepted(p), up' = up PROVE DoingType' /\ Life'
  <2>1. keysFile # None /\ keysFile' = keysFile /\ up
    BY <1>8 DEF LoadAccepted, files, Opening, Resting, Idle
  <2>2. \/ doing' = Rest /\ loaded'
        \/ doing'.step = "load" /\ doing'.pass = p /\ loaded' = loaded
    BY <1>8, AtFields DEF LoadAccepted, Loaded
  <2>3. loaded' \in BOOLEAN
    BY <1>8 DEF LoadAccepted, Loaded, Life
  <2>. QED
    BY <1>0, <1>8, <2>1, <2>2, <2>3 DEF DoingType, Life
<1>9. ASSUME LoadSaved, up' = up PROVE DoingType' /\ Life'
  <2>1. doing' = Rest /\ loaded' = TRUE /\ keysFile # None /\ keysFile' = keysFile /\ up
    BY <1>9 DEF LoadSaved, Loaded, SaveReturn, files, Life
  <2>. QED
    BY <1>0, <1>9, <2>1 DEF DoingType, Life
<1>10. ASSUME NEW s \in Secrets, NEW p \in Passes, import(s, p), up' = up PROVE DoingType' /\ Life'
  <2>1. PICK u \in Uuids : doing' = At("import", AddressOf[s], u, p, None)
    BY <1>10 DEF import
  <2>2. doing'.step = "import" /\ doing'.addr = AddressOf[s] /\ doing'.uuid = u /\ doing'.pass = p
    BY <2>1, AtFields
  <2>3. AddressOf[s] \in Addrs
    BY DEF Addrs
  <2>. QED
    BY <1>10, <2>2, <2>3 DEF import, Ready, Resting, Idle, files, DoingType, Life
<1>11. ASSUME NEW a \in Addrs, NEW p \in Passes, NEW q \in Passes, recodeAccount(a, p, q), up' = up
       PROVE  DoingType' /\ Life'
  <2>1. doing'.step = "recode" /\ doing'.addr = a /\ doing'.pass = q
    BY <1>11, AtFields DEF recodeAccount
  <2>. QED
    BY <1>11, <2>1 DEF recodeAccount, Ready, Resting, Idle, files, DoingType, Life
<1>12. CASE Construct
  BY <1>12 DEF Construct, Start, files, DoingType, Life
<1>13. CASE End
  <2>1. doing' = Rest /\ loaded' = FALSE /\ UNCHANGED <<saltFile, keysFile>>
    BY <1>13 DEF End, files
  <2>. QED
    BY <1>0, <2>1 DEF DoingType, Life
<1>. QED
  BY <1>1, <1>2, <1>3, <1>4, <1>5, <1>6, <1>7, <1>8, <1>9, <1>10, <1>11, <1>12, <1>13, UpCases
     DEF KMNext, Elsewhere, Ending

(* Orderly callers load or create the keys file before they use it. *)
LEMMA EndingLoaded == ASSUME Orderly, Ordered, Ending PROVE loaded
BY DEF Ending, ImportSaved, RecodeSaved, importExisting, importExistingAs, killAccount, killUnknown, Ready, Ordered

LEMMA OrderedKept ==
    ASSUME Orderly, KMTypes, Ordered, [KMNext]_allVars PROVE Ordered'
<1> USE DEF KMTypes
<1>0. Rest.step = "rest" /\ (doing = Rest => doing.step = "rest")
  BY DEF Rest, At
<1>1. ASSUME Elsewhere PROVE Ordered'
  <2>1. UNCHANGED <<doing, loaded, saltFile, keysFile>>
    BY <1>1, ElsewhereKeeps DEF files
  <2>. QED
    BY <2>1 DEF Ordered
<1>2. ASSUME Ending PROVE Ordered'
  <2>1. loaded
    BY <1>2, EndingLoaded
  <2>2. doing'.step \in {"rest", "keys"} /\ UNCHANGED <<loaded, saltFile, keysFile>>
    BY <1>2, EndingWrites, WriteDoing DEF files
  <2>. QED
    BY <2>1, <2>2 DEF Ordered
<1>3. ASSUME StoreThrows \/ WriteFails PROVE Ordered'
  <2>1. doing' = Rest /\ UNCHANGED <<loaded, saltFile, keysFile>>
    BY <1>3 DEF StoreThrows, WriteFails, files
  <2>. QED
    BY <1>0, <2>1 DEF Ordered
<1>4. ASSUME NEW s \in Salts, WriteSalt(s) PROVE Ordered'
  <2>1. doing'.step = "rekey" /\ doing.step = "salt" /\ UNCHANGED <<loaded, keysFile>>
    BY <1>4, AtFields DEF WriteSalt
  <2>2. "full" \notin Faults => saltFile' # None
    BY <1>4, KMAssumption DEF WriteSalt, FileAfter
  <2>. QED
    BY <2>1, <2>2 DEF Ordered
<1>5. ASSUME WriteKeys PROVE Ordered'
  <2>1. doing' = Rest /\ saltFile' = saltFile /\ doing.step \in {"keys", "rekey"}
    BY <1>5 DEF WriteKeys
  <2>. QED
    BY <1>0, <2>1 DEF Ordered
<1>6. ASSUME NEW p \in Passes, create(p) \/ save(p) PROVE Ordered'
  <2>1. /\ doing'.step = "salt" /\ UNCHANGED <<loaded, saltFile, keysFile>>
        /\ loaded \/ saltFile = None \/ keysFile = None
    BY <1>6, AtFields DEF create, save, Ready, files, exists
  <2>. QED
    BY <2>1 DEF Ordered
<1>7. ASSUME NEW p \in Passes, LoadRejected(p) PROVE Ordered'
  BY <1>7 DEF LoadRejected, files, Ordered
<1>8. ASSUME NEW p \in Passes, LoadAccepted(p) PROVE Ordered'
  <2>1. keysFile # None /\ UNCHANGED <<saltFile, keysFile>> /\ ~loaded
    BY <1>8 DEF LoadAccepted, Opening, files
  <2>2. \/ doing' = Rest
        \/ doing'.step = "load" /\ loaded' = loaded
    BY <1>8, AtFields DEF LoadAccepted, Loaded
  <2>. QED
    BY <1>0, <2>1, <2>2 DEF Ordered
<1>9. ASSUME LoadSaved PROVE Ordered'
  <2>1. doing' = Rest /\ keysFile # None /\ UNCHANGED <<saltFile, keysFile>>
    BY <1>9 DEF LoadSaved, Loaded, files, Life
  <2>. QED
    BY <1>0, <2>1 DEF Ordered
<1>10. ASSUME \/ \E s \in Secrets, p \in Passes : import(s, p)
              \/ \E a \in Addrs, p, q \in Passes : recodeAccount(a, p, q)
       PROVE  Ordered'
  <2>1. doing'.step \in {"import", "recode"} /\ loaded /\ UNCHANGED <<loaded, saltFile, keysFile>>
    BY <1>10, AtFields DEF import, recodeAccount, Ready, files
  <2>. QED
    BY <2>1 DEF Ordered
<1>11. ASSUME Construct PROVE Ordered'
  BY <1>11 DEF Construct, files, Ordered
<1>12. ASSUME End PROVE Ordered'
  <2>1. doing' = Rest /\ loaded' = FALSE /\ UNCHANGED <<saltFile, keysFile>>
    BY <1>12 DEF End, files
  <2>. QED
    BY <1>0, <2>1 DEF Ordered
<1>. QED
  BY <1>1, <1>2, <1>3, <1>4, <1>5, <1>6, <1>7, <1>8, <1>9, <1>10, <1>11, <1>12 DEF KMNext, Elsewhere, Ending

-----------------------------------------------------------------------------
(* The salt file and the keys file.  What a completed rekeying wrote is    *)
(* what the next write uses: KeyPoint follows the key from the master      *)
(* password through the steps of write() and load().                       *)

LEMMA KeyPointKept ==
    ASSUME Orderly, KMTypes, Ordered, KeyPoint, KeysFileOpens, [KMNext]_allVars
    PROVE  KeyPoint' /\ KeysFileOpens'
<1> USE DEF KMTypes
<1> DEFINE G == KeyPoint' /\ KeysFileOpens'
<1>0. Rest.step = "rest"
  BY DEF Rest, At
<1>1. ASSUME Elsewhere PROVE G
  <2>1. UNCHANGED <<m_keysFileKey, m_master, saltFile, keysFile, doing, loaded, pairBroken>>
    BY <1>1, ElsewhereKeeps DEF files
  <2>. QED
    BY <2>1 DEF KeyPoint, KeysFileOpens, Opens
<1>2. ASSUME Ending PROVE G
  <2>1. /\ UNCHANGED <<m_keysFileKey, m_master, saltFile, keysFile, loaded, pairBroken>>
        /\ doing.step # "rekey" /\ doing'.step \in {"rest", "keys"}
        /\ doing'.step = "keys" => m_keysFileKey = <<doing'.pass, doing'.salt>>
    BY <1>2, EndingWrites, WriteDoing DEF files
  <2>. QED
    BY <2>1 DEF KeyPoint, KeysFileOpens
<1>3. ASSUME StoreThrows \/ WriteFails PROVE G
  <2>1. /\ UNCHANGED <<m_keysFileKey, m_master, saltFile, keysFile, loaded>>
        /\ doing' = Rest /\ pairBroken' = (pairBroken \/ doing.step = "rekey")
    BY <1>3 DEF StoreThrows, WriteFails, Damage, files, passwords
  <2>. QED
    BY <1>0, <2>1 DEF KeyPoint, KeysFileOpens
<1>4. ASSUME NEW s \in Salts, WriteSalt(s) PROVE G
  <2>1. doing'.step = "rekey" /\ doing'.pass = doing.pass /\ m_master' = <<m_default, doing.pass>>
    BY <1>4, AtFields DEF WriteSalt, hashPassword
  <2>. QED
    BY <2>1 DEF KeyPoint, KeysFileOpens
<1>5. ASSUME WriteKeys PROVE G
  <2>1. /\ doing' = Rest /\ saltFile' = saltFile /\ m_master' = m_master
        /\ m_keysFileKey' = <<doing.pass, doing.salt>>
        /\ doing.step \in {"keys", "rekey"}
        /\ ~pairBroken' => /\ keysFile' = Contents
                           /\ pairBroken => doing.step = "rekey"
                           /\ doing.step = "rekey" => saltFile = doing.salt
    BY <1>5 DEF WriteKeys, Paired
  <2>2. Contents.pass = doing.pass /\ Contents.salt = doing.salt
    BY DEF Contents
  <2>3. CASE doing.step = "rekey"
    BY <1>0, <2>1, <2>2, <2>3 DEF KeyPoint, KeysFileOpens
  <2>4. CASE doing.step = "keys"
    <3>1. ~pairBroken => doing.pass = m_master[2] /\ doing.salt = saltFile
      BY <2>4 DEF KeyPoint, Ordered
    <3>. QED
      BY <1>0, <2>1, <2>2, <2>4, <3>1 DEF KeyPoint, KeysFileOpens
  <2>. QED
    BY <2>1, <2>3, <2>4
<1>6. ASSUME NEW p \in Passes, create(p) \/ save(p) PROVE G
  <2>1. /\ doing'.step = "salt" /\ doing = Rest
        /\ UNCHANGED <<m_keysFileKey, m_master, saltFile, keysFile, loaded, pairBroken>>
    BY <1>6, AtFields DEF create, save, Ready, Opening, Resting, files, passwords, history
  <2>. QED
    BY <1>0, <2>1 DEF KeyPoint, KeysFileOpens
<1>7. ASSUME NEW p \in Passes, LoadRejected(p) PROVE G
  <2>1. /\ doing' = Rest /\ doing = Rest /\ ~loaded'
        /\ UNCHANGED <<m_master, saltFile, keysFile, loaded, pairBroken>>
    BY <1>7 DEF LoadRejected, Opening, Resting, files, history
  <2>. QED
    BY <1>0, <2>1 DEF KeyPoint, KeysFileOpens
<1>8. ASSUME NEW p, Loaded(p), Opens(p), m_keysFileKey' = <<p, saltFile>>, UNCHANGED files PROVE G
  <2>1. /\ doing' = Rest /\ UNCHANGED <<saltFile, keysFile>> /\ m_master'[2] = p
        /\ keysFile.pass = p /\ keysFile.salt = saltFile
    BY <1>8 DEF Loaded, files, Opens
  <2>. QED
    BY <1>0, <1>8, <2>1 DEF KeyPoint, KeysFileOpens
<1>9. ASSUME NEW p \in Passes, LoadAccepted(p) PROVE G
  <2>1. Opens(p) /\ m_keysFileKey' = <<p, saltFile>> /\ UNCHANGED files /\ ~loaded
    BY <1>9 DEF LoadAccepted, Opening
  <2>2. CASE Loaded(p)
    BY <1>8, <2>1, <2>2
  <2>3. CASE ~Loaded(p)
    <3>1. doing'.step = "load" /\ doing'.pass = p /\ loaded' = loaded
      BY <1>9, <2>3, AtFields DEF LoadAccepted
    <3>. QED
      BY <2>1, <3>1 DEF KeyPoint, KeysFileOpens, Opens, files
  <2>. QED
    BY <2>2, <2>3
<1>10. ASSUME LoadSaved PROVE G
  <2>1. Loaded(doing.pass) /\ UNCHANGED files /\ m_keysFileKey' = m_keysFileKey /\ doing.step = "load"
    BY <1>10 DEF LoadSaved
  <2>. QED
    BY <1>8, <2>1 DEF KeyPoint
<1>11. ASSUME \/ \E s \in Secrets, p \in Passes : import(s, p)
              \/ \E a \in Addrs, p, q \in Passes : recodeAccount(a, p, q)
       PROVE  G
  <2>1. /\ doing'.step \in {"import", "recode"} /\ doing = Rest
        /\ UNCHANGED <<m_keysFileKey, m_master, saltFile, keysFile, loaded, pairBroken>>
    BY <1>11, AtFields DEF import, recodeAccount, Ready, Resting, files, history
  <2>. QED
    BY <1>0, <2>1 DEF KeyPoint, KeysFileOpens
<1>12. ASSUME Construct PROVE G
  BY <1>12 DEF Construct, files, passwords, history, KeyPoint, KeysFileOpens, Opens
<1>13. ASSUME End PROVE G
  <2>1. /\ doing' = Rest /\ loaded' = FALSE /\ UNCHANGED <<saltFile, keysFile>>
        /\ pairBroken' = (pairBroken \/ doing.step = "rekey")
    BY <1>13 DEF End, Damage, files
  <2>. QED
    BY <1>0, <2>1 DEF KeyPoint, KeysFileOpens
<1> HIDE DEF G
<1>. QED
  BY <1>1, <1>2, <1>3, <1>4, <1>5, <1>6, <1>7, <1>9, <1>10, <1>11, <1>12, <1>13
     DEF KMNext, Elsewhere, Ending, G

-----------------------------------------------------------------------------
(* The lookups *)

(* Which keys there are is changed by an import, by kill, and when the     *)
(* process starts or ends.                                                 *)
LEMMA StoredCases ==
    ASSUME IdentityInv, KMTypes, InfosRight, [KMNext]_allVars
    PROVE  \/ Stored' = Stored
           \/ \E s \in Secrets, p \in Passes : import(s, p)
           \/ Construct \/ End
           \/ \E a \in Addrs \ {ZeroAddress} : killAccount(a)
<1> DEFINE G == Stored' = Stored
<1> USE DEF KMTypes, IdentityInv, TypeInv
<1>1. ASSUME UNCHANGED vars PROVE G
  BY <1>1 DEF vars, Stored
<1>2. ASSUME NEW u \in Uuids, NEW p \in Passes \cup {None}, NEW c \in BOOLEAN, secret(u, p, c) PROVE G
  <2>1. CASE p \in Passes
    BY <1>2, <2>1, SecretStores
  <2>2. CASE p = None
    BY <1>2, <2>2, EmptyPassword DEF secret, KeysAfter, Stored
  <2>. QED
    BY <2>1, <2>2
<1>3. ASSUME NEW u \in Uuids, NEW p \in Passes \cup {None}, NEW q \in Passes, recode(u, p, q) PROVE G
  <2>1. CASE p \in Passes
    BY <1>3, <2>1, RecodeStores
  <2>2. CASE p = None
    <3>1. recode(u, q, q)
      BY <1>3, <2>2, RecodeEmpty
    <3>. QED
      BY <3>1, RecodeStores
  <2>. QED
    BY <2>1, <2>2
<1>4. ASSUME NEW a \in Addrs, m_addrLookup[a] # None, NEW p \in Passes
      PROVE  m_addrLookup[a] \in Uuids /\ getPassword(m_addrLookup[a], p) \in Passes \cup {None}
  BY <1>4, PasswordType DEF LookupTypes
<1>5. ASSUME NEW a \in Addrs, NEW p \in Passes, NEW c \in BOOLEAN, secretOf(a, p, c) PROVE G
  <2> DEFINE asked == IF c THEN getPassword(m_addrLookup[a], p) ELSE p
  <2>1. m_addrLookup[a] \in Uuids /\ asked \in Passes \cup {None}
    BY <1>4, <1>5 DEF secretOf
  <2>2. secret(m_addrLookup[a], asked, c)
    BY <1>5 DEF secretOf
  <2> HIDE DEF asked
  <2>. QED
    BY <1>2, <2>1, <2>2
<1>6. ASSUME NEW a \in Addrs, NEW p \in Passes, NEW q \in Passes, recodeAccount(a, p, q) PROVE G
  BY <1>3, <1>4, <1>6 DEF recodeAccount
<1>7. ASSUME NEW u \in Uuids, NEW p \in Passes, importExisting(u, p) PROVE G
  BY <1>2, <1>7 DEF importExisting
<1>8. ASSUME NEW a \in Addrs, killUnknown(a) \/ killAccountThrows(a) PROVE G
  BY <1>1, <1>8 DEF killUnknown, killAccountThrows, killThrows, Stored
<1>9. ASSUME StoreSaving \/ StoreThrows \/ LoadSaved \/ ImportSaved \/ RecodeSaved PROVE G
  BY <1>9, SaveKeepsKeys DEF StoreSaving, StoreThrows, LoadSaved, ImportSaved, RecodeSaved
<1>10. ASSUME NEW p \in Passes, LoadAccepted(p) PROVE G
  <2>1. CASE Unaddressed = {}
    BY <1>1, <1>10, <2>1 DEF LoadAccepted
  <2>. QED
    BY <1>10, <2>1, NoteAddresses
<1>11. ASSUME \/ Query \/ (\E s \in Salts : WriteSalt(s)) \/ WriteKeys \/ WriteFails \/ UNCHANGED allVars
              \/ \E p \in Passes : create(p) \/ save(p) \/ LoadRejected(p) \/ notePassword(p)
              \/ \E u \in Uuids, a \in Addrs : importExistingAs(u, a)
       PROVE  G
  BY <1>1, <1>11 DEF Query, WriteSalt, WriteKeys, WriteFails, create, save, LoadRejected, notePassword,
              importExistingAs, allVars
<1> HIDE DEF G
<1>12. ASSUME KMNext
       PROVE  \/ G \/ (\E s \in Secrets, p \in Passes : import(s, p)) \/ Construct \/ End
              \/ \E a \in Addrs \ {ZeroAddress} : killAccount(a)
  BY <1>5, <1>6, <1>7, <1>8, <1>9, <1>10, <1>11, <1>12 DEF KMNext
<1>. QED
  BY <1>11, <1>12 DEF G

LEMMA CopyIds == ASSUME TypeOK, NEW c \in Copies PROVE c.id \in Uuids
<1>1. CASE \E u \in Stored : c = FileOf(u)
  BY <1>1 DEF FileOf, Stored
<1>2. CASE \E f \in FileNames : Readable(f) /\ c = disk[f]
  BY <1>2 DEF Readable, TypeOK, KeyFile
<1>3. CASE c \in KeyFiles
  BY <1>3, KeyFilesType DEF KeyFile
<1>. QED
  BY <1>1, <1>2, <1>3 DEF Copies

LEMMA KeyOfStored ==
    ASSUME KeyIdentity, NEW u \in Stored PROVE KeyOfAddr(u, AddressOf[m_keys[u].sec])
BY MemoryCopy DEF KeyOfAddr, KeyIdentity, OneSecretPerUuid

(* What is known of a key that is stored or named by the keys file stays   *)
(* true.                                                                   *)
Named(u) == u \in Stored \/ (keysFile # None /\ \E i \in keysFile.infos : i.uuid = u)

LEMMA KeyStays ==
    ASSUME IdentityInv, KMTypes, InfosRight, [KMNext]_allVars,
           NEW u, NEW a, Named(u), KeyOfAddr(u, a)
    PROVE  KeyOfAddr(u, a)'
<1>1. ASSUME NEW s \in Secrets, NEW p \in Passes, import(s, p) PROVE NoNewKey(u)
  BY <1>1, KeyMade DEF Named
<1>2. NoNewKey(u)
  BY <1>1, NoKeyMade
<1>. QED
  BY <1>2, KeyOfAddrKept

LEMMA StoredGrows ==
    ASSUME IdentityInv, KMTypes, InfosRight, [KMNext]_allVars
    PROVE  \/ Stored \subseteq Stored' \/ Construct \/ End
           \/ \E a \in Addrs \ {ZeroAddress} : killAccount(a)
<1>1. ASSUME NEW s \in Secrets, NEW p \in Passes, import(s, p) PROVE Stored \subseteq Stored'
  BY <1>1, KeyMade
<1>. QED
  BY <1>1, StoredCases

(* It is enough to look at each entry by itself. *)
LEMMA LookupEach ==
    ASSUME \A a \in Addrs \ {ZeroAddress} : \A u :
              u = m_addrLookup'[a] /\ u # None => u \in Stored' /\ KeyOfAddr(u, a)'
    PROVE  LookupRight'
BY DEF LookupRight, KeyOfAddr

LEMMA LookupRightKept ==
    ASSUME Honest, IdentityInv, IdentityInv', KMTypes, LookupRight, InfosRight, ImportRight, [KMNext]_allVars
    PROVE  LookupRight'
<1> DEFINE Right(u, a) == u \in Stored' /\ KeyOfAddr(u, a)'
<1>1. ASSUME NEW a \in Addrs \ {ZeroAddress}, NEW u, u = m_addrLookup[a], u # None
      PROVE  u \in Stored /\ KeyOfAddr(u, a) /\ KeyOfAddr(u, a)'
  <2>1. u \in Stored /\ KeyOfAddr(u, a)
    BY <1>1 DEF LookupRight
  <2>. QED
    BY <2>1, KeyStays DEF Named
<1>2. CASE Construct
  <2> SUFFICES ASSUME NEW a \in Addrs \ {ZeroAddress}, NEW u, u = m_addrLookup'[a], u # None PROVE Right(u, a)
    BY LookupEach
  <2>1. u \in Uuids /\ m_keys'[u] # None /\ m_keys'[u].addr = a
    BY <1>2 DEF Construct
  <2>2. u \in Stored'
    BY <2>1 DEF Stored
  <2>3. /\ FileOf(u)' \in Copies' /\ FileOf(u)'.id = u
        /\ FileOf(u)'.sec = m_keys'[u].sec /\ FileOf(u)'.addr = m_keys'[u].addr
    BY <2>2 DEF Copies, FileOf
  <2>4. AddressOf[m_keys'[u].sec] = a
    BY <2>1, <2>3 DEF IdentityInv, KeyIdentity, AddressesRight
  <2>5. ASSUME NEW c \in Copies', c.id = u PROVE c.sec = m_keys'[u].sec
    BY <2>3, <2>5 DEF IdentityInv, KeyIdentity, OneSecretPerUuid
  <2>. QED
    BY <2>2, <2>4, <2>5 DEF KeyOfAddr
<1>3. CASE End
  BY <1>3, LookupEach DEF End, NoAddrs
<1>4. ASSUME NEW a \in Addrs \ {ZeroAddress}, killAccount(a) PROVE LookupRight'
  <2> SUFFICES ASSUME NEW b \in Addrs \ {ZeroAddress}, NEW u, u = m_addrLookup'[b], u # None PROVE Right(u, b)
    BY LookupEach
  <2>1. b # a /\ u = m_addrLookup[b] /\ m_addrLookup[a] # None
    BY <1>4 DEF killAccount, Forget, KMTypes, LookupTypes
  <2>2. u \in Stored /\ KeyOfAddr(u, b) /\ KeyOfAddr(u, b)'
    BY <1>1, <2>1
  <2>3. u # m_addrLookup[a]
    <3>1. SUFFICES ASSUME u = m_addrLookup[a] PROVE FALSE
      OBVIOUS
    <3>2. KeyOfAddr(u, a)
      BY <1>1, <3>1
    <3>. QED
      BY <2>1, <2>2, <3>2, MemoryCopy DEF KeyOfAddr
  <2>4. u \in Stored'
    BY <1>4, <2>2, <2>3 DEF killAccount, kill, Stored, IdentityInv, TypeInv, TypeOK
  <2>. QED
    BY <2>2, <2>4
<1>5. SUFFICES ASSUME Stored \subseteq Stored' PROVE LookupRight'
  BY <1>2, <1>3, <1>4, StoredGrows
<1>6. ASSUME NEW a \in Addrs \ {ZeroAddress}, NEW u, u = m_addrLookup[a], u # None PROVE Right(u, a)
  BY <1>1, <1>5, <1>6
<1>7. ASSUME UNCHANGED m_addrLookup PROVE LookupRight'
  BY <1>6, <1>7, LookupEach
<1>8. ASSUME NEW a \in Addrs, NEW u \in Stored, NEW h, KeyOfAddr(u, a), Enter(a, u, h) PROVE LookupRight'
  <2>1. KeyOfAddr(u, a)'
    BY <1>8, KeyStays DEF Named
  <2>2. m_addrLookup' = [m_addrLookup EXCEPT ![a] = u]
    BY <1>8 DEF Enter
  <2> SUFFICES ASSUME NEW b \in Addrs \ {ZeroAddress}, NEW v, v = m_addrLookup'[b], v # None PROVE Right(v, b)
    BY LookupEach
  <2>3. CASE b = a
    BY <1>5, <2>1, <2>2, <2>3 DEF KMTypes, LookupTypes
  <2>4. CASE b # a
    <3>1. v = m_addrLookup[b]
      BY <2>2, <2>4 DEF KMTypes, LookupTypes
    <3>. QED
      BY <1>6, <3>1
  <2>. QED
    BY <2>3, <2>4
<1>9. CASE ImportSaved
  BY <1>8, <1>9 DEF ImportSaved, ImportRight, KMTypes, DoingType
<1>10. ASSUME NEW u \in Uuids, NEW p \in Passes, importExisting(u, p) PROVE LookupRight'
  BY <1>8, <1>10, ExistingSecret, KeyOfStored DEF importExisting, IdentityInv
<1>11. ASSUME NEW u \in Uuids, NEW b \in Addrs, importExistingAs(u, b) PROVE LookupRight'
  <2>1. u \in Stored /\ b = AddressOf[m_keys[u].sec] /\ Enter(b, u, UnknownPassword)
    BY <1>11 DEF importExistingAs
  <2>2. KeyOfAddr(u, b)
    BY <2>1, KeyOfStored DEF IdentityInv
  <2>. QED
    BY <1>8, <2>1, <2>2
<1>12. ASSUME NEW a \in Addrs, killUnknown(a) \/ killAccountThrows(a) PROVE LookupRight'
  <2>1. m_addrLookup' = [m_addrLookup EXCEPT ![a] = None]
    BY <1>12 DEF killUnknown, killAccountThrows, Forget
  <2>2. \A b \in Addrs : m_addrLookup'[b] \in {m_addrLookup[b], None}
    BY <2>1 DEF KMTypes, LookupTypes
  <2>. QED
    BY <1>6, <2>2, LookupEach
<1>13. ASSUME NEW p \in Passes, LoadAccepted(p) PROVE LookupRight'
  <2> SUFFICES ASSUME NEW a \in Addrs \ {ZeroAddress}, NEW u, u = m_addrLookup'[a], u # None PROVE Right(u, a)
    BY LookupEach
  <2>1. CASE \E i \in Known : i.addr = a
    <3>1. PICK i \in Known : i.addr = a /\ u = i.uuid
      BY <1>13, <2>1 DEF LoadAccepted, TakeInfos
    <3>2. i \in keysFile.infos /\ u \in Stored /\ keysFile # None
      BY <1>13, <3>1 DEF Known, LoadAccepted
    <3>3. KeyOfAddr(u, a)
      BY <3>1, <3>2 DEF InfosRight
    <3>. QED
      BY <1>5, <3>2, <3>3, KeyStays DEF Named
  <2>2. CASE ~\E i \in Known : i.addr = a
    <3>1. u = m_addrLookup[a]
      BY <1>13, <2>2 DEF LoadAccepted, TakeInfos
    <3>. QED
      BY <1>6, <3>1
  <2>. QED
    BY <2>1, <2>2
<1>14. CASE LoadSaved \/ RecodeSaved \/ UNCHANGED lookups
  BY <1>7, <1>14 DEF LoadSaved, RecodeSaved, lookups
<1>. QED
  BY <1>2, <1>3, <1>4, <1>9, <1>10, <1>11, <1>12, <1>13, <1>14, LookupCases DEF Recording

LEMMA InfosRightKept ==
    ASSUME IdentityInv, KMTypes, LookupRight, InfosRight, [KMNext]_allVars PROVE InfosRight'
<1>1. CASE keysFile' = keysFile
  <2> SUFFICES ASSUME keysFile # None, NEW i \in keysFile.infos, i.addr # ZeroAddress
               PROVE  KeyOfAddr(i.uuid, i.addr)'
    BY <1>1 DEF InfosRight, KeyOfAddr
  <2>1. KeyOfAddr(i.uuid, i.addr) /\ Named(i.uuid)
    BY DEF InfosRight, Named
  <2>. QED
    BY <2>1, KeyStays
<1>2. CASE WriteKeys
  <2> SUFFICES ASSUME NEW i \in Contents.infos, i.addr # ZeroAddress
               PROVE  \A c \in Copies' : c.id = i.uuid => AddressOf[c.sec] = i.addr
    BY <1>2, KeysWritten DEF TornKeys, InfosRight, KeyOfAddr
  <2>1. PICK a \in Addrs : i = [addr |-> a, uuid |-> m_addrLookup[a], hash |-> m_keyInfo[a]]
    BY DEF Contents
  <2>2. i.addr = a /\ i.uuid = m_addrLookup[a]
    BY <2>1
  <2>3. Copies' = Copies
    BY <1>2 DEF WriteKeys, vars, Copies, Stored, FileOf, Readable
  <2>4. CASE m_addrLookup[a] = None
    BY <2>2, <2>3, <2>4, CopyIds, SentinelAssumption DEF IdentityInv, TypeInv, FileNames
  <2>5. CASE m_addrLookup[a] # None
    BY <2>2, <2>3, <2>5 DEF LookupRight, KeyOfAddr
  <2>. QED
    BY <2>4, <2>5
<1>. QED
  BY <1>1, <1>2, FileCases DEF files, WriteSalt

(* Only import begins an import. *)
LEMMA ImportCases ==
    ASSUME KMTypes, [KMNext]_allVars, doing'.step = "import"
    PROVE  doing' = doing \/ \E s \in Secrets, p \in Passes : import(s, p)
<1>1. Rest.step = "rest"
  BY DEF Rest, At
<1>2. ASSUME Elsewhere PROVE doing' = doing
  BY <1>2, ElsewhereKeeps
<1>3. ASSUME Ending PROVE FALSE
  BY <1>3, EndingWrites, WriteDoing DEF KMTypes
<1>4. ASSUME \/ (\E s \in Salts : WriteSalt(s)) \/ WriteKeys \/ WriteFails \/ StoreThrows \/ LoadSaved \/ End
             \/ \E p \in Passes : create(p) \/ save(p)
             \/ \E a \in Addrs, p, q \in Passes : recodeAccount(a, p, q)
      PROVE  FALSE
  BY <1>1, <1>4, AtFields DEF WriteSalt, WriteKeys, WriteFails, StoreThrows, LoadSaved, Loaded, End, create, save, recodeAccount
<1>5. ASSUME NEW p \in Passes, LoadAccepted(p) PROVE FALSE
  BY <1>1, <1>5, AtFields DEF LoadAccepted, Loaded
<1>6. ASSUME Construct \/ \E p \in Passes : LoadRejected(p) PROVE doing' = doing
  BY <1>6 DEF Construct, LoadRejected
<1>. QED
  BY <1>2, <1>3, <1>4, <1>5, <1>6 DEF KMNext, Elsewhere, Ending

LEMMA ImportRightKept ==
    ASSUME IdentityInv, KMTypes, InfosRight, ImportRight, [KMNext]_allVars PROVE ImportRight'
<1> SUFFICES ASSUME doing'.step = "import"
             PROVE  \A u, a : u = doing'.uuid /\ a = doing'.addr => u \in Stored' /\ KeyOfAddr(u, a)'
  BY DEF ImportRight, KeyOfAddr
<1>1. ASSUME NEW s \in Secrets, NEW p \in Passes, import(s, p)
      PROVE  \A u, a : u = doing'.uuid /\ a = doing'.addr => u \in Stored' /\ KeyOfAddr(u, a)'
  <2>1. PICK u \in Uuids : /\ Stored' = Stored \cup {u} /\ KeyOfAddr(u, AddressOf[s])'
                           /\ doing' = At("import", AddressOf[s], u, p, None)
    BY <1>1, KeyMade
  <2>2. doing'.uuid = u /\ doing'.addr = AddressOf[s]
    BY <2>1, AtFields
  <2>. QED
    BY <2>1, <2>2
<1>2. ASSUME doing' = doing, NEW u, NEW a, u = doing'.uuid, a = doing'.addr PROVE u \in Stored' /\ KeyOfAddr(u, a)'
  <2>1. u \in Stored /\ KeyOfAddr(u, a) /\ doing.step = "import"
    BY <1>2 DEF ImportRight
  <2>2. KeyOfAddr(u, a)'
    BY <2>1, KeyStays DEF Named
  <2>3. up /\ doing # Rest
    BY <2>1 DEF KMTypes, Life, Rest, At
  <2>4. ~Construct
    BY <2>3 DEF Construct, Start
  <2>5. ~End /\ ~\E b \in Addrs \ {ZeroAddress} : killAccount(b)
    BY <1>2, <2>3 DEF End, killAccount, Ready, Resting
  <2>. QED
    BY <2>1, <2>2, <2>4, <2>5, StoredGrows
<1>. QED
  BY <1>1, <1>2, ImportCases

(* The address and the password of an account are entered and forgotten    *)
(* together.                                                               *)
LEMMA EnteredTogether ==
    ASSUME KMTypes, UNCHANGED lookups \/ Recording, ~\E p \in Passes : LoadAccepted(p),
           NEW a \in Addrs, m_addrLookup'[a] # None
    PROVE  m_keyInfo'[a] # None \/ (m_addrLookup[a] # None /\ m_keyInfo'[a] = m_keyInfo[a])
<1> USE DEF KMTypes, LookupTypes
<1>1. CASE UNCHANGED lookups \/ LoadSaved
  BY <1>1 DEF lookups, LoadSaved
<1>2. ASSUME NEW b \in Addrs, NEW u \in Uuids, NEW h \in Hashes \cup {UnknownPassword}, Enter(b, u, h)
      PROVE  m_keyInfo'[a] # None \/ (m_addrLookup[a] # None /\ m_keyInfo'[a] = m_keyInfo[a])
  BY <1>2, HashesKnown DEF Enter
<1>3. CASE ImportSaved
  BY <1>2, <1>3, HashType DEF ImportSaved, DoingType
<1>4. CASE RecodeSaved
  <2>1. hashPassword(doing.pass) # None /\ doing.addr \in Addrs
    BY <1>4, HashType, HashesKnown DEF RecodeSaved, DoingType
  <2>. QED
    BY <1>4, <2>1 DEF RecodeSaved
<1>5. ASSUME NEW u \in Uuids, NEW p \in Passes, importExisting(u, p)
      PROVE  m_keyInfo'[a] # None \/ (m_addrLookup[a] # None /\ m_keyInfo'[a] = m_keyInfo[a])
  <2>1. Enter(AddressOf[Secret(u, p, TRUE)], u, hashPassword(p)) /\ hashPassword(p) # None
    BY <1>5, HashType, HashesKnown DEF importExisting
  <2>. QED
    BY <2>1 DEF Enter
<1>6. ASSUME NEW u \in Uuids, NEW b \in Addrs, importExistingAs(u, b)
      PROVE  m_keyInfo'[a] # None \/ (m_addrLookup[a] # None /\ m_keyInfo'[a] = m_keyInfo[a])
  BY <1>6, HashesKnown DEF importExistingAs, Enter
<1>7. ASSUME NEW b \in Addrs, killAccount(b) \/ killUnknown(b) \/ killAccountThrows(b)
      PROVE  m_keyInfo'[a] # None \/ (m_addrLookup[a] # None /\ m_keyInfo'[a] = m_keyInfo[a])
  BY <1>7 DEF killAccount, killUnknown, killAccountThrows, Forget
<1>. QED
  BY <1>1, <1>3, <1>4, <1>5, <1>6, <1>7 DEF Recording

(* A manager comes by its keys file by load() or by writing it. *)
LEMMA LoadedCases ==
    ASSUME KMTypes, [KMNext]_allVars, loaded' \/ doing'.step = "load",
           ~WriteKeys, ~\E p \in Passes : LoadAccepted(p)
    PROVE  loaded \/ doing.step = "load"
<1>1. Rest.step = "rest"
  BY DEF Rest, At
<1>2. ASSUME Elsewhere PROVE doing' = doing /\ loaded' = loaded
  BY <1>2, ElsewhereKeeps
<1>3. ASSUME Ending PROVE loaded' = loaded /\ doing'.step # "load"
  BY <1>3, EndingWrites, WriteDoing DEF KMTypes
<1>4. ASSUME LoadSaved PROVE doing.step = "load"
  BY <1>4 DEF LoadSaved
<1>5. ASSUME \/ (\E s \in Salts : WriteSalt(s)) \/ WriteFails \/ StoreThrows
             \/ \E p \in Passes : create(p) \/ save(p)
             \/ \E a \in Addrs, p, q \in Passes : recodeAccount(a, p, q)
             \/ \E s \in Secrets, p \in Passes : import(s, p)
      PROVE  loaded' = loaded /\ doing'.step # "load"
  BY <1>1, <1>5, AtFields DEF WriteSalt, WriteFails, StoreThrows, create, save, recodeAccount, import
<1>6. ASSUME Construct \/ \E p \in Passes : LoadRejected(p) PROVE doing' = doing /\ loaded' = loaded
  BY <1>6 DEF Construct, LoadRejected
<1>7. ASSUME End PROVE FALSE
  BY <1>1, <1>7 DEF End
<1>. QED
  BY <1>2, <1>3, <1>4, <1>5, <1>6, <1>7 DEF KMNext, Elsewhere, Ending

LEMMA InfosTakenKept ==
    ASSUME IdentityInv, KMTypes, InfosRight, InfosTaken, [KMNext]_allVars PROVE InfosTaken'
<1> SUFFICES ASSUME loaded' \/ doing'.step = "load", keysFile' # None, NEW i \in keysFile'.infos,
                    i.uuid \in Stored', m_addrLookup'[i.addr] # None
             PROVE  m_keyInfo'[i.addr] # None
  BY DEF InfosTaken
<1>1. CASE WriteKeys
  <2>1. PICK a \in Addrs : m_keyInfo[a] # None /\ i = [addr |-> a, uuid |-> m_addrLookup[a], hash |-> m_keyInfo[a]]
    BY <1>1, KeysWritten DEF TornKeys, Contents
  <2>2. i.addr = a /\ m_keyInfo' = m_keyInfo
    BY <1>1, <2>1 DEF WriteKeys, lookups
  <2>. QED
    BY <2>1, <2>2
<1>2. SUFFICES ASSUME ~WriteKeys PROVE m_keyInfo'[i.addr] # None
  BY <1>1
<1>3. keysFile' = keysFile /\ i \in keysFile.infos /\ keysFile # None
  BY <1>2, FileCases DEF files, WriteSalt
<1>4. i.addr \in Addrs /\ i.hash \in Hashes \cup {UnknownPassword} /\ i.uuid # None
  <2>1. None \notin Stored'
    BY SentinelAssumption DEF Stored, FileNames
  <2>. QED
    BY <1>3, <2>1 DEF KMTypes, FileTypes
<1>5. ASSUME NEW p \in Passes, LoadAccepted(p) PROVE m_keyInfo'[i.addr] # None
  <2>1. i \in Known
    <3>1. Stored' = Stored
      <4>1. CASE Unaddressed = {}
        BY <1>5, <4>1 DEF LoadAccepted, vars, Stored
      <4>. QED
        BY <1>5, <4>1, NoteAddresses
    <3>. QED
      BY <1>3, <3>1 DEF Known
  <2> DEFINE taken == Known \cup {j \in keysFile.infos : j.uuid = None}
             j == CHOOSE j \in taken : j.addr = i.addr
  <2>2. j \in taken
    BY <2>1
  <2>3. m_keyInfo'[i.addr] = j.hash
    BY <1>4, <1>5, <2>1 DEF LoadAccepted, TakeInfos
  <2>4. j \in keysFile.infos
    BY <2>2 DEF Known
  <2> HIDE DEF j, taken
  <2>. QED
    BY <1>3, <2>3, <2>4, HashesKnown DEF KMTypes, FileTypes
<1>6. SUFFICES ASSUME ~\E p \in Passes : LoadAccepted(p) PROVE m_keyInfo'[i.addr] # None
  BY <1>5
<1>7. loaded \/ doing.step = "load"
  BY <1>2, <1>6, LoadedCases
<1>8. ~Construct /\ ~End
  <2>1. up
    BY <1>7 DEF KMTypes, Life, Rest, At
  <2>2. ~End
    BY DEF End, Rest, At
  <2>. QED
    BY <2>1, <2>2 DEF Construct, Start
<1>9. i.uuid \in Stored
  <2>1. ASSUME NEW s \in Secrets, NEW p \in Passes, import(s, p) PROVE i.uuid \in Stored
    BY <1>3, <2>1, KeyMade
  <2>2. ASSUME NEW a \in Addrs, killAccount(a) PROVE i.uuid \in Stored
    BY <2>2 DEF killAccount, kill, Stored, IdentityInv, TypeInv, TypeOK
  <2>. QED
    BY <1>8, <2>1, <2>2, StoredCases
<1>10. UNCHANGED lookups \/ Recording
  BY <1>8, LookupCases
<1>11. m_addrLookup[i.addr] # None => m_keyInfo[i.addr] # None
  BY <1>3, <1>7, <1>9 DEF InfosTaken
<1>. QED
  BY <1>4, <1>6, <1>10, <1>11, EnteredTogether

-----------------------------------------------------------------------------
(* The theorems *)

KMInv ==
    /\ IdentityInv /\ KMTypes
    /\ LookupRight /\ InfosRight /\ ImportRight /\ InfosTaken

(* What orderly callers add to it. *)
OrderInv == Ordered /\ KeyPoint /\ KeysFileOpens

LEMMA RestStep == Rest.step = "rest"
BY DEF Rest, At

LEMMA KMInvInit == KMInit => KMInv
<1> SUFFICES ASSUME KMInit PROVE KMInv
  OBVIOUS
<1>1. IdentityInv
  BY IdentityInit DEF KMInit
<1>2. doing.step = "rest" /\ doing = Rest
  BY DEF KMInit, Rest, At
<1>3. LookupTypes /\ PasswordTypes /\ FileTypes
  BY DEF KMInit, LookupTypes, PasswordTypes, FileTypes, SaltContents, NoAddrs, NoKeys
<1>4. HistoryTypes
  <2>1. failures \in 0 .. MaxFailures
    BY KMAssumption DEF KMInit
  <2>2. broken \subseteq Addrs /\ pairBroken \in BOOLEAN
    BY DEF KMInit
  <2>. QED
    BY <2>1, <2>2 DEF HistoryTypes
<1>5. DoingType /\ Life
  BY <1>2 DEF KMInit, DoingType, Life
<1>7. LookupRight /\ InfosRight /\ ImportRight /\ InfosTaken
  BY <1>2 DEF KMInit, NoAddrs, LookupRight, InfosRight, ImportRight, InfosTaken
<1>. QED
  BY <1>1, <1>3, <1>4, <1>5, <1>7 DEF KMInv, KMTypes

LEMMA KMInvNext == ASSUME Honest, KMInv, [KMNext]_allVars PROVE KMInv'
<1> USE DEF KMInv
<1>1. IdentityInv'
  BY StoreKept
<1>2. KMTypes'
  <2>1. LookupTypes' /\ PasswordTypes'
    BY <1>1, LookupsTyped, PasswordsTyped
  <2>2. FileTypes' /\ HistoryTypes'
    BY FilesTyped, HistoryTyped
  <2>3. DoingType' /\ Life'
    BY LifeKept DEF IdentityInv, TypeInv
  <2>. QED
    BY <2>1, <2>2, <2>3 DEF KMTypes
<1>4. LookupRight'
  BY <1>1, LookupRightKept
<1>5. InfosRight' /\ ImportRight' /\ InfosTaken'
  BY InfosRightKept, ImportRightKept, InfosTakenKept
<1>. QED
  BY <1>1, <1>2, <1>4, <1>5

LEMMA OrderInvInit == KMInit => OrderInv
BY RestStep DEF KMInit, OrderInv, Ordered, KeyPoint, KeysFileOpens

LEMMA OrderInvNext == ASSUME Orderly, KMInv, OrderInv, [KMNext]_allVars PROVE OrderInv'
BY OrderedKept, KeyPointKept DEF KMInv, OrderInv

(* Every variable of the manager and of its store has its type, however    *)
(* load, save, create, recode and kill are called and interrupted, by      *)
(* callers that enter keys under the addresses they have.                  *)
THEOREM KMTypeCorrect == ASSUME Honest PROVE KMSpec => []KMTypeOK
<1>1. KMInv /\ [KMNext]_allVars => KMInv'
  BY KMInvNext
<1>2. KMInv => KMTypeOK
  BY DEF KMInv, IdentityInv, TypeInv, KMTypes, LookupTypes, PasswordTypes, FileTypes, DoingType, HistoryTypes,
         KMTypeOK
<1>. QED
  BY <1>1, <1>2, KMInvInit, PTL DEF KMSpec

(* For orderly callers the keys file opens with the master password of the *)
(* process and the salt in the salt file, unless write(pass, ..) was cut   *)
(* between its two renames, or a write was lost to a full device, and no   *)
(* rekeying completed since.                                               *)
THEOREM KeysFileOpensAlways == ASSUME Honest, Orderly PROVE KMSpec => []KeysFileOpens
<1>1. KMInv /\ [KMNext]_allVars => KMInv'
  BY KMInvNext
<1>2. KMInv /\ OrderInv /\ [KMNext]_allVars => OrderInv'
  BY OrderInvNext
<1>3. OrderInv => KeysFileOpens
  BY DEF OrderInv
<1>. QED
  BY <1>1, <1>2, <1>3, KMInvInit, OrderInvInit, PTL DEF KMSpec

(* m_addrLookup never leads to the key of another account, nor to none,    *)
(* whether the keys file was loaded first or not.                          *)
THEOREM LookupSoundAlways == ASSUME Honest PROVE KMSpec => []LookupSound
<1>1. KMInv /\ [KMNext]_allVars => KMInv'
  BY KMInvNext
<1>2. KMInv => LookupSound
  <2> SUFFICES ASSUME LookupRight, NEW a \in Addrs \ {ZeroAddress}, m_addrLookup[a] # None
               PROVE  m_addrLookup[a] \in Stored /\ AddressOf[m_keys[m_addrLookup[a]].sec] = a
    BY DEF KMInv, LookupSound
  <2>1. m_addrLookup[a] \in Stored /\ KeyOfAddr(m_addrLookup[a], a)
    BY DEF LookupRight
  <2>. QED
    BY <2>1, MemoryCopy DEF KeyOfAddr
<1>. QED
  BY <1>1, <1>2, KMInvInit, PTL DEF KMSpec

(* write(key, ..) of a process that has loaded the keys file puts an entry *)
(* in the new one for every account of the old one that can be looked up.  *)
THEOREM InfoKeptAlways == ASSUME Honest PROVE KMSpec => InfoKept
<1> DEFINE Keeps ==
       keysFile # None /\ loaded /\ keysFile' \notin {None, TornKeys} =>
          \A i \in keysFile.infos :
             \/ \E j \in keysFile'.infos : j.addr = i.addr
             \/ i.uuid \notin Stored \/ m_addrLookup[i.addr] = None
<1>1. KMInv /\ [KMNext]_allVars => KMInv'
  BY KMInvNext
<1>2. KMInv /\ [KMNext]_allVars => Keeps
  <2> SUFFICES ASSUME KMInv, [KMNext]_allVars, keysFile # None, loaded, keysFile' \notin {None, TornKeys},
                      NEW i \in keysFile.infos, i.uuid \in Stored, m_addrLookup[i.addr] # None
               PROVE  \E j \in keysFile'.infos : j.addr = i.addr
    OBVIOUS
  <2>1. CASE keysFile' = keysFile
    BY <2>1
  <2>2. CASE WriteKeys
    <3>1. keysFile' = Contents
      BY <2>2, KeysWritten
    <3>2. m_keyInfo[i.addr] # None /\ i.addr \in Addrs
      BY DEF KMInv, InfosTaken, KMTypes, FileTypes
    <3> DEFINE j == [addr |-> i.addr, uuid |-> m_addrLookup[i.addr], hash |-> m_keyInfo[i.addr]]
    <3>3. j \in Contents.infos /\ j.addr = i.addr
      BY <3>2 DEF Contents
    <3>. QED
      BY <3>1, <3>3
  <2>. QED
    BY <2>1, <2>2, FileCases DEF files, WriteSalt
<1> HIDE DEF Keeps
<1>3. KMSpec => [][Keeps]_allVars
  BY <1>1, <1>2, KMInvInit, PTL DEF KMSpec
<1>. QED
  BY <1>3 DEF Keeps, InfoKept

-----------------------------------------------------------------------------
(* Passwords.  What the lookups and the keys file say of the password of a *)
(* key is said of every rendering of it that can be loaded, the one in     *)
(* memory and those in the directory: then no restart makes it wrong.      *)

(* Key files the manager did not write agree on the password of a key. *)
OnePasswordPerUuid == \A k, l \in KeyFiles : k.id = l.id => k.pass = l.pass

(* The renderings of keys in memory and in the directory. *)
Live == {FileOf(u) : u \in Stored} \cup {disk[f] : f \in {g \in FileNames : Readable(g)}}

HasPass(u, p) == \A c \in Live : c.id = u => c.pass = p
OnePass(u) == \A c, d \in Live : c.id = u /\ d.id = u => c.pass = d.pass

(* The hash h recorded for account a with key u is that of its password.   *)
Says(a, u, h) ==
    a \notin broken \cup {ZeroAddress} /\ h \notin {None, UnknownPassword} => HasPass(u, h[2])

Recoding(a) == doing.step = "recode" /\ doing.addr = a
Rerecording(a) == doing.step \in {"recode", "keys"} /\ doing.addr = a

(* A key has one password, but for one that is being recoded. *)
PasswordsAgree ==
    \A a \in Addrs \ {ZeroAddress}, u \in Uuids :
        KeyOfAddr(u, a) /\ a \notin broken /\ ~(doing.step = "recode" /\ doing.uuid = u) => OnePass(u)

MemorySays == \A a \in Addrs : ~Recoding(a) => Says(a, m_addrLookup[a], m_keyInfo[a])

FileSays ==
    keysFile # None => \A i \in keysFile.infos :
        ~Rerecording(i.addr) => Says(i.addr, i.uuid, i.hash)

ImportSays == doing.step = "import" => HasPass(doing.uuid, doing.pass)

(* How far save() has come with the files of the key that is recoded: the  *)
(* ones that have the old password are those it will replace or remove.    *)
Under(u) == phase \in {"write", "remove"} /\ cur = u
ToReplace(f, u) ==
    \/ u \in todo /\ ~Under(u) /\ f \in {u, m_keys[u].file}
    \/ phase = "write" /\ cur = u /\ f = m_keys[u].file /\ f # u
    \/ phase = "remove" /\ cur = u /\ f = old /\ f # u

RecodePoint ==
    doing.step = "recode" =>
        /\ doing.addr # ZeroAddress /\ doing.uuid = m_addrLookup[doing.addr] /\ doing.uuid \in Stored
        /\ m_keys[doing.uuid].pass = doing.pass
        /\ doing.addr \notin broken => \A f \in FileNames :
              Readable(f) /\ disk[f].id = doing.uuid =>
                  disk[f].pass = doing.pass \/ ToReplace(f, doing.uuid)

(* The store of a manager has a directory; a password is recorded of       *)
(* accounts that have a key, once in the keys file.                        *)
InfosWhole ==
    /\ up => m_path
    /\ \A a \in Addrs : m_keyInfo[a] # None => up /\ m_addrLookup[a] # None
    /\ keysFile # None =>
          /\ \A i \in keysFile.infos : i.uuid # None
          /\ \A i, j \in keysFile.infos : i.addr = j.addr => i = j

(* Hashes are salted with the random string of the keys file. *)
DefaultPoint ==
    /\ loaded => keysFile.default = m_default /\ m_keysFileKey # None
    /\ \A a \in Addrs : m_keyInfo[a] \notin {None, UnknownPassword} =>
          (loaded \/ keysFile # None) /\ m_keyInfo[a][1] = keysFile.default
    /\ keysFile # None => \A i \in keysFile.infos : i.hash # UnknownPassword => i.hash[1] = keysFile.default

PassInv ==
    /\ PasswordsAgree /\ MemorySays /\ FileSays /\ ImportSays /\ RecodePoint
    /\ InfosWhole /\ DefaultPoint

-----------------------------------------------------------------------------
(* What a step of the manager does to the passwords of the keys. *)

LEMMA LiveMemory ==
    ASSUME NEW u \in Stored
    PROVE  FileOf(u) \in Live /\ FileOf(u).id = u /\ FileOf(u).pass = m_keys[u].pass
BY DEF Live, FileOf

LEMMA LiveDisk == ASSUME NEW f \in FileNames, Readable(f) PROVE disk[f] \in Live
BY DEF Live

LEMMA LiveCases ==
    ASSUME NEW c \in Live
    PROVE  \/ c.id \in Stored /\ c.pass = m_keys[c.id].pass
           \/ \E f \in FileNames : Readable(f) /\ c = disk[f]
BY DEF Live, FileOf

(* No rendering of u has another password than one that u had. *)
PassKept(u) == \A c \in Live' : c.id = u => \E d \in Live : d.id = u /\ d.pass = c.pass

LEMMA HasPassKept == ASSUME NEW u, NEW p, PassKept(u), HasPass(u, p) PROVE HasPass(u, p)'
BY DEF PassKept, HasPass

LEMMA OnePassKept == ASSUME NEW u, PassKept(u), OnePass(u) PROVE OnePass(u)'
<1> SUFFICES ASSUME NEW c \in Live', NEW d \in Live', c.id = u, d.id = u PROVE c.pass = d.pass
  BY DEF OnePass
<1>. QED
  BY DEF PassKept, OnePass

(* It is enough that memory and files take what they have from what there  *)
(* was.                                                                    *)
LEMMA PassFrom ==
    ASSUME NEW u,
           u \in Stored' => \E d \in Live : d.id = u /\ d.pass = m_keys'[u].pass,
           \A f \in FileNames : Readable(f)' /\ disk'[f].id = u => disk'[f] \in Live
    PROVE  PassKept(u)
<1> SUFFICES ASSUME NEW c \in Live', c.id = u PROVE \E d \in Live : d.id = u /\ d.pass = c.pass
  BY DEF PassKept
<1>1. CASE \E v \in Stored' : c = FileOf(v)'
  <2>1. PICK v \in Stored' : c = FileOf(v)'
    BY <1>1
  <2>2. c.id = v /\ c.pass = m_keys'[v].pass
    BY <2>1 DEF FileOf
  <2>. QED
    BY <2>1, <2>2
<1>2. CASE \E f \in FileNames : Readable(f)' /\ c = disk'[f]
  BY <1>2
<1>. QED
  BY <1>1, <1>2 DEF Live

(* Entries whose passwords stay, with files that stay or go. *)
LEMMA PassSame ==
    ASSUME NEW u, u \in Stored' => u \in Stored /\ m_keys'[u].pass = m_keys[u].pass,
           \A f \in FileNames : Readable(f)' => disk'[f] = disk[f]
    PROVE  PassKept(u)
<1>1. ASSUME NEW f \in FileNames, Readable(f)' PROVE disk'[f] \in Live
  <2>1. disk'[f] = disk[f] /\ Readable(f)
    BY <1>1 DEF Readable
  <2>. QED
    BY <2>1, LiveDisk
<1>. QED
  BY <1>1, LiveMemory, PassFrom

(* save() leaves the passwords in memory alone and writes what is there;   *)
(* of the entries it changes only the file of the one it is at.            *)
LEMMA SaveKeepsEntries ==
    ASSUME TypeInv, SaveStep \/ SaveReturn \/ SaveThrows
    PROVE  \A u \in Stored : /\ m_keys'[u].pass = m_keys[u].pass
                             /\ ~(phase = "write" /\ cur = u) => m_keys'[u] = m_keys[u]
<1> DEFINE Same == \A u \in Stored : /\ m_keys'[u].pass = m_keys[u].pass
                                     /\ ~(phase = "write" /\ cur = u) => m_keys'[u] = m_keys[u]
<1>1. ASSUME SwapFilename, phase = "write" PROVE Same
  <2>1. cur \in Uuids /\ m_keys \in [Uuids -> EncryptedKey \cup {None}] /\ cur \in Stored
    BY <1>1 DEF TypeInv, TypeOK, Shape, Stored
  <2>2. m_keys' = [m_keys EXCEPT ![cur] = EntryOf(m_keys[cur], cur)]
    BY <1>1 DEF SwapFilename
  <2>3. EntryOf(m_keys[cur], cur).pass = m_keys[cur].pass
    BY DEF EntryOf
  <2>. QED
    BY <1>1, <2>1, <2>2, <2>3 DEF Stored
<1>2. ASSUME m_keys' = m_keys PROVE Same
  BY <1>2
<1> HIDE DEF Same
<1>3. Same
  BY <1>1, <1>2, SaveStepCases DEF SaveOpen, SaveWritten, SaveWriteShort, SaveRemoveOld, SaveReturn,
                SaveThrows, SaveOpenFails, SaveRemoveFails
<1>. QED
  BY <1>3 DEF Same

LEMMA SaveDisk ==
    ASSUME TypeInv, SaveStep \/ SaveReturn \/ SaveThrows, NEW f \in FileNames, Readable(f)'
    PROVE  disk'[f] = disk[f] \/ (SaveWritten /\ f = cur /\ disk'[f] = FileOf(cur) /\ cur \in Stored)
<1>1. CASE SaveWritten
  BY <1>1 DEF SaveWritten, Readable, TypeInv, TypeOK, Shape
<1>. QED
  BY <1>1, SaveStepCases DEF SaveOpen, SaveWriteShort, SaveRemoveOld, SaveReturn,
     SaveThrows, SaveOpenFails, SaveRemoveFails, Readable, TypeInv, TypeOK

LEMMA PassSave == ASSUME TypeInv, SaveStep \/ SaveReturn \/ SaveThrows, NEW u PROVE PassKept(u)
<1>1. Stored' = Stored
  BY SaveKeepsKeys
<1>2. u \in Stored' => \E d \in Live : d.id = u /\ d.pass = m_keys'[u].pass
  BY <1>1, SaveKeepsEntries, LiveMemory
<1>3. ASSUME NEW f \in FileNames, Readable(f)' PROVE disk'[f] \in Live
  <2>1. CASE disk'[f] = disk[f]
    <3>1. Readable(f)
      BY <1>3, <2>1 DEF Readable
    <3>. QED
      BY <2>1, <3>1, LiveDisk
  <2>2. CASE disk'[f] = FileOf(cur) /\ cur \in Stored
    BY <2>2, LiveMemory
  <2>. QED
    BY <1>3, <2>1, <2>2, SaveDisk
<1>. QED
  BY <1>2, <1>3, PassFrom

(* What a key looks like after secret(), with or without a password. *)
LEMMA SecretEntry ==
    ASSUME TypeOK, NEW u \in Uuids, NEW p \in Passes \cup {None}, NEW c \in BOOLEAN
    PROVE  /\ KeysAfter(u, p, c) \in [Uuids -> EncryptedKey \cup {None}]
           /\ \A v \in Uuids : v # u => KeysAfter(u, p, c)[v] = m_keys[v]
           /\ KeysAfter(u, p, c)[u] # None <=> m_keys[u] # None
           /\ m_keys[u] # None => /\ KeysAfter(u, p, c)[u].pass = m_keys[u].pass
                                  /\ KeysAfter(u, p, c)[u].file = m_keys[u].file
<1>1. CASE p \in Passes
  BY <1>1, SecretType
<1>2. CASE p = None
  BY <1>2, EmptyPassword DEF KeysAfter, TypeOK
<1>. QED
  BY <1>1, <1>2

LEMMA PassSecret ==
    ASSUME TypeOK, NEW v \in Uuids, NEW p \in Passes \cup {None}, NEW c \in BOOLEAN, secret(v, p, c), NEW u
    PROVE  PassKept(u)
<1>1. m_keys' = KeysAfter(v, p, c) /\ disk' = disk
  BY DEF secret
<1>2. u \in Stored' => u \in Stored /\ m_keys'[u].pass = m_keys[u].pass
  BY <1>1, SecretEntry DEF Stored
<1>. QED
  BY <1>1, <1>2, PassSame

(* recode gives one entry another password and begins to save. *)
LEMMA RecodeEntry ==
    ASSUME IdentityInv, NEW u \in Uuids, NEW p \in Passes \cup {None}, NEW q \in Passes, recode(u, p, q)
    PROVE  /\ u \in Stored /\ Stored' = Stored
           /\ m_keys'[u].pass = q /\ m_keys'[u].file = m_keys[u].file
           /\ \A v \in Uuids : v # u => m_keys'[v] = m_keys[v]
           /\ disk' = disk /\ phase' = "loop" /\ (m_path => todo' = Stored')
<1> DEFINE s == Secret(u, p, TRUE)
           keys == KeysAfter(u, p, TRUE)
           e == Recoded(keys[u], s, q)
<1>1. /\ keys \in [Uuids -> EncryptedKey \cup {None}]
      /\ \A v \in Uuids : v # u => keys[v] = m_keys[v]
      /\ m_keys[u] # None => keys[u] # None /\ keys[u].file = m_keys[u].file
  BY SecretEntry DEF IdentityInv, TypeInv
<1>2. u \in Stored
  BY DEF recode, Secret, CacheHit, Stored, IdentityInv, KeyIdentity, CacheSound
<1>3. /\ m_keys' = [keys EXCEPT ![u] = e] /\ phase' = "loop" /\ disk' = disk
      /\ m_path => todo' = {v \in Uuids : m_keys'[v] # None}
  BY DEF recode, BeginSave
<1>4. keys[u] # None /\ e.pass = q /\ e.file = m_keys[u].file
  BY <1>1, <1>2 DEF Stored, Recoded
<1>5. Stored' = Stored
  <2>1. CASE p \in Passes
    BY <2>1, RecodeStores
  <2>2. CASE p = None
    BY <2>2, RecodeEmpty, RecodeStores DEF IdentityInv, TypeInv
  <2>. QED
    BY <2>1, <2>2
<1> HIDE DEF s, keys, e
<1>6. m_keys'[u] = e /\ \A v \in Uuids : v # u => m_keys'[v] = m_keys[v]
  BY <1>1, <1>3
<1>7. todo' = {v \in Uuids : m_keys'[v] # None} => todo' = Stored'
  BY DEF Stored
<1>. QED
  BY <1>2, <1>3, <1>4, <1>5, <1>6, <1>7

LEMMA PassConstruct == ASSUME TypeInv, Construct, NEW u PROVE PassKept(u)
<1>1. m_keys' \in load(NoKeys) /\ disk' = disk
  BY DEF Construct, Start
<1>2. NoKeys \in [Uuids -> EncryptedKey \cup {None}] /\ \A v \in Uuids : NoKeys[v] = None
  BY DEF NoKeys
<1>3. ASSUME u \in Stored' PROVE \E d \in Live : d.id = u /\ d.pass = m_keys'[u].pass
  <2>1. u \in Uuids /\ m_keys'[u] # None
    BY <1>3 DEF Stored
  <2>2. PICK f \in FileNames : Readable(f) /\ disk[f].id = u /\ m_keys'[u] = EntryOf(disk[f], f)
    BY <1>1, <1>2, <2>1, LoadType DEF TypeInv
  <2>. QED
    BY <2>2, LiveDisk DEF EntryOf
<1>4. \A f \in FileNames : Readable(f)' => disk'[f] \in Live
  BY <1>1, LiveDisk DEF Readable
<1>. QED
  BY <1>3, <1>4, PassFrom

LEMMA PassKill == ASSUME TypeOK, NEW v \in Uuids, kill(v) \/ killThrows(v), NEW u PROVE PassKept(u)
<1>1. u \in Stored' => u \in Stored /\ m_keys'[u].pass = m_keys[u].pass
  BY DEF kill, killThrows, Stored, TypeOK
<1>2. \A f \in FileNames : Readable(f)' => disk'[f] = disk[f]
  BY DEF kill, killThrows, Readable, TypeOK
<1>. QED
  BY <1>1, <1>2, PassSame

(* load() changes addresses only. *)
LEMMA NotedPasses ==
    ASSUME NEW p \in Passes, LoadAccepted(p)
    PROVE  /\ \A u \in Stored' : u \in Stored /\ m_keys'[u].pass = m_keys[u].pass
           /\ disk' = disk /\ m_path' = m_path
<1>1. CASE Unaddressed = {}
  BY <1>1 DEF LoadAccepted, vars, Stored
<1>2. CASE Unaddressed # {}
  <2>0. PICK addrs \in [{i.uuid : i \in Unaddressed} -> Addrs] :
           m_keys' = [u \in Uuids |->
               IF u \in DOMAIN addrs
               THEN [sec |-> m_keys[u].sec, pass |-> m_keys[u].pass, file |-> m_keys[u].file,
                     addr |-> addrs[u]]
               ELSE m_keys[u]]
    BY <1>2 DEF LoadAccepted
  <2> DEFINE entry(u) == [sec |-> m_keys[u].sec, pass |-> m_keys[u].pass, file |-> m_keys[u].file,
                          addr |-> addrs[u]]
             noted(u) == u \in DOMAIN addrs
  <2>1. /\ m_keys' = [u \in Uuids |-> IF noted(u) THEN entry(u) ELSE m_keys[u]]
        /\ disk' = disk /\ m_path' = m_path
    BY <1>2, <2>0 DEF LoadAccepted, BeginSave
  <2>2. \A u : noted(u) => u \in Stored
    BY <2>0 DEF Unaddressed, Known
  <2>3. \A u : entry(u).pass = m_keys[u].pass
    OBVIOUS
  <2> HIDE DEF entry, noted
  <2>4. ASSUME NEW u \in Stored' PROVE u \in Stored /\ m_keys'[u].pass = m_keys[u].pass
    <3>1. u \in Uuids /\ m_keys'[u] # None
      BY DEF Stored
    <3>2. CASE noted(u)
      BY <2>1, <2>2, <2>3, <3>1, <3>2
    <3>3. CASE ~noted(u)
      BY <2>1, <3>1, <3>3 DEF Stored
    <3>. QED
      BY <3>2, <3>3
  <2>. QED
    BY <2>1, <2>4
<1>. QED
  BY <1>1, <1>2

(* A new key has the password it is imported with; no file has its uuid. *)
LEMMA PassImport ==
    ASSUME IdentityInv, NEW s \in Secrets, NEW p \in Passes, import(s, p)
    PROVE  \E u \in Uuids :
              /\ doing' = At("import", AddressOf[s], u, p, None)
              /\ u \notin Stored /\ HasPass(u, p)'
              /\ keysFile # None => \A i \in keysFile.infos : i.uuid # u
              /\ \A v : v # u => PassKept(v)
<1>1. PICK u \in Uuids : /\ doing' = At("import", AddressOf[s], u, p, None)
                         /\ keysFile # None => \A i \in keysFile.infos : i.uuid # u
                         /\ importSecret(u, s, p)
  BY DEF import
<1> DEFINE e == [sec |-> s, pass |-> p, addr |-> AddressOf[s], file |-> None]
<1>2. m_keys' = [m_keys EXCEPT ![u] = e] /\ disk' = disk /\ FreshUuid(u)
  BY <1>1 DEF importSecret, BeginSave
<1>3. e.pass = p /\ m_keys \in [Uuids -> EncryptedKey \cup {None}]
  BY DEF IdentityInv, TypeInv, TypeOK
<1> HIDE DEF e
<1>4. m_keys'[u].pass = p /\ \A v \in Uuids : v # u => m_keys'[v] = m_keys[v]
  BY <1>2, <1>3
<1>5. u \notin Stored
  BY <1>2, MemoryCopy DEF FreshUuid
<1>6. HasPass(u, p)'
  <2> SUFFICES ASSUME NEW c \in Live', c.id = u PROVE c.pass = p
    BY DEF HasPass
  <2>1. \/ c.id \in Stored' /\ c.pass = m_keys'[c.id].pass
        \/ \E f \in FileNames : Readable(f)' /\ c = disk'[f]
    BY DEF Live, FileOf
  <2>2. ASSUME NEW f \in FileNames, Readable(f)', c = disk'[f] PROVE FALSE
    BY <1>2, <2>2, DiskCopy DEF FreshUuid, Readable
  <2>. QED
    BY <1>4, <2>1, <2>2
<1>7. ASSUME NEW v, v # u PROVE PassKept(v)
  <2>1. v \in Stored' => v \in Stored /\ m_keys'[v].pass = m_keys[v].pass
    BY <1>4, <1>7 DEF Stored
  <2>. QED
    BY <1>2, <2>1, PassSame
<1>. QED
  BY <1>1, <1>5, <1>6, <1>7

(* A key is recoded to the new password; no other one is touched. *)
LEMMA PassRecode ==
    ASSUME IdentityInv, KMTypes, NEW a \in Addrs, NEW p \in Passes, NEW q \in Passes, recodeAccount(a, p, q)
    PROVE  \E u \in Stored :
              /\ u = m_addrLookup[a] /\ doing' = At("recode", a, u, q, None)
              /\ Stored' = Stored /\ m_keys'[u].pass = q /\ m_keys'[u].file = m_keys[u].file
              /\ disk' = disk /\ phase' = "loop" /\ (m_path => todo' = Stored')
              /\ \A v : v # u => PassKept(v)
<1> DEFINE u == m_addrLookup[a]
<1>1. u \in Uuids /\ getPassword(u, p) \in Passes \cup {None}
  BY PasswordType DEF recodeAccount, KMTypes, LookupTypes
<1>2. recode(u, getPassword(u, p), q) /\ doing' = At("recode", a, u, q, None)
  BY DEF recodeAccount
<1> HIDE DEF u
<1>3. /\ u \in Stored /\ Stored' = Stored
      /\ m_keys'[u].pass = q /\ m_keys'[u].file = m_keys[u].file
      /\ \A v \in Uuids : v # u => m_keys'[v] = m_keys[v]
      /\ disk' = disk /\ phase' = "loop" /\ (m_path => todo' = Stored')
  BY <1>1, <1>2, RecodeEntry
<1>4. ASSUME NEW v, v # u PROVE PassKept(v)
  <2>1. v \in Stored' => v \in Stored /\ m_keys'[v].pass = m_keys[v].pass
    BY <1>3, <1>4 DEF Stored
  <2>. QED
    BY <1>3, <2>1, PassSame
<1>. QED
  BY <1>2, <1>3, <1>4 DEF u

(* Every other step keeps all passwords. *)
Repassing ==
    \/ \E s \in Secrets, p \in Passes : import(s, p)
    \/ \E a \in Addrs \ {ZeroAddress}, p, q \in Passes : recodeAccount(a, p, q)

LEMMA PassNext ==
    ASSUME IdentityInv, KMTypes, [KMNext]_allVars, ~Repassing, NEW u PROVE PassKept(u)
<1> USE DEF IdentityInv, TypeInv
<1>1. ASSUME UNCHANGED vars PROVE PassKept(u)
  <2>1. m_keys' = m_keys /\ disk' = disk
    BY <1>1 DEF vars
  <2>2. Stored' = Stored
    BY <2>1 DEF Stored
  <2>. QED
    BY <2>1, <2>2, PassSame
<1>2. ASSUME NEW a \in Addrs, NEW p \in Passes, NEW c \in BOOLEAN, secretOf(a, p, c) PROVE PassKept(u)
  <2> DEFINE asked == IF c THEN getPassword(m_addrLookup[a], p) ELSE p
  <2>1. m_addrLookup[a] \in Uuids
    BY <1>2 DEF secretOf, KMTypes, LookupTypes
  <2>2. asked \in Passes \cup {None}
    BY <2>1, PasswordType DEF KMTypes
  <2>3. secret(m_addrLookup[a], asked, c)
    BY <1>2 DEF secretOf
  <2> HIDE DEF asked
  <2>. QED
    BY <2>1, <2>2, <2>3, PassSecret
<1>3. ASSUME NEW v \in Uuids, NEW p \in Passes, importExisting(v, p) PROVE PassKept(u)
  BY <1>3, PassSecret DEF importExisting
<1>4. ASSUME NEW a \in Addrs, killAccount(a) \/ killUnknown(a) \/ killAccountThrows(a) PROVE PassKept(u)
  <2>1. CASE killUnknown(a)
    BY <1>1, <2>1 DEF killUnknown
  <2>2. CASE killAccount(a) \/ killAccountThrows(a)
    <3>1. m_addrLookup[a] \in Uuids
      BY <2>2 DEF killAccount, killAccountThrows, KMTypes, LookupTypes
    <3>. QED
      BY <2>2, <3>1, PassKill DEF killAccount, killAccountThrows
  <2>. QED
    BY <1>4, <2>1, <2>2
<1>5. ASSUME NEW p \in Passes, LoadAccepted(p) PROVE PassKept(u)
  BY <1>5, NotedPasses, PassSame
<1>6. ASSUME StoreSaving \/ StoreThrows \/ LoadSaved \/ ImportSaved \/ RecodeSaved PROVE PassKept(u)
  BY <1>6, PassSave DEF StoreSaving, StoreThrows, LoadSaved, ImportSaved, RecodeSaved
<1>7. ASSUME End PROVE PassKept(u)
  <2>1. disk' = disk /\ m_keys' = NoKeys
    BY <1>7 DEF End, Stop
  <2>2. Stored' = {}
    BY <2>1 DEF Stored, NoKeys
  <2>. QED
    BY <2>1, <2>2, PassSame
<1>8. ASSUME \/ Query \/ (\E s \in Salts : WriteSalt(s)) \/ WriteKeys \/ WriteFails \/ UNCHANGED allVars
             \/ \E p \in Passes : create(p) \/ save(p) \/ LoadRejected(p) \/ notePassword(p)
             \/ \E v \in Uuids, b \in Addrs : importExistingAs(v, b)
      PROVE  PassKept(u)
  BY <1>1, <1>8 DEF Query, WriteSalt, WriteKeys, WriteFails, create, save, LoadRejected, notePassword,
              importExistingAs, allVars
<1>. QED
  BY <1>2, <1>3, <1>4, <1>5, <1>6, <1>7, <1>8, PassConstruct DEF KMNext, Repassing

-----------------------------------------------------------------------------
(* Where an operation is. *)

LEMMA NoneElsewhere == None \notin Addrs \cup Uuids \cup FileNames
BY AddrsType, SentinelAssumption, KMAssumption DEF FileNames

LEMMA BrokenGrows == [KMNext]_allVars => broken \subseteq broken'
BY DEF KMNext, Construct, End, Damage, Query, StoreSaving, StoreThrows, LoadSaved, ImportSaved, RecodeSaved, WriteSalt,
       WriteKeys, WriteFails, create, save, LoadAccepted, LoadRejected, notePassword, import, importExisting,
       importExistingAs, secretOf, recodeAccount, killAccount, killUnknown, killAccountThrows,
       allVars, kmVars, history

(* The steps an operation under way allows. *)
LEMMA UnderWay ==
    ASSUME doing # Rest, [KMNext]_allVars, KMTypes
    PROVE  \/ StoreSaving \/ StoreThrows \/ LoadSaved \/ ImportSaved \/ RecodeSaved \/ UNCHANGED allVars
           \/ (\E s \in Salts : WriteSalt(s)) \/ WriteKeys \/ WriteFails \/ End
<1>1. ~Construct
  BY DEF Construct, Start, KMTypes, Life
<1>. QED
  BY <1>1 DEF KMNext, Ready, Opening, Resting, Query, create, save, LoadAccepted, LoadRejected, notePassword, import, importExisting,
     importExistingAs, secretOf, recodeAccount, killAccount, killUnknown, killAccountThrows

(* A recode goes on, is completed, or leaves its account broken. *)
LEMMA RecodeLeft ==
    ASSUME KMTypes, [KMNext]_allVars, doing.step = "recode"
    PROVE  \/ doing' = doing /\ (StoreSaving \/ UNCHANGED allVars)
           \/ RecodeSaved
           \/ doing.addr \in broken'
<1>1. doing.addr \in Addrs /\ doing # Rest
  BY RestStep DEF KMTypes, DoingType
<1>2. ASSUME Damage PROVE doing.addr \in broken'
  BY <1>1, <1>2, NoneElsewhere DEF Damage
<1>. QED
  BY <1>1, <1>2, UnderWay DEF StoreSaving, StoreThrows, LoadSaved, ImportSaved, WriteSalt, WriteKeys, WriteFails, End,
     allVars, kmVars

LEMMA RerecordLeft ==
    ASSUME KMTypes, Ordered, DefaultPoint, [KMNext]_allVars, NEW a \in Addrs, Rerecording(a)
    PROVE  Rerecording(a)' \/ a \in broken' \/ WriteKeys
<1>1. doing.step \in {"recode", "keys"} /\ doing.addr = a /\ doing # Rest
  BY RestStep DEF Rerecording
<1>2. ASSUME Damage PROVE a \in broken'
  BY <1>1, <1>2, NoneElsewhere DEF Damage
<1>3. ASSUME RecodeSaved PROVE Rerecording(a)'
  <2>1. m_keysFileKey # None
    BY <1>1 DEF Ordered, DefaultPoint
  <2>2. doing' = At("keys", a, None, m_keysFileKey[1], m_keysFileKey[2])
    BY <1>1, <1>3, <2>1 DEF RecodeSaved, Write
  <2>. QED
    BY <2>2, AtFields DEF Rerecording
<1>. QED
  BY <1>1, <1>2, <1>3, UnderWay DEF StoreSaving, StoreThrows, LoadSaved, ImportSaved, WriteSalt, WriteFails, End,
     allVars, kmVars, Rerecording

(* Only recode begins a recode. *)
LEMMA RecodeCases ==
    ASSUME KMTypes, [KMNext]_allVars, doing'.step = "recode"
    PROVE  \/ doing.step = "recode" /\ doing' = doing /\ (StoreSaving \/ UNCHANGED allVars)
           \/ \E a \in Addrs \ {ZeroAddress}, p, q \in Passes : recodeAccount(a, p, q)
<1>1. CASE doing = Rest
  <2>1. doing' # Rest /\ doing' # doing
    BY <1>1, RestStep
  <2>2. ASSUME Ending PROVE FALSE
    BY <2>2, EndingWrites, WriteDoing DEF KMTypes
  <2>3. ASSUME Elsewhere PROVE FALSE
    BY <2>1, <2>3, ElsewhereKeeps
  <2>4. ASSUME NEW p \in Passes, create(p) \/ save(p) \/ LoadAccepted(p) \/ LoadRejected(p) PROVE FALSE
    BY <2>1, <2>4, AtFields DEF create, save, LoadAccepted, LoadRejected, Loaded
  <2>5. ASSUME NEW s \in Secrets, NEW p \in Passes, import(s, p) PROVE FALSE
    BY <2>5, AtFields DEF import
  <2>6. ASSUME NEW s \in Salts, WriteSalt(s) PROVE FALSE
    BY <1>1, <2>6, RestStep DEF WriteSalt
  <2>7. ASSUME WriteKeys \/ WriteFails \/ StoreThrows \/ LoadSaved \/ Construct \/ End PROVE FALSE
    BY <2>1, <2>7 DEF WriteKeys, WriteFails, StoreThrows, LoadSaved, Loaded, Construct, End
  <2>. QED
    BY <2>2, <2>3, <2>4, <2>5, <2>6, <2>7 DEF KMNext, Elsewhere, Ending
<1>2. CASE doing # Rest
  <2>1. doing' # Rest
    BY RestStep
  <2>2. ASSUME ImportSaved \/ RecodeSaved PROVE FALSE
    BY <2>2, EndingWrites, WriteDoing DEF Ending, KMTypes
  <2>3. ASSUME \/ (\E s \in Salts : WriteSalt(s)) \/ WriteKeys \/ WriteFails \/ StoreThrows \/ LoadSaved \/ End
        PROVE  FALSE
    BY <2>1, <2>3, AtFields DEF WriteSalt, WriteKeys, WriteFails, StoreThrows, LoadSaved, Loaded, End
  <2>4. StoreSaving \/ UNCHANGED allVars
    BY <1>2, <2>2, <2>3, UnderWay
  <2>. QED
    BY <2>4 DEF StoreSaving, allVars, kmVars
<1>. QED
  BY <1>1, <1>2

(* Two accounts do not share a key. *)
LEMMA OneAccount ==
    ASSUME LookupRight, NEW a \in Addrs \ {ZeroAddress}, NEW b, NEW u, u = m_addrLookup[a], u # None, KeyOfAddr(u, b)
    PROVE  a = b
<1>1. u \in Stored /\ KeyOfAddr(u, a)
  BY DEF LookupRight
<1>. QED
  BY <1>1, MemoryCopy DEF KeyOfAddr

(* The key of an account keeps its password unless it is recoded. *)
LEMMA AccountPass ==
    ASSUME IdentityInv, KMTypes, LookupRight, [KMNext]_allVars,
           NEW a \in Addrs \ {ZeroAddress}, NEW u, KeyOfAddr(u, a), Named(u), ~Recoding(a)' \/ ~Repassing
    PROVE  PassKept(u)
<1>1. ASSUME NEW s \in Secrets, NEW p \in Passes, import(s, p) PROVE PassKept(u)
  BY <1>1, PassImport DEF Named
<1>2. ASSUME NEW b \in Addrs \ {ZeroAddress}, NEW p \in Passes, NEW q \in Passes, recodeAccount(b, p, q), ~Recoding(a)'
      PROVE  PassKept(u)
  <2>1. PICK v \in Stored : /\ v = m_addrLookup[b] /\ doing' = At("recode", b, v, q, None)
                            /\ \A w : w # v => PassKept(w)
    BY <1>2, PassRecode
  <2>2. a # b
    BY <1>2, <2>1, AtFields DEF Recoding
  <2>3. v # u
    BY <2>1, <2>2, OneAccount, NoneElsewhere DEF Stored
  <2>. QED
    BY <2>1, <2>3
<1>. QED
  BY <1>1, <1>2, PassNext DEF Repassing

-----------------------------------------------------------------------------
(* The parts of the invariant, one by one. *)

LEMMA PathKept ==
    ASSUME TypeOK, KMTypes, [KMNext]_allVars PROVE m_path' = m_path \/ Construct \/ End
<1>1. CASE UNCHANGED vars
  BY <1>1 DEF vars
<1>2. CASE \E s \in Secrets, p \in Passes : import(s, p)
  BY <1>2 DEF import, importSecret, BeginSave
<1>3. CASE StoreSaving \/ StoreThrows \/ LoadSaved \/ ImportSaved \/ RecodeSaved
  BY <1>3, SaveStepCases DEF StoreSaving, StoreThrows, LoadSaved, ImportSaved, RecodeSaved, SaveOpen, SaveWritten,
        SaveWriteShort, SwapFilename, SaveRemoveOld, SaveReturn, SaveThrows, SaveOpenFails, SaveRemoveFails
<1>4. CASE \/ Query \/ (\E s \in Salts : WriteSalt(s)) \/ WriteKeys \/ WriteFails \/ UNCHANGED allVars
           \/ \E p \in Passes : create(p) \/ save(p) \/ LoadRejected(p) \/ notePassword(p)
           \/ \E u \in Uuids, a \in Addrs : importExistingAs(u, a)
  BY <1>1, <1>4 DEF Query, WriteSalt, WriteKeys, WriteFails, create, save, LoadRejected, notePassword,
              importExistingAs, allVars
<1>5. CASE \/ \E u \in Uuids, p \in Passes : importExisting(u, p)
           \/ \E a \in Addrs, p \in Passes, c \in BOOLEAN : secretOf(a, p, c)
           \/ \E a \in Addrs, p, q \in Passes : recodeAccount(a, p, q)
           \/ \E a \in Addrs : killAccount(a) \/ killUnknown(a) \/ killAccountThrows(a)
  BY <1>1, <1>5 DEF importExisting, secretOf, recodeAccount, killAccount, killUnknown, killAccountThrows,
              secret, recode, kill, killThrows, BeginSave
<1>6. ASSUME NEW p \in Passes, LoadAccepted(p) PROVE m_path' = m_path
  BY <1>6, NotedPasses
<1>. QED
  BY <1>2, <1>3, <1>4, <1>5, <1>6 DEF KMNext

(* What load() takes over of an account: its entry, or nothing. *)
LEMMA TakenEntry ==
    ASSUME InfosWhole, KMTypes, NEW p \in Passes, LoadAccepted(p), NEW a \in Addrs
    PROVE  \/ m_addrLookup'[a] = m_addrLookup[a] /\ m_keyInfo'[a] = m_keyInfo[a]
           \/ \E i \in keysFile.infos :
                 i.addr = a /\ i.uuid \in Stored /\ m_addrLookup'[a] = i.uuid /\ m_keyInfo'[a] = i.hash
<1> DEFINE taken == Known \cup {i \in keysFile.infos : i.uuid = None}
<1>1. keysFile # None /\ TakeInfos
  BY DEF LoadAccepted
<1>2. taken = Known
  BY <1>1 DEF InfosWhole, Known
<1>3. /\ m_addrLookup'[a] = IF \E i \in Known : i.addr = a
                            THEN (CHOOSE i \in Known : i.addr = a).uuid ELSE m_addrLookup[a]
      /\ m_keyInfo'[a] = IF \E i \in taken : i.addr = a
                         THEN (CHOOSE i \in taken : i.addr = a).hash ELSE m_keyInfo[a]
  BY <1>1 DEF TakeInfos
<1> HIDE DEF taken
<1>4. CASE \E i \in Known : i.addr = a
  <2> DEFINE i == CHOOSE i \in Known : i.addr = a
  <2>1. i \in Known /\ i.addr = a
    BY <1>4
  <2>2. m_addrLookup'[a] = i.uuid /\ m_keyInfo'[a] = i.hash
    BY <1>2, <1>3, <1>4
  <2> HIDE DEF i
  <2>. QED
    BY <2>1, <2>2 DEF Known
<1>5. CASE ~\E i \in Known : i.addr = a
  BY <1>2, <1>3, <1>5
<1>. QED
  BY <1>4, <1>5

LEMMA InfosWholeKept ==
    ASSUME KMInv, RecodePoint, InfosWhole, [KMNext]_allVars PROVE InfosWhole'
<1> USE DEF KMInv, KMTypes, LookupTypes
<1>1. up' => m_path'
  BY UpCases, PathKept DEF InfosWhole, Construct, Start, End, Stop, IdentityInv, TypeInv
<1>2. ASSUME NEW a \in Addrs, m_keyInfo'[a] # None PROVE up' /\ m_addrLookup'[a] # None
  <2>1. CASE Construct
    <3>1. ~up /\ m_keyInfo'[a] = m_keyInfo[a]
      BY <2>1 DEF Construct, Start
    <3>. QED
      BY <1>2, <3>1 DEF InfosWhole
  <2>2. ~End
    BY <1>2 DEF End, NoAddrs
  <2>3. SUFFICES ASSUME up' = up, UNCHANGED lookups \/ Recording PROVE up' /\ m_addrLookup'[a] # None
    BY <2>1, <2>2, UpCases, LookupCases DEF IdentityInv, TypeInv
  <2>4. CASE m_addrLookup'[a] = m_addrLookup[a] /\ m_keyInfo'[a] = m_keyInfo[a]
    BY <1>2, <2>3, <2>4 DEF InfosWhole
  <2>5. ASSUME NEW b \in Addrs, NEW u \in Uuids, NEW h, Enter(b, u, h), up PROVE up' /\ m_addrLookup'[a] # None
    BY <2>3, <2>4, <2>5, NoneElsewhere DEF Enter
  <2>6. CASE ImportSaved
    BY <2>5, <2>6 DEF ImportSaved, SaveReturn, DoingType
  <2>7. CASE RecodeSaved
    <3>1. m_addrLookup[doing.addr] \in Uuids /\ m_addrLookup' = m_addrLookup /\ up
      BY <2>7 DEF RecodeSaved, RecodePoint, SaveReturn, Stored
    <3>2. m_keyInfo'[a] = m_keyInfo[a] \/ a = doing.addr
      BY <2>7 DEF RecodeSaved
    <3>. QED
      BY <2>3, <2>4, <3>1, <3>2, NoneElsewhere
  <2>8. ASSUME NEW p \in Passes, LoadAccepted(p) PROVE up' /\ m_addrLookup'[a] # None
    <3>1. up
      BY <2>8 DEF LoadAccepted, Opening, Resting, Idle
    <3>. QED
      BY <2>3, <2>4, <2>8, <3>1, TakenEntry, NoneElsewhere DEF Stored
  <2>9. ASSUME NEW u \in Uuids, NEW p \in Passes, importExisting(u, p) PROVE up' /\ m_addrLookup'[a] # None
    <3>1. AddressOf[Secret(u, p, TRUE)] \in Addrs
      BY <2>9, ExistingSecret DEF importExisting
    <3>. QED
      BY <2>5, <2>9, <3>1 DEF importExisting, Ready, Resting, Idle
  <2>10. ASSUME NEW u \in Uuids, NEW b \in Addrs, importExistingAs(u, b) PROVE up' /\ m_addrLookup'[a] # None
    BY <2>5, <2>10 DEF importExistingAs, Ready, Resting, Idle
  <2>11. ASSUME NEW b \in Addrs, killAccount(b) \/ killUnknown(b) \/ killAccountThrows(b)
         PROVE up' /\ m_addrLookup'[a] # None
    BY <1>2, <2>4, <2>11 DEF killAccount, killUnknown, killAccountThrows, Forget
  <2>. QED
    BY <2>3, <2>4, <2>6, <2>7, <2>8, <2>9, <2>10, <2>11 DEF Recording, LoadSaved, lookups
<1>3. CASE WriteKeys
  <2>1. keysFile' = Contents \/ keysFile' = None \/ keysFile'.infos = {}
    BY <1>3, KeysWritten DEF TornKeys
  <2>2. ASSUME NEW i \in Contents.infos
        PROVE  /\ i.addr \in Addrs /\ m_keyInfo[i.addr] # None
               /\ i = [addr |-> i.addr, uuid |-> m_addrLookup[i.addr], hash |-> m_keyInfo[i.addr]]
    BY DEF Contents
  <2>3. ASSUME NEW i \in Contents.infos PROVE i.uuid # None
    <3>1. i.uuid = m_addrLookup[i.addr]
      BY <2>2
    <3>. QED
      BY <2>2, <3>1 DEF InfosWhole
  <2>4. \A i, j \in Contents.infos : i.addr = j.addr => i = j
    BY <2>2
  <2>. QED
    BY <1>1, <1>2, <2>1, <2>3, <2>4 DEF InfosWhole
<1>4. CASE keysFile' = keysFile
  BY <1>1, <1>2, <1>4 DEF InfosWhole
<1>. QED
  BY <1>3, <1>4, FileCases DEF files, WriteSalt

(* Hashes enter memory from a loaded manager or from the keys file. *)
LEMMA DefaultPointKept ==
    ASSUME Orderly, "full" \notin Faults, KMInv, OrderInv, InfosWhole, RecodePoint, DefaultPoint, [KMNext]_allVars
    PROVE  DefaultPoint'
<1> USE DEF KMInv, OrderInv, KMTypes
<1>1. ASSUME NEW p \in Passes, NEW s \in SaltContents PROVE <<p, s>> # None
  BY KMAssumption
<1>2. loaded' => keysFile'.default = m_default' /\ m_keysFileKey' # None
  <2>1. ASSUME Elsewhere \/ Ending PROVE UNCHANGED <<loaded, keysFile, m_default, m_keysFileKey>>
    BY <2>1, ElsewhereKeeps, EndingWrites DEF files
  <2>2. ASSUME WriteKeys PROVE keysFile'.default = m_default' /\ m_keysFileKey' # None
    <3>1. /\ keysFile' = Contents /\ m_default' = m_default /\ m_keysFileKey' = <<doing.pass, doing.salt>>
          /\ doing.pass \in Passes /\ doing.salt \in SaltContents
      BY <2>2, KeysWritten DEF WriteKeys, DoingType
    <3>2. Contents.default = m_default
      BY DEF Contents
    <3>. QED
      BY <1>1, <3>1, <3>2
  <2>3. ASSUME NEW p \in Passes, LoadAccepted(p), loaded' PROVE keysFile'.default = m_default' /\ m_keysFileKey' # None
    <3>1. m_keysFileKey' = <<p, saltFile>> /\ saltFile \in SaltContents /\ keysFile' = keysFile /\ ~loaded
      BY <2>3 DEF LoadAccepted, Opening, files, FileTypes
    <3>2. m_default' = keysFile.default
      BY <2>3, <3>1 DEF LoadAccepted, Loaded
    <3>. QED
      BY <1>1, <3>1, <3>2
  <2>4. ASSUME LoadSaved PROVE keysFile'.default = m_default' /\ m_keysFileKey' # None
    <3>1. /\ m_keysFileKey' = m_keysFileKey /\ keysFile' = keysFile /\ m_default' = keysFile.default
          /\ doing.step = "load"
      BY <2>4 DEF LoadSaved, Loaded, files
    <3>2. m_keysFileKey = <<doing.pass, saltFile>> /\ doing.pass \in Passes /\ saltFile \in SaltContents
      BY <3>1 DEF KeyPoint, FileTypes, DoingType
    <3>. QED
      BY <1>1, <3>1, <3>2
  <2>5. ASSUME \/ (\E s \in Salts : WriteSalt(s)) \/ WriteFails \/ StoreThrows \/ Construct
               \/ \E p \in Passes : save(p)
               \/ \E a \in Addrs, p, q \in Passes : recodeAccount(a, p, q)
               \/ \E s \in Secrets, p \in Passes : import(s, p)
        PROVE  UNCHANGED <<loaded, keysFile, m_default, m_keysFileKey>>
    BY <2>5 DEF WriteSalt, WriteFails, StoreThrows, Construct, save, recodeAccount, import, files, passwords
  <2>6. ASSUME End \/ \E p \in Passes : create(p) \/ LoadRejected(p) PROVE ~loaded'
    BY <2>6 DEF End, create, LoadRejected, Opening
  <2>. QED
    BY <2>1, <2>2, <2>3, <2>4, <2>5, <2>6 DEF KMNext, Elsewhere, Ending, DefaultPoint
<1>3. ASSUME NEW a \in Addrs, m_keyInfo'[a] \notin {None, UnknownPassword}
      PROVE  \/ m_keyInfo'[a] = m_keyInfo[a]
             \/ loaded' /\ m_keyInfo'[a][1] = m_default'
             \/ keysFile # None /\ keysFile' = keysFile /\ m_keyInfo'[a][1] = keysFile.default
  <2> USE DEF LookupTypes
  <2>1. ASSUME NEW b, NEW u, NEW h, Enter(b, u, h) PROVE m_keyInfo'[a] \in {m_keyInfo[a], h}
    BY <2>1 DEF Enter
  <2>2. ASSUME NEW p PROVE hashPassword(p)[1] = m_default
    BY DEF hashPassword
  <2>3. CASE Ending
    <3>1. loaded' /\ m_default' = m_default
      <4>1. loaded
        BY <2>3, EndingLoaded
      <4>2. UNCHANGED <<m_default, loaded>>
        BY <2>3, EndingWrites
      <4>. QED
        BY <4>1, <4>2
    <3>2. CASE ImportSaved
      BY <2>1, <2>2, <3>1, <3>2 DEF ImportSaved
    <3>3. CASE RecodeSaved
      BY <2>2, <3>1, <3>3 DEF RecodeSaved
    <3>4. ASSUME NEW u \in Uuids, NEW p \in Passes, importExisting(u, p)
          PROVE  m_keyInfo'[a] = m_keyInfo[a] \/ m_keyInfo'[a][1] = m_default
      BY <2>1, <2>2, <3>4 DEF importExisting
    <3>5. ASSUME NEW u \in Uuids, NEW b \in Addrs, importExistingAs(u, b) PROVE m_keyInfo'[a] = m_keyInfo[a]
      BY <1>3, <2>1, <3>5 DEF importExistingAs
    <3>6. ASSUME NEW b \in Addrs, killAccount(b) \/ killUnknown(b) PROVE m_keyInfo'[a] = m_keyInfo[a]
      BY <1>3, <3>6 DEF killAccount, killUnknown, Forget
    <3>. QED
      BY <2>3, <3>1, <3>2, <3>3, <3>4, <3>5, <3>6 DEF Ending
  <2>4. ASSUME NEW p \in Passes, LoadAccepted(p)
        PROVE  \/ m_keyInfo'[a] = m_keyInfo[a]
               \/ keysFile # None /\ keysFile' = keysFile /\ m_keyInfo'[a][1] = keysFile.default
    <3>1. keysFile # None /\ keysFile' = keysFile
      BY <2>4 DEF LoadAccepted, files
    <3>. QED
      BY <1>3, <2>4, <3>1, TakenEntry DEF DefaultPoint
  <2>5. ASSUME NEW b \in Addrs, killAccountThrows(b) PROVE m_keyInfo'[a] = m_keyInfo[a]
    BY <1>3, <2>5 DEF killAccountThrows, Forget
  <2>6. ASSUME Construct \/ LoadSaved \/ UNCHANGED lookups PROVE m_keyInfo'[a] = m_keyInfo[a]
    BY <2>6 DEF Construct, LoadSaved, lookups
  <2>7. ~End
    BY <1>3 DEF End, NoAddrs
  <2>. QED
    BY <2>3, <2>4, <2>5, <2>6, <2>7, LookupCases DEF Recording, Ending
<1>4. loaded /\ ~loaded' => End
  BY FileCases DEF KMNext, Query, StoreSaving, StoreThrows, LoadSaved, ImportSaved, RecodeSaved, WriteFails, WriteSalt, WriteKeys,
       create, save, LoadAccepted, Loaded, LoadRejected, notePassword, import, importExisting, importExistingAs,
       secretOf, recodeAccount, killAccount, killUnknown, killAccountThrows, Construct, allVars, kmVars
<1>5. CASE WriteKeys
  <2>1. /\ keysFile' = Contents /\ Contents.default = m_default /\ m_keyInfo' = m_keyInfo /\ m_default' = m_default
        /\ loaded' = (loaded \/ doing.step = "rekey") /\ doing.step \in {"keys", "rekey"}
    BY <1>5, KeysWritten DEF WriteKeys, Contents, lookups
  <2>2. loaded'
    BY <2>1 DEF Ordered
  <2>3. ~loaded => keysFile = None
    BY <2>1 DEF Ordered
  <2>4. ASSUME NEW a \in Addrs, m_keyInfo[a] \notin {None, UnknownPassword} PROVE m_keyInfo[a][1] = m_default
    BY <2>3, <2>4 DEF DefaultPoint
  <2>5. ASSUME NEW i \in Contents.infos, i.hash # UnknownPassword PROVE i.hash[1] = m_default
    <3>1. PICK a \in Addrs : m_keyInfo[a] # None /\ i = [addr |-> a, uuid |-> m_addrLookup[a], hash |-> m_keyInfo[a]]
      BY DEF Contents
    <3>2. i.hash = m_keyInfo[a]
      BY <3>1
    <3>. QED
      BY <2>4, <2>5, <3>1, <3>2
  <2>. QED
    BY <1>2, <2>1, <2>2, <2>4, <2>5 DEF DefaultPoint
<1>6. CASE keysFile' = keysFile /\ ~WriteKeys
  <2>1. ASSUME NEW a \in Addrs, m_keyInfo'[a] \notin {None, UnknownPassword}
        PROVE  (loaded' \/ keysFile' # None) /\ m_keyInfo'[a][1] = keysFile'.default
    <3>1. ~End
      BY <2>1 DEF End, NoAddrs
    <3>2. CASE m_keyInfo'[a] = m_keyInfo[a]
      BY <1>4, <1>6, <2>1, <3>1, <3>2 DEF DefaultPoint
    <3>. QED
      BY <1>2, <1>3, <1>6, <2>1, <3>2
  <2>. QED
    BY <1>2, <1>6, <2>1 DEF DefaultPoint
<1>. QED
  BY <1>5, <1>6, FileCases DEF files, WriteSalt

(* save() replaces or removes every file that has the old password. *)
LEMMA ReplacedNext ==
    ASSUME TypeInv, NEW u \in Stored, NEW f \in FileNames, SaveStep,
           ToReplace(f, u), Readable(f)', disk'[f] = disk[f]
    PROVE  ToReplace(f, u)'
<1> USE DEF TypeInv, TypeOK, Shape
<1>1. ASSUME NEW v \in Uuids, SaveOpen(v) PROVE ToReplace(f, u)'
  <2>1. /\ phase = "loop" /\ phase' = "write" /\ cur' = v /\ todo' = todo /\ m_keys' = m_keys
        /\ disk' = [disk EXCEPT ![v] = Torn] /\ v \in FileNames
    BY <1>1 DEF SaveOpen, FileNames
  <2>2. f # v
    BY <2>1 DEF Readable
  <2>. QED
    BY <2>1, <2>2 DEF ToReplace, Under
<1>2. ASSUME SaveWritten \/ SaveWriteShort PROVE ToReplace(f, u)'
  <2>1. /\ phase = "write" /\ phase' = "remove" /\ cur' = cur /\ todo' = todo /\ old' = m_keys[cur].file
        /\ cur \in Uuids
    BY <1>2 DEF SaveWritten, SaveWriteShort, SwapFilename, Stored
  <2>2. cur # u => m_keys'[u] = m_keys[u]
    BY <1>2, <2>1 DEF SaveWritten, SaveWriteShort, SwapFilename, Stored
  <2>. QED
    BY <2>1, <2>2 DEF ToReplace, Under
<1>3. ASSUME SaveRemoveOld PROVE ToReplace(f, u)'
  <2>1. /\ phase = "remove" /\ phase' = "loop" /\ todo' = todo \ {cur} /\ m_keys' = m_keys
        /\ disk' = IF OldIsOther THEN [disk EXCEPT ![old] = None] ELSE disk
    BY <1>3 DEF SaveRemoveOld
  <2>2. ~(cur = u /\ f = old /\ f # u)
    <3>1. SUFFICES ASSUME cur = u, f = old, f # u PROVE FALSE
      OBVIOUS
    <3>2. OldIsOther
      BY <3>1, NoneElsewhere DEF OldIsOther
    <3>3. disk'[f] = None
      BY <2>1, <3>1, <3>2
    <3>. QED
      BY <3>3 DEF Readable
  <2>3. u \in todo /\ ~Under(u) /\ f \in {u, m_keys[u].file} /\ cur # u
    BY <2>1, <2>2 DEF ToReplace, Under
  <2>. QED
    BY <2>1, <2>3 DEF ToReplace, Under
<1>. QED
  BY <1>1, <1>2, <1>3, SaveStepCases

LEMMA RecodePointKept ==
    ASSUME KMInv, InfosWhole, RecodePoint, [KMNext]_allVars PROVE RecodePoint'
<1> USE DEF KMInv
<1> SUFFICES ASSUME doing'.step = "recode",
                    NEW a, NEW u, NEW q, a = doing'.addr, u = doing'.uuid, q = doing'.pass
             PROVE  /\ a # ZeroAddress /\ u = m_addrLookup'[a] /\ u \in Stored' /\ m_keys'[u].pass = q
                    /\ a \notin broken' => \A f \in FileNames :
                          Readable(f)' /\ disk'[f].id = u => disk'[f].pass = q \/ ToReplace(f, u)'
  BY DEF RecodePoint
<1>1. ASSUME NEW b \in Addrs \ {ZeroAddress}, NEW p \in Passes, NEW r \in Passes, recodeAccount(b, p, r)
      PROVE  /\ a # ZeroAddress /\ u = m_addrLookup'[a] /\ u \in Stored' /\ m_keys'[u].pass = q
             /\ a \notin broken' => \A f \in FileNames :
                   Readable(f)' /\ disk'[f].id = u => disk'[f].pass = q \/ ToReplace(f, u)'
  <2>1. PICK v \in Stored :
           /\ v = m_addrLookup[b] /\ doing' = At("recode", b, v, r, None)
           /\ Stored' = Stored /\ m_keys'[v].pass = r /\ m_keys'[v].file = m_keys[v].file
           /\ disk' = disk /\ phase' = "loop" /\ (m_path => todo' = Stored')
    BY <1>1, PassRecode
  <2>2. a = b /\ u = v /\ q = r
    BY <2>1, AtFields
  <2>3. m_addrLookup' = m_addrLookup /\ m_path
    BY <1>1 DEF recodeAccount, Ready, Resting, Idle, lookups, InfosWhole
  <2>4. b \notin broken' => ~Forgotten(v)
    BY <1>1, <2>1 DEF recodeAccount, KMTypes, HistoryTypes
  <2>5. ASSUME b \notin broken', NEW f \in FileNames, Readable(f)', disk'[f].id = v PROVE ToReplace(f, v)'
    <3>1. f \in {v, m_keys[v].file}
      BY <2>1, <2>4, <2>5 DEF Forgotten, Readable
    <3>. QED
      BY <2>1, <2>3, <3>1 DEF ToReplace, Under
  <2>. QED
    BY <2>1, <2>2, <2>3, <2>5
<1>2. ASSUME doing.step = "recode", doing' = doing, UNCHANGED allVars
      PROVE  /\ a # ZeroAddress /\ u = m_addrLookup'[a] /\ u \in Stored' /\ m_keys'[u].pass = q
             /\ a \notin broken' => \A f \in FileNames :
                   Readable(f)' /\ disk'[f].id = u => disk'[f].pass = q \/ ToReplace(f, u)'
  BY <1>2 DEF RecodePoint, allVars, vars, kmVars, lookups, history, Stored, Readable, ToReplace, Under
<1>3. ASSUME doing.step = "recode", doing' = doing, StoreSaving
      PROVE  /\ a # ZeroAddress /\ u = m_addrLookup'[a] /\ u \in Stored' /\ m_keys'[u].pass = q
             /\ a \notin broken' => \A f \in FileNames :
                   Readable(f)' /\ disk'[f].id = u => disk'[f].pass = q \/ ToReplace(f, u)'
  <2> USE DEF IdentityInv
  <2>1. /\ a # ZeroAddress /\ u = m_addrLookup[a] /\ u \in Stored /\ m_keys[u].pass = q
        /\ a \notin broken => \A f \in FileNames :
              Readable(f) /\ disk[f].id = u => disk[f].pass = q \/ ToReplace(f, u)
    BY <1>3 DEF RecodePoint
  <2>2. SaveStep /\ m_addrLookup' = m_addrLookup /\ broken' = broken
    BY <1>3 DEF StoreSaving, kmVars, lookups, history
  <2>3. u \in Stored' /\ m_keys'[u].pass = q
    BY <2>1, <2>2, SaveKeepsKeys, SaveKeepsEntries
  <2>4. ASSUME a \notin broken, NEW f \in FileNames, Readable(f)', disk'[f].id = u
        PROVE  disk'[f].pass = q \/ ToReplace(f, u)'
    <3>1. CASE disk'[f] = disk[f]
      <4>1. Readable(f)
        BY <2>4, <3>1 DEF Readable
      <4>2. CASE ToReplace(f, u)
        BY <2>1, <2>2, <2>4, <3>1, <4>2, ReplacedNext
      <4>. QED
        BY <2>1, <2>4, <3>1, <4>1, <4>2
    <3>2. CASE cur \in Stored /\ disk'[f] = FileOf(cur)
      BY <2>1, <2>4, <3>2, LiveMemory
    <3>. QED
      BY <2>2, <2>4, <3>1, <3>2, SaveDisk
  <2>. QED
    BY <2>1, <2>2, <2>3, <2>4
<1>. QED
  BY <1>1, <1>2, <1>3, RecodeCases

(* When save() returns, nothing has the old password. *)
LEMMA RecodedWhole ==
    ASSUME RecodePoint, RecodeSaved, doing.addr \notin broken PROVE HasPass(doing.uuid, doing.pass)
<1> DEFINE u == doing.uuid
           q == doing.pass
<1>1. /\ u \in Stored /\ m_keys[u].pass = q /\ phase = "loop" /\ todo = {}
      /\ \A f \in FileNames : Readable(f) /\ disk[f].id = u => disk[f].pass = q \/ ToReplace(f, u)
  BY DEF RecodePoint, RecodeSaved, SaveReturn
<1>2. \A f : ~ToReplace(f, u)
  BY <1>1 DEF ToReplace
<1> HIDE DEF u, q
<1>3. ASSUME NEW c \in Live, c.id = u PROVE c.pass = q
  BY <1>1, <1>2, <1>3, LiveCases
<1>. QED
  BY <1>3 DEF HasPass, u, q

LEMMA ImportSaysKept ==
    ASSUME KMInv, ImportSays, [KMNext]_allVars PROVE ImportSays'
<1> SUFFICES ASSUME doing'.step = "import", NEW u, NEW p, u = doing'.uuid, p = doing'.pass PROVE HasPass(u, p)'
  BY DEF ImportSays, HasPass
<1>1. ASSUME NEW s \in Secrets, NEW q \in Passes, import(s, q) PROVE HasPass(u, p)'
  <2>1. PICK v \in Uuids : doing' = At("import", AddressOf[s], v, q, None) /\ HasPass(v, q)'
    BY <1>1, PassImport DEF KMInv
  <2>2. u = v /\ p = q
    BY <2>1, AtFields
  <2>. QED
    BY <2>1, <2>2
<1>2. ASSUME doing' = doing PROVE HasPass(u, p)'
  <2>1. ~Repassing
    BY <1>2, RestStep DEF Repassing, import, recodeAccount, Ready, Resting
  <2>2. HasPass(u, p)
    BY <1>2 DEF ImportSays
  <2>. QED
    BY <2>1, <2>2, PassNext, HasPassKept DEF KMInv
<1>. QED
  BY <1>1, <1>2, ImportCases DEF KMInv

(* A key that is live after a step was of the same account before. *)
LEMMA KeyWas ==
    ASSUME KeyIdentity, NEW u, NEW a, NoNewKey(u), KeyOfAddr(u, a)', NEW c \in Live', c.id = u PROVE KeyOfAddr(u, a)
<1>1. c \in Copies'
  BY DEF Live, Copies
<1>2. PICK d \in Copies : d.id = u /\ d.sec = c.sec
  BY <1>1 DEF NoNewKey
<1>3. AddressOf[d.sec] = a
  BY <1>1, <1>2 DEF KeyOfAddr
<1>. QED
  BY <1>2, <1>3 DEF KeyOfAddr, KeyIdentity, OneSecretPerUuid

LEMMA PasswordsAgreeKept ==
    ASSUME KMInv, RecodePoint, PasswordsAgree, [KMNext]_allVars PROVE PasswordsAgree'
<1> USE DEF KMInv
<1> SUFFICES ASSUME NEW a \in Addrs \ {ZeroAddress}, NEW u \in Uuids, KeyOfAddr(u, a)', a \notin broken',
                    ~(doing'.step = "recode" /\ doing'.uuid = u), NEW e \in Live', e.id = u
             PROVE  OnePass(u)'
  BY DEF PasswordsAgree, OnePass
<1>0. a \notin broken
  BY BrokenGrows
<1>1. ASSUME NoNewKey(u), PassKept(u), ~(doing.step = "recode" /\ doing.uuid = u) PROVE OnePass(u)'
  <2>1. KeyOfAddr(u, a)
    BY <1>1, KeyWas DEF IdentityInv
  <2>. QED
    BY <1>0, <1>1, <2>1, OnePassKept DEF PasswordsAgree
<1>2. ASSUME NEW s \in Secrets, NEW p \in Passes, import(s, p) PROVE OnePass(u)'
  <2>1. PICK v \in Uuids : /\ doing' = At("import", AddressOf[s], v, p, None) /\ HasPass(v, p)'
                           /\ \A w : w # v => PassKept(w)
    BY <1>2, PassImport
  <2>2. PICK x \in Uuids : /\ doing' = At("import", AddressOf[s], x, p, None)
                           /\ \A w : w # x => NoNewKey(w)
    BY <1>2, KeyMade
  <2>3. x = v
    BY <2>1, <2>2, AtFields
  <2>4. CASE u = v
    BY <2>1, <2>4 DEF HasPass, OnePass
  <2>5. doing.step # "recode"
    BY <1>2, RestStep DEF import, Ready, Resting
  <2>. QED
    BY <1>1, <2>1, <2>2, <2>3, <2>4, <2>5
<1>3. SUFFICES ASSUME ~\E s \in Secrets, p \in Passes : import(s, p) PROVE OnePass(u)'
  BY <1>2
<1>4. NoNewKey(u)
  BY <1>3, NoKeyMade
<1>5. ASSUME NEW b \in Addrs \ {ZeroAddress}, NEW p \in Passes, NEW q \in Passes, recodeAccount(b, p, q)
      PROVE OnePass(u)'
  <2>1. PICK v \in Stored : /\ doing' = At("recode", b, v, q, None)
                            /\ \A w : w # v => PassKept(w)
    BY <1>5, PassRecode
  <2>2. u # v
    BY <2>1, AtFields
  <2>3. doing.step # "recode"
    BY <1>5, RestStep DEF recodeAccount, Ready, Resting
  <2>. QED
    BY <1>1, <1>4, <2>1, <2>2, <2>3
<1>6. SUFFICES ASSUME ~Repassing PROVE OnePass(u)'
  BY <1>3, <1>5 DEF Repassing
<1>7. PassKept(u)
  BY <1>6, PassNext
<1>8. CASE doing.step = "recode" /\ doing.uuid = u
  <2>1. /\ doing.addr \in Addrs \ {ZeroAddress} /\ u = m_addrLookup[doing.addr] /\ u # None
    BY <1>8, NoneElsewhere DEF RecodePoint, KMTypes, DoingType
  <2>2. KeyOfAddr(u, a)
    BY <1>4, KeyWas DEF IdentityInv
  <2>3. a = doing.addr
    BY <2>1, <2>2, OneAccount
  <2>4. RecodeSaved
    BY <1>8, <2>3, RecodeLeft
  <2>5. HasPass(u, doing.pass)
    BY <1>0, <1>8, <2>3, <2>4, RecodedWhole
  <2>6. OnePass(u)
    BY <2>5 DEF HasPass, OnePass
  <2>. QED
    BY <1>7, <2>6, OnePassKept
<1>. QED
  BY <1>1, <1>4, <1>7, <1>8

(* It is enough to look at each account by itself. *)
LEMMA SaysEach ==
    ASSUME \A a \in Addrs \ {ZeroAddress} : \A u, h :
              u = m_addrLookup'[a] /\ h = m_keyInfo'[a] /\ a \notin broken' /\ ~Recoding(a)'
              /\ h \notin {None, UnknownPassword} => HasPass(u, h[2])'
    PROVE  MemorySays'
BY DEF MemorySays, Says, HasPass, Recoding

LEMMA MemorySaysKept ==
    ASSUME KMInv, InfosWhole, PasswordsAgree, MemorySays, FileSays, ImportSays, RecodePoint, [KMNext]_allVars
    PROVE  MemorySays'
<1> USE DEF KMInv
<1> SUFFICES ASSUME NEW a \in Addrs \ {ZeroAddress}, NEW u, NEW h, u = m_addrLookup'[a], h = m_keyInfo'[a],
                    a \notin broken', ~Recoding(a)', h \notin {None, UnknownPassword}
             PROVE  HasPass(u, h[2])'
  BY SaysEach
<1>0. a \notin broken
  BY BrokenGrows
<1>1. ASSUME ~Recoding(a), u = m_addrLookup[a], h = m_keyInfo[a] PROVE HasPass(u, h[2])'
  <2>1. u # None
    BY <1>1 DEF InfosWhole
  <2>2. u \in Stored /\ KeyOfAddr(u, a)
    BY <1>1, <2>1 DEF LookupRight
  <2>3. HasPass(u, h[2])
    BY <1>0, <1>1 DEF MemorySays, Says
  <2>4. PassKept(u)
    BY <2>2, AccountPass DEF Named
  <2>. QED
    BY <2>3, <2>4, HasPassKept
<1>2. CASE RecodeSaved /\ doing.addr = a
  <2>1. h = hashPassword(doing.pass) /\ u = doing.uuid
    BY <1>2 DEF RecodeSaved, RecodePoint, KMTypes, LookupTypes
  <2>2. h[2] = doing.pass
    BY <2>1 DEF hashPassword
  <2>3. HasPass(u, h[2])
    BY <1>0, <1>2, <2>1, <2>2, RecodedWhole
  <2>4. ~Repassing
    BY <1>2, RestStep DEF Repassing, RecodeSaved, import, recodeAccount, Ready, Resting
  <2>. QED
    BY <2>3, <2>4, PassNext, HasPassKept
<1>3. ~Recoding(a) \/ (RecodeSaved /\ doing.addr = a)
  <2>1. SUFFICES ASSUME Recoding(a), ~RecodeSaved PROVE FALSE
    BY DEF Recoding
  <2>. QED
    BY <2>1, RecodeLeft DEF Recoding
<1>4. ASSUME UNCHANGED <<m_addrLookup, m_keyInfo>> PROVE HasPass(u, h[2])'
  BY <1>1, <1>2, <1>3, <1>4
<1>5. ~End
  BY DEF End, NoAddrs
<1>6. ~Construct
  <2>1. SUFFICES ASSUME Construct PROVE FALSE
    OBVIOUS
  <2>2. ~up /\ m_keyInfo' = m_keyInfo
    BY <2>1 DEF Construct, Start
  <2>. QED
    BY <2>2 DEF InfosWhole
<1>7. ASSUME NEW b \in Addrs, NEW v \in Uuids, NEW k, Enter(b, v, k), doing.step # "recode"
      PROVE  HasPass(u, h[2])' \/ (a = b /\ u = v /\ h = k)
  BY <1>1, <1>7 DEF Enter, KMTypes, LookupTypes, Recoding
<1>8. ASSUME NEW b, Forget(b), doing.step # "recode" PROVE HasPass(u, h[2])'
  BY <1>1, <1>8 DEF Forget, KMTypes, LookupTypes, Recoding
<1>9. CASE ImportSaved
  <2>1. HasPass(u, h[2])' \/ (u = doing.uuid /\ h = hashPassword(doing.pass))
    BY <1>7, <1>9 DEF ImportSaved, KMTypes, DoingType
  <2>2. hashPassword(doing.pass)[2] = doing.pass
    BY DEF hashPassword
  <2>3. HasPass(doing.uuid, doing.pass)
    BY <1>9 DEF ImportSaved, ImportSays
  <2>4. ~Repassing
    BY <1>9, RestStep DEF Repassing, ImportSaved, import, recodeAccount, Ready, Resting
  <2>. QED
    BY <2>1, <2>2, <2>3, <2>4, PassNext, HasPassKept
<1>10. CASE RecodeSaved
  BY <1>1, <1>2, <1>3, <1>10 DEF RecodeSaved, KMTypes, LookupTypes, DoingType, Recoding
<1>11. ASSUME Ready PROVE doing.step # "recode" /\ ~Recoding(a)
  BY <1>11, RestStep DEF Ready, Resting, Recoding
<1>12. ASSUME NEW v \in Uuids, NEW p \in Passes, importExisting(v, p) PROVE HasPass(u, h[2])'
  <2> DEFINE b == AddressOf[Secret(v, p, TRUE)]
  <2>1. /\ Ready /\ Enter(b, v, hashPassword(p)) /\ Secret(v, p, TRUE) # None
        /\ broken' = IF m_keys[v] # None /\ m_keys[v].pass = p THEN broken ELSE broken \cup {b}
    BY <1>12 DEF importExisting
  <2>2. v \in Stored /\ b = AddressOf[m_keys[v].sec] /\ b \in Addrs /\ KeyOfAddr(v, b)
    BY <2>1, ExistingSecret, KeyOfStored DEF IdentityInv
  <2> HIDE DEF b
  <2>3. SUFFICES ASSUME a = b, u = v, h = hashPassword(p) PROVE HasPass(u, h[2])'
    BY <1>7, <1>11, <2>1, <2>2
  <2>4. m_keys[v].pass = p /\ h[2] = p
    BY <2>1, <2>3 DEF hashPassword
  <2>5. OnePass(v)
    BY <1>0, <1>11, <2>1, <2>2, <2>3 DEF PasswordsAgree
  <2>6. HasPass(v, p)
    BY <2>2, <2>4, <2>5, LiveMemory DEF OnePass, HasPass
  <2>7. ~Recoding(a)' /\ PassKept(v)
    BY <2>2, <2>3, AccountPass DEF Named
  <2>. QED
    BY <2>3, <2>4, <2>6, <2>7, HasPassKept
<1>13. ASSUME NEW v \in Uuids, NEW b \in Addrs, importExistingAs(v, b) PROVE HasPass(u, h[2])'
  BY <1>7, <1>11, <1>13 DEF importExistingAs
<1>14. ASSUME NEW b \in Addrs, killAccount(b) \/ killUnknown(b) \/ killAccountThrows(b) PROVE HasPass(u, h[2])'
  BY <1>8, <1>11, <1>14 DEF killAccount, killUnknown, killAccountThrows
<1>15. ASSUME NEW p \in Passes, LoadAccepted(p) PROVE HasPass(u, h[2])'
  <2>1. doing.step = "rest" /\ keysFile # None
    BY <1>15, RestStep DEF LoadAccepted, Opening, Resting
  <2>2. CASE u = m_addrLookup[a] /\ h = m_keyInfo[a]
    BY <1>1, <2>1, <2>2 DEF Recoding
  <2>3. ASSUME NEW i \in keysFile.infos, i.addr = a, i.uuid \in Stored, u = i.uuid, h = i.hash
        PROVE  HasPass(u, h[2])'
    <3>1. HasPass(u, h[2])
      BY <1>0, <2>1, <2>3 DEF FileSays, Says, Rerecording
    <3>2. KeyOfAddr(u, a)
      BY <2>1, <2>3 DEF InfosRight
    <3>3. PassKept(u)
      BY <2>3, <3>2, AccountPass DEF Named
    <3>. QED
      BY <3>1, <3>3, HasPassKept
  <2>. QED
    BY <1>15, <2>2, <2>3, TakenEntry
<1>. QED
  BY <1>4, <1>5, <1>6, <1>9, <1>10, <1>12, <1>13, <1>14, <1>15, LookupCases DEF Recording, LoadSaved, lookups

LEMMA FileSaysKept ==
    ASSUME KMInv, Ordered, DefaultPoint, InfosWhole, MemorySays, FileSays, [KMNext]_allVars PROVE FileSays'
<1> USE DEF KMInv
<1> SUFFICES ASSUME keysFile' # None, NEW i \in keysFile'.infos, ~Rerecording(i.addr)',
                    i.addr \notin broken', i.addr # ZeroAddress, i.hash \notin {None, UnknownPassword}
             PROVE  HasPass(i.uuid, i.hash[2])'
  BY DEF FileSays, Says, Rerecording
<1>0. i.addr \notin broken
  BY BrokenGrows
<1>1. CASE WriteKeys
  <2>1. PICK a \in Addrs : i = [addr |-> a, uuid |-> m_addrLookup[a], hash |-> m_keyInfo[a]]
    BY <1>1, KeysWritten DEF TornKeys, Contents
  <2>2. i.addr = a /\ i.uuid = m_addrLookup[a] /\ i.hash = m_keyInfo[a]
    BY <2>1
  <2>3. HasPass(i.uuid, i.hash[2])
    BY <1>0, <1>1, <2>2 DEF WriteKeys, MemorySays, Says, Recoding
  <2>4. ~Repassing
    BY <1>1, RestStep DEF Repassing, WriteKeys, import, recodeAccount, Ready, Resting
  <2>. QED
    BY <2>3, <2>4, PassNext, HasPassKept
<1>2. SUFFICES ASSUME ~WriteKeys PROVE HasPass(i.uuid, i.hash[2])'
  BY <1>1
<1>3. keysFile' = keysFile /\ keysFile # None /\ i \in keysFile.infos
  BY <1>2, FileCases DEF files, WriteSalt
<1>4. i.addr \in Addrs /\ KeyOfAddr(i.uuid, i.addr)
  BY <1>3 DEF KMTypes, FileTypes, InfosRight
<1>5. ~Rerecording(i.addr)
  BY <1>2, <1>4, RerecordLeft
<1>6. HasPass(i.uuid, i.hash[2])
  BY <1>0, <1>3, <1>5 DEF FileSays, Says
<1>7. ~Recoding(i.addr)'
  BY DEF Recoding, Rerecording
<1>8. PassKept(i.uuid)
  BY <1>3, <1>4, <1>7, AccountPass DEF Named
<1>. QED
  BY <1>6, <1>8, HasPassKept

LEMMA PassInvInit == ASSUME OnePasswordPerUuid, KMInit PROVE PassInv
<1>1. doing.step = "rest"
  BY RestStep DEF KMInit
<1>2. Stored = {} /\ \A f \in FileNames : Readable(f) => disk[f] \in KeyFiles
  BY DEF KMInit, Init, Stored, NoKeys, Readable
<1>3. \A u : OnePass(u)
  BY <1>2 DEF OnePasswordPerUuid, OnePass, Live
<1>4. PasswordsAgree
  BY <1>3 DEF PasswordsAgree
<1>5. MemorySays /\ FileSays /\ ImportSays /\ RecodePoint
  BY <1>1 DEF KMInit, NoAddrs, MemorySays, Says, FileSays, ImportSays, RecodePoint
<1>6. InfosWhole /\ DefaultPoint
  BY DEF KMInit, Init, NoAddrs, InfosWhole, DefaultPoint
<1>. QED
  BY <1>4, <1>5, <1>6 DEF PassInv

(* Every password the manager has recorded is the one its key has, though  *)
(* save() replaces the files one by one, load() takes the hashes from a    *)
(* keys file that an earlier process wrote, and any operation may fail or  *)
(* the process end at each step.  The hypotheses: callers load first and   *)
(* enter keys under their addresses, no write is silently lost, and of the *)
(* files in the directory before the manager first runs no two have one    *)
(* uuid and different passwords: SecretStore::load enters whichever comes  *)
(* last, so two of them would make the recorded one wrong by themselves.   *)
THEOREM PasswordRecordedAlways ==
    ASSUME Honest, Orderly, "full" \notin Faults, OnePasswordPerUuid PROVE KMSpec => []PasswordRecorded
<1> DEFINE Inv == KMInv /\ OrderInv /\ PassInv
<1>1. KMInit => Inv
  BY KMInvInit, OrderInvInit, PassInvInit
<1>2. Inv /\ [KMNext]_allVars => Inv'
  <2> SUFFICES ASSUME KMInv, OrderInv, PassInv, [KMNext]_allVars PROVE KMInv' /\ OrderInv' /\ PassInv'
    OBVIOUS
  <2>1. PasswordsAgree' /\ MemorySays' /\ FileSays'
    BY PasswordsAgreeKept, MemorySaysKept, FileSaysKept DEF PassInv, OrderInv
  <2>2. ImportSays' /\ RecodePoint'
    BY ImportSaysKept, RecodePointKept DEF PassInv
  <2>3. InfosWhole' /\ DefaultPoint'
    BY InfosWholeKept, DefaultPointKept DEF PassInv
  <2>. QED
    BY <2>1, <2>2, <2>3, KMInvNext, OrderInvNext DEF PassInv
<1>3. KMInv /\ PassInv => PasswordRecorded
  <2> SUFFICES ASSUME KMInv, PassInv, NEW a \in Addrs \ {ZeroAddress}, loaded, doing = Rest, a \notin broken,
                      m_addrLookup[a] # None, m_keyInfo[a] \notin {None, UnknownPassword}
               PROVE  m_keyInfo[a] = hashPassword(m_keys[m_addrLookup[a]].pass)
    BY DEF PasswordRecorded
  <2> DEFINE u == m_addrLookup[a]
             h == m_keyInfo[a]
  <2>1. u \in Stored
    BY DEF KMInv, LookupRight
  <2>2. HasPass(u, h[2])
    BY RestStep DEF PassInv, MemorySays, Says, Recoding
  <2>3. m_keys[u].pass = h[2]
    BY <2>1, <2>2, LiveMemory DEF HasPass
  <2>4. h[1] = m_default
    BY DEF PassInv, DefaultPoint
  <2>5. h \in Hashes
    BY DEF KMInv, KMTypes, LookupTypes
  <2> HIDE DEF u, h
  <2>6. h = <<m_default, m_keys[u].pass>>
    BY <2>3, <2>4, <2>5 DEF Hashes
  <2>. QED
    BY <2>6 DEF u, h, hashPassword
<1>. QED
  BY <1>1, <1>2, <1>3, PTL DEF KMSpec
=============================================================================
