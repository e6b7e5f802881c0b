----------------------------- MODULE KeyManager -----------------------------
(***************************************************************************)
(* dev::eth::KeyManager (src/libdevcore/KeyManager.{h,cpp}) on top of the  *)
(* SecretStore it owns: which account has which key and which password     *)
(* opens it, kept in memory and in an encrypted keys file with its salt    *)
(* file.                                                                   *)
(*                                                                         *)
(* An operation that reaches SecretStore::save goes on after save returned *)
(* (doing.step says where it is); the salt file and the keys file are each *)
(* replaced by one rename, and the process may stop, or a file may not be  *)
(* written, before either.  On a full device the renamed file may be empty *)
(* or incomplete without anybody noticing ("full" in Faults).              *)
(*                                                                         *)
(* Data abstraction.  The hash of a password is the pair of the random     *)
(* string it is salted with (m_defaultPasswordDeprecated, None while it is *)
(* empty) and the password; the key of the keys file is the pair of the    *)
(* master password and the salt.  Names and hints are left out, and so are *)
(* the two cached passwords of legacy keys.                                *)
(***************************************************************************)
EXTENDS SecretStore

CONSTANTS
    Salts,           \* contents of the salt file
    Defaults,        \* random strings, m_defaultPasswordDeprecated
    UnknownPassword, \* the hash of a password that is not known
    Orderly,         \* callers load or create the keys file before they use it
    Honest,          \* callers enter a key under the address it has
    MaxFailures      \* bound: number of file-system calls that fail

Addrs == {ZeroAddress} \cup {AddressOf[s] : s \in Secrets}
Hashes == (Defaults \cup {None}) \X Passes

(* What the salt file may hold: nothing, part of a salt, or a salt. *)
SaltContents == Salts \cup {None, Torn}

ASSUME KMAssumption ==
    /\ None \notin Address \cup Passes \cup Salts \cup Defaults
    /\ None \notin Hashes \cup (Passes \X SaltContents) \cup {UnknownPassword}
    /\ Orderly \in BOOLEAN /\ Honest \in BOOLEAN
    /\ MaxFailures \in Nat

VARIABLES
    m_addrLookup,       \* address -> uuid or None
    m_uuidLookup,       \* uuid -> address or None
    m_keyInfo,          \* address -> hash of its password, UnknownPassword, or None
    m_cachedPasswords,  \* the hashes of the passwords that are cached
    m_default,          \* m_defaultPasswordDeprecated
    m_keysFileKey,      \* <<master password, salt>>, None while empty
    m_master,           \* hash of the master password, None while empty
    saltFile,           \* content of the salt file, None when there is none
    keysFile,           \* content of the keys file, None when there is none
    doing,              \* the operation under way and the step it is at
    loaded,             \* history: load or create succeeded in this process
    broken,             \* history: accounts an interrupted operation was about
    pairBroken,         \* history: a rekeying was interrupted or a write was lost,
                        \* and no rekeying completed since
    failures            \* file-system calls that failed

lookups == <<m_addrLookup, m_uuidLookup, m_keyInfo>>
passwords == <<m_cachedPasswords, m_default, m_keysFileKey, m_master>>
files == <<saltFile, keysFile>>
history == <<broken, pairBroken, failures>>
kmVars == <<lookups, passwords, files, doing, loaded, history>>
allVars == <<vars, kmVars>>

At(step, a, u, p, s) == [step |-> step, addr |-> a, uuid |-> u, pass |-> p, salt |-> s]
Rest == At("rest", None, None, None, None)
Resting == Idle /\ doing = Rest

(* No operation checks that the keys file was loaded.  Orderly callers use *)
(* the manager as KeyManager.h describes: they call exists().  "If so, get *)
(* the master password from the user and call load() with it.  If not,     *)
(* [..] call create() with it."                                            *)
Ready == Resting /\ (Orderly => loaded)
Opening == Resting /\ (Orderly => ~loaded)

exists == saltFile # None /\ keysFile # None

(* exists(), accounts(), hasAccount(), uuid(), address() and the like. *)
Query == Resting /\ UNCHANGED allVars

hashPassword(p) == <<m_default, p>>

-----------------------------------------------------------------------------
(* Passwords *)

(* getPassword(uuid, ..): the hash it looks for; what it answers when the  *)
(* user types p every time he is asked; the cache it leaves.               *)
HashFor(u) ==
    IF m_uuidLookup[u] # None /\ m_keyInfo[m_uuidLookup[u]] # None
    THEN m_keyInfo[m_uuidLookup[u]] ELSE UnknownPassword

Accepted(u, p) == HashFor(u) \in {UnknownPassword, hashPassword(p)}

getPassword(u, p) ==
    IF HashFor(u) \in m_cachedPasswords THEN HashFor(u)[2]
    ELSE IF Accepted(u, p) THEN p ELSE None

PasswordsAfter(u, p) ==
    IF u \in Stored /\ ~CacheHit(u, TRUE) /\ HashFor(u) \notin m_cachedPasswords /\ Accepted(u, p)
    THEN m_cachedPasswords \cup {hashPassword(p)} ELSE m_cachedPasswords

notePassword(p) ==
    /\ Ready
    /\ m_cachedPasswords' = m_cachedPasswords \cup {hashPassword(p)}
    /\ UNCHANGED <<vars, lookups, m_default, m_keysFileKey, m_master, files, doing, loaded, history>>

-----------------------------------------------------------------------------
(* The keys file *)

(* write(keysFile) at the end of an operation on account a: without a key  *)
(* nothing is written.                                                     *)
Write(a) ==
    doing' = IF m_keysFileKey = None THEN Rest
             ELSE At("keys", a, None, m_keysFileKey[1], m_keysFileKey[2])

(* What writeFile leaves of content x: the stream is tested while the data *)
(* is still in its buffer, so that on a full device an empty or incomplete *)
(* file, part, replaces the old one.                                       *)
FileAfter(x, part) == {x} \cup (IF "full" \in Faults THEN {None, part} ELSE {})

(* write(pass, keysFile), the first of its two files.  h256::random():     *)
(* a salt that occurs nowhere.                                             *)
WriteSalt(s) ==
    /\ up /\ doing.step = "salt"
    /\ s # saltFile
    /\ m_keysFileKey # None => s # m_keysFileKey[2]
    /\ keysFile # None => s # keysFile.salt
    /\ saltFile' \in FileAfter(s, Torn)
    /\ m_cachedPasswords' = m_cachedPasswords \cup {hashPassword(doing.pass)}
    /\ m_master' = hashPassword(doing.pass)
    /\ doing' = At("rekey", None, None, doing.pass, s)
    /\ UNCHANGED <<vars, lookups, m_default, m_keysFileKey, keysFile, loaded, history>>

(* What write(key, keysFile) stores under the key of `doing`; a part of it *)
(* that no password opens.                                                 *)
Contents ==
    [pass |-> doing.pass, salt |-> doing.salt, default |-> m_default,
     infos |-> {[addr |-> a, uuid |-> m_addrLookup[a], hash |-> m_keyInfo[a]] :
                   a \in {b \in Addrs : m_keyInfo[b] # None}}]

TornKeys == [pass |-> None, salt |-> None, default |-> None, infos |-> {}]

(* History: the rekeying is complete, or the file in memory and the one on *)
(* the device have come apart.                                             *)
Paired ==
    pairBroken' = \/ pairBroken /\ doing.step # "rekey"
                  \/ keysFile' # Contents
                  \/ doing.step = "rekey" /\ saltFile # doing.salt

(* Mutant of WriteKeys: the key of the file that was written is not kept. *)
WriteKeysForgets ==
    /\ up /\ doing.step \in {"keys", "rekey"}
    /\ keysFile' \in FileAfter(Contents, TornKeys)
    /\ loaded' = (loaded \/ doing.step = "rekey")
    /\ Paired
    /\ doing' = Rest
    /\ UNCHANGED <<vars, lookups, passwords, saltFile, broken, failures>>

(* write(key, keysFile); cachePassword(defaultPassword()) throws when the  *)
(* master password is not cached, with everything done.                    *)
WriteKeys ==
    /\ up /\ doing.step \in {"keys", "rekey"}
    /\ keysFile' \in FileAfter(Contents, TornKeys)
    /\ m_keysFileKey' = <<doing.pass, doing.salt>>
    /\ m_cachedPasswords' = m_cachedPasswords \cup
          (IF m_master \in m_cachedPasswords THEN {hashPassword(m_master[2])} ELSE {})
    /\ loaded' = (loaded \/ doing.step = "rekey")
    /\ Paired
    /\ doing' = Rest
    /\ UNCHANGED <<vars, lookups, m_default, m_master, saltFile, broken, failures>>

(* What an operation that ends here, by an exception or with the process,  *)
(* leaves behind.                                                          *)
Damage ==
    /\ broken' = IF doing.step \in {"recode", "keys"} THEN broken \cup ({doing.addr} \ {None}) ELSE broken
    /\ pairBroken' = (pairBroken \/ doing.step = "rekey")

Fails == failures < MaxFailures /\ failures' = failures + 1

WriteFails ==
    /\ "open" \in Faults
    /\ Fails
    /\ up /\ doing.step \in {"salt", "rekey", "keys"}
    /\ Damage
    /\ doing' = Rest
    /\ UNCHANGED <<vars, lookups, passwords, files, loaded>>

create(p) ==
    /\ Opening /\ (Orderly => ~exists)
    /\ \E d \in Defaults :
          /\ \A h \in m_cachedPasswords \cup {m_keyInfo[a] : a \in Addrs} : h \in Hashes => h[1] # d
          /\ keysFile # None => keysFile.default # d
          /\ m_default' = d
    /\ doing' = At("salt", None, None, p, None)
    /\ UNCHANGED <<vars, lookups, m_cachedPasswords, m_keysFileKey, m_master, files, loaded, history>>

save(p) ==
    /\ Ready
    /\ doing' = At("salt", None, None, p, None)
    /\ UNCHANGED <<vars, lookups, passwords, files, loaded, history>>

-----------------------------------------------------------------------------
(* load() *)

(* decryptSymNoAuth with another key yields no list of the right shape. *)
Opens(p) == keysFile.pass = p /\ keysFile.salt = saltFile

Known == {i \in keysFile.infos : i.uuid \in Stored}

(* The tail of load(): default password, master, caches. *)
Loaded(p) ==
    /\ m_default' = keysFile.default
    /\ m_master' = <<keysFile.default, p>>
    /\ m_cachedPasswords' = m_cachedPasswords \cup {<<keysFile.default, p>>}
    /\ loaded' = TRUE
    /\ doing' = Rest

(* m_keysFileKey is assigned before anything is decrypted, and an empty    *)
(* salt or a part of one is as good as another.  (An empty keys file is    *)
(* refused before that, with nothing changed.)                             *)
LoadRejected(p) ==
    /\ Opening /\ keysFile # None /\ ~Opens(p)
    /\ m_keysFileKey' = <<p, saltFile>>
    /\ UNCHANGED <<vars, lookups, m_cachedPasswords, m_default, m_master, files, doing, loaded, history>>

(* m_uuidLookup after the loop of load(): the last entry of a key counts. *)
TakeUuids ==
    m_uuidLookup' \in {f \in [Uuids -> Addrs \cup {None}] :
        \A u \in Uuids :
            IF \E i \in Known : i.uuid = u THEN \E i \in Known : i.uuid = u /\ f[u] = i.addr
            ELSE f[u] = m_uuidLookup[u]}

(* Mutant of TakeInfos: an address is looked up although its key is missing. *)
TakeInfosUnchecked ==
    /\ m_addrLookup' = [a \in Addrs |->
          IF \E i \in keysFile.infos : i.addr = a
          THEN (CHOOSE i \in keysFile.infos : i.addr = a).uuid ELSE m_addrLookup[a]]
    /\ TakeUuids
    /\ m_keyInfo' = [a \in Addrs |->
          IF \E i \in keysFile.infos : i.addr = a
          THEN (CHOOSE i \in keysFile.infos : i.addr = a).hash ELSE m_keyInfo[a]]

(* Mutant of TakeInfos: the names and password hashes are not read back. *)
TakeInfosNoInfo ==
    /\ m_addrLookup' = [a \in Addrs |->
          IF \E i \in Known : i.addr = a THEN (CHOOSE i \in Known : i.addr = a).uuid ELSE m_addrLookup[a]]
    /\ TakeUuids
    /\ UNCHANGED m_keyInfo

(* The entries whose key is in the store, or that have no uuid; an account *)
(* has at most one entry, a key may have several.                          *)
TakeInfos ==
    /\ m_addrLookup' = [a \in Addrs |->
          IF \E i \in Known : i.addr = a THEN (CHOOSE i \in Known : i.addr = a).uuid ELSE m_addrLookup[a]]
    /\ TakeUuids
    /\ LET taken == Known \cup {i \in keysFile.infos : i.uuid = None} IN
       m_keyInfo' = [a \in Addrs |->
          IF \E i \in taken : i.addr = a THEN (CHOOSE i \in taken : i.addr = a).hash ELSE m_keyInfo[a]]

(* SecretStore::noteAddress for every entry; the store is saved when one   *)
(* of the keys had no address.  The first entry of a key counts.           *)
Unaddressed == {i \in Known : m_keys[i.uuid].addr = ZeroAddress /\ i.addr # ZeroAddress}

LoadAccepted(p) ==
    /\ Opening /\ keysFile # None /\ Opens(p)
    /\ m_keysFileKey' = <<p, saltFile>>
    /\ TakeInfos
    /\ UNCHANGED <<files, history>>
    /\ \/ Unaddressed = {} /\ Loaded(p) /\ UNCHANGED vars
       \/ /\ Unaddressed # {}
          /\ \E noted \in [{i.uuid : i \in Unaddressed} -> Addrs] :
                /\ \A u \in DOMAIN noted : \E i \in Unaddressed : i.uuid = u /\ i.addr = noted[u]
                /\ m_keys' = [u \in Uuids |->
                      IF u \in DOMAIN noted
                      THEN [sec |-> m_keys[u].sec, pass |-> m_keys[u].pass, file |-> m_keys[u].file,
                            addr |-> noted[u]]
                      ELSE m_keys[u]]
          /\ UNCHANGED m_cached
          /\ BeginSave
          /\ doing' = At("load", None, None, p, None)
          /\ UNCHANGED <<m_cachedPasswords, m_default, m_master, loaded>>

LoadSaved ==
    /\ doing.step = "load"
    /\ SaveReturn /\ Loaded(doing.pass)
    /\ UNCHANGED <<lookups, m_keysFileKey, files, history>>

-----------------------------------------------------------------------------
(* Operations on accounts *)

(* The lookups once account a has key u under the password with hash h. *)
Enter(a, u, h) ==
    /\ m_addrLookup' = [m_addrLookup EXCEPT ![a] = u]
    /\ m_uuidLookup' = [m_uuidLookup EXCEPT ![u] = a]
    /\ m_keyInfo' = [m_keyInfo EXCEPT ![a] = h]

import(s, p) ==
    /\ Ready
    /\ \E u \in Uuids :
          /\ m_uuidLookup[u] = None /\ (keysFile # None => \A i \in keysFile.infos : i.uuid # u)
          /\ importSecret(u, s, p)
          /\ doing' = At("import", AddressOf[s], u, p, None)
    /\ m_cachedPasswords' = m_cachedPasswords \cup {hashPassword(p)}
    /\ UNCHANGED <<lookups, m_default, m_keysFileKey, m_master, files, loaded, history>>

ImportSaved ==
    /\ doing.step = "import"
    /\ SaveReturn
    /\ Enter(doing.addr, doing.uuid, hashPassword(doing.pass))
    /\ Write(None)
    /\ UNCHANGED <<passwords, files, loaded, history>>

(* m_store.secret answers from its cache whatever the password is; the     *)
(* hash of that password is recorded all the same.                         *)
importExisting(u, p) ==
    /\ Ready /\ Secret(u, p, TRUE) # None
    /\ secret(u, p, TRUE)
    /\ Enter(AddressOf[Secret(u, p, TRUE)], u, hashPassword(p))
    /\ m_cachedPasswords' = m_cachedPasswords \cup {hashPassword(p)}
    /\ broken' = IF m_keys[u] # None /\ m_keys[u].pass = p THEN broken
                 ELSE broken \cup {AddressOf[Secret(u, p, TRUE)]}
    /\ Write(None)
    /\ UNCHANGED <<m_default, m_keysFileKey, m_master, files, loaded, pairBroken, failures>>

(* The overload with an address.  It takes any uuid and any address; the   *)
(* hash is the default one, since callers know no other.                   *)
importExistingAs(u, a) ==
    /\ Ready
    /\ Honest => u \in Stored /\ a = AddressOf[m_keys[u].sec]
    /\ Enter(a, u, UnknownPassword)
    /\ Write(None)
    /\ UNCHANGED <<vars, passwords, files, loaded, history>>

(* secret(address, ..); a wrong password, or none, gives no secret. *)
secretOf(a, p, usePasswordCache) ==
    /\ Ready /\ m_addrLookup[a] # None
    /\ LET u == m_addrLookup[a] IN
       /\ secret(u, IF usePasswordCache THEN getPassword(u, p) ELSE p, usePasswordCache)
       /\ m_cachedPasswords' = IF usePasswordCache THEN PasswordsAfter(u, p) ELSE m_cachedPasswords
    /\ UNCHANGED <<lookups, m_default, m_keysFileKey, m_master, files, doing, loaded, history>>

(* The key has a file that the store does not know of (SecretStore forgets *)
(* it when a key is imported again); it keeps the old password.            *)
Forgotten(u) == \E f \in FileNames \ {u, m_keys[u].file} : Readable(f) /\ disk[f].id = u

(* A recode that is refused leaves what secretOf leaves. *)
recodeAccount(a, p, newPass) ==
    /\ Ready /\ m_addrLookup[a] # None
    /\ recode(m_addrLookup[a], getPassword(m_addrLookup[a], p), newPass)
    /\ m_cachedPasswords' = PasswordsAfter(m_addrLookup[a], p)
    /\ doing' = At("recode", a, m_addrLookup[a], newPass, None)
    /\ broken' = IF Forgotten(m_addrLookup[a]) THEN broken \cup {a} ELSE broken
    /\ UNCHANGED <<lookups, m_default, m_keysFileKey, m_master, files, loaded, pairBroken, failures>>

(* Mutant of RecodeSaved: the hash of the old password stays. *)
RecodeSavedKeepsHash ==
    /\ doing.step = "recode"
    /\ SaveReturn
    /\ Write(doing.addr)
    /\ UNCHANGED <<lookups, passwords, files, loaded, history>>

RecodeSaved ==
    /\ doing.step = "recode"
    /\ SaveReturn
    /\ m_keyInfo' = [m_keyInfo EXCEPT ![doing.addr] = hashPassword(doing.pass)]
    /\ Write(doing.addr)
    /\ UNCHANGED <<m_addrLookup, m_uuidLookup, passwords, files, loaded, history>>

(* The maps are cleared before the store is asked; m_addrLookup[a] makes   *)
(* an empty uuid of an unknown account.                                    *)
Forget(a) ==
    /\ m_addrLookup' = [m_addrLookup EXCEPT ![a] = None]
    /\ m_uuidLookup' = [u \in Uuids |-> IF u = m_addrLookup[a] THEN None ELSE m_uuidLookup[u]]
    /\ m_keyInfo' = [m_keyInfo EXCEPT ![a] = None]

killAccount(a) ==
    /\ Ready /\ m_addrLookup[a] # None
    /\ Forget(a)
    /\ kill(m_addrLookup[a])
    /\ Write(None)
    /\ UNCHANGED <<passwords, files, loaded, history>>

killUnknown(a) ==
    /\ Ready /\ m_addrLookup[a] = None
    /\ Forget(a)
    /\ Write(None)
    /\ UNCHANGED <<vars, passwords, files, loaded, history>>

killAccountThrows(a) ==
    /\ Ready /\ m_addrLookup[a] # None
    /\ Forget(a)
    /\ killThrows(m_addrLookup[a]) /\ Fails
    /\ broken' = broken \cup {a}
    /\ UNCHANGED <<passwords, files, doing, loaded, pairBroken>>

-----------------------------------------------------------------------------
(* save() of the store, constructor, end of the process *)

StoreSaving == SaveStep /\ UNCHANGED kmVars

StoreThrows ==
    /\ SaveThrows /\ Fails
    /\ Damage
    /\ doing' = Rest
    /\ UNCHANGED <<lookups, passwords, files, loaded>>

Construct ==
    /\ Start(TRUE)
    /\ m_uuidLookup' = [u \in Uuids |-> IF m_keys'[u] = None THEN None ELSE m_keys'[u].addr]
    /\ LET owners(a) == {u \in Uuids : m_keys'[u] # None /\ m_keys'[u].addr = a} IN
       m_addrLookup' \in {f \in [Addrs -> Uuids \cup {None}] :
          \A a \in Addrs : IF owners(a) = {} THEN f[a] = None ELSE f[a] \in owners(a)}
    /\ UNCHANGED <<m_keyInfo, passwords, files, doing, loaded, history>>

NoAddrs == [a \in Addrs |-> None]

End ==
    /\ Stop
    /\ Damage
    /\ m_addrLookup' = NoAddrs /\ m_uuidLookup' = NoKeys /\ m_keyInfo' = NoAddrs
    /\ m_cachedPasswords' = {} /\ m_default' = None /\ m_keysFileKey' = None /\ m_master' = None
    /\ doing' = Rest /\ loaded' = FALSE
    /\ UNCHANGED <<files, failures>>

KMInit ==
    /\ Init
    /\ m_addrLookup = NoAddrs /\ m_uuidLookup = NoKeys /\ m_keyInfo = NoAddrs
    /\ m_cachedPasswords = {} /\ m_default = None /\ m_keysFileKey = None /\ m_master = None
    /\ doing = Rest /\ loaded = FALSE
    /\ saltFile = None /\ keysFile = None /\ broken = {} /\ pairBroken = FALSE /\ failures = 0

KMNext ==
    \/ Construct \/ End \/ Query
    \/ StoreSaving \/ StoreThrows
    \/ LoadSaved \/ ImportSaved \/ RecodeSaved
    \/ (\E s \in Salts : WriteSalt(s)) \/ WriteKeys \/ WriteFails
    \/ \E p \in Passes : create(p) \/ save(p) \/ LoadAccepted(p) \/ LoadRejected(p) \/ notePassword(p)
    \/ \E s \in Secrets, p \in Passes : import(s, p)
    \/ \E u \in Uuids, p \in Passes : importExisting(u, p)
    \/ \E u \in Uuids, a \in Addrs : importExistingAs(u, a)
    \/ \E a \in Addrs \ {ZeroAddress}, p \in Passes, c \in BOOLEAN : secretOf(a, p, c)
    \/ \E a \in Addrs \ {ZeroAddress}, p, newPass \in Passes : recodeAccount(a, p, newPass)
    \/ \E a \in Addrs \ {ZeroAddress} : killAccount(a) \/ killUnknown(a) \/ killAccountThrows(a)

KMSpec == KMInit /\ [][KMNext]_allVars

-----------------------------------------------------------------------------
(* Properties *)

(* Every variable has its type, those of the store included. *)
KMTypeOK ==
    /\ TypeOK
    /\ m_addrLookup \in [Addrs -> Uuids \cup {None}]
    /\ m_uuidLookup \in [Uuids -> Addrs \cup {None}]
    /\ m_keyInfo \in [Addrs -> Hashes \cup {UnknownPassword, None}]
    /\ m_cachedPasswords \subseteq Hashes
    /\ m_default \in Defaults \cup {None}
    /\ m_keysFileKey \in (Passes \X SaltContents) \cup {None}
    /\ m_master \in Hashes \cup {None}
    /\ saltFile \in SaltContents
    /\ keysFile # None => keysFile.pass \in Passes \cup {None} /\ keysFile.salt \in SaltContents
    /\ doing.step \in {"rest", "salt", "rekey", "keys", "load", "import", "recode"}
    /\ broken \subseteq Addrs /\ pairBroken \in BOOLEAN /\ failures \in 0 .. MaxFailures

(* Orderly callers find a keys file that opens with the master password of *)
(* this process, at any point but between the renames of write(pass, ..):  *)
(* only a rekeying that was interrupted there, or a file lost to a full    *)
(* device, leaves one no password opens, and the next rekeying that        *)
(* completes repairs it.                                                   *)
KeysFileOpens ==
    keysFile # None /\ doing.step # "rekey" /\ ~pairBroken =>
        saltFile = keysFile.salt /\ (loaded => keysFile.pass = m_master[2])

(* secret(address, ..) asks the store for the key of that address: what    *)
(* the constructor, load, import, importExisting and kill made of the      *)
(* lookups names a stored key that derives the address, when callers are   *)
(* honest.                                                                 *)
LookupSound ==
    \A a \in Addrs \ {ZeroAddress} : m_addrLookup[a] # None =>
        m_addrLookup[a] \in Stored /\ AddressOf[m_keys[m_addrLookup[a]].sec] = a

(* "Hash of the password or h256() / UnknownPassword if unknown"           *)
(* (KeyManager.h): getPassword accepts no password but the one with the    *)
(* recorded hash, so that must be the one the key is encrypted with, when  *)
(* callers are orderly and honest; not so for an account whose recode was  *)
(* interrupted, whose key has a file the store has forgotten, or whose     *)
(* password importExisting did not verify because the secret was cached.   *)
PasswordRecorded ==
    \A a \in Addrs \ {ZeroAddress} :
        loaded /\ doing = Rest /\ a \notin broken
        /\ m_addrLookup[a] # None /\ m_keyInfo[a] \notin {None, UnknownPassword} =>
            m_keyInfo[a] = hashPassword(m_keys[m_addrLookup[a]].pass)

(* A process that has loaded the keys file keeps in it the entries of the *)
(* accounts that can be looked up: no interrupted operation, and no load   *)
(* that fails later, costs an account its name, hint and password hash;    *)
(* only a full device does.                                                *)
InfoKept ==
    [][keysFile # None /\ loaded /\ keysFile' \notin {None, TornKeys} =>
          \A i \in keysFile.infos :
             \/ \E j \in keysFile'.infos : j.addr = i.addr
             \/ i.uuid \notin Stored \/ m_addrLookup[i.addr] = None]_allVars

(* write(): "Only use if previously loaded ok.  @returns false if wasn't   *)
(* previously loaded ok." (KeyManager.h): import, importExisting, recode   *)
(* and kill leave a keys file alone that this process did not load.        *)
UnloadedLeftAlone ==
    [][keysFile # None /\ doing.step = "keys" /\ ~loaded => keysFile' = keysFile]_allVars
=============================================================================
