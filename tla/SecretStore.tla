---------------------------- MODULE SecretStore ----------------------------
(***************************************************************************)
(* dev::SecretStore (src/libdevcrypto/SecretStore.{h,cpp}): encrypted keys *)
(* held in memory and mirrored, one file per key, in a directory.          *)
(*                                                                         *)
(* Every operation runs to completion in its caller's thread, but save()   *)
(* is broken into the file-system calls it makes, because the process may  *)
(* stop, or a call may fail, between any two of them.                      *)
(*                                                                         *)
(* Data abstraction.  A secret, a passphrase and a uuid are opaque values. *)
(* An encrypted key is the pair (sec, pass): decrypt returns sec exactly   *)
(* when it is given pass (the MAC check).  An address is one byte: the     *)
(* low nibble stands for the hash, the high nibble is the one that         *)
(* AccountManager rewrites.  The file <keys path>/<uuid>.json is named by  *)
(* its uuid; any other file name in the directory is a member of Strays.   *)
(***************************************************************************)
EXTENDS Naturals, FiniteSets

CONSTANTS
    Uuids,        \* key ids, h128
    Secrets,      \* private keys
    Passes,       \* passphrases
    Strays,       \* names of files in the directory that are not <uuid>.json
    RawFiles,     \* keystore files found outside or initially in the directory
    AddressOf,    \* toAddress(Secret): the address a private key derives
    Faults,       \* which environment failures happen, see the actions
    MaxRestarts,  \* bound: number of times the process stops
    None,         \* absent entry, absent file, empty result
    Torn          \* content of a file that does not parse as a key file

Address == 0 .. 255
ZeroAddress == 0
FileNames == Uuids \cup Strays
RawFile == [version : Nat, id : Uuids, sec : Secrets, pass : Passes, addr : Address]
KeyFile == [id : Uuids, sec : Secrets, pass : Passes, addr : Address]
EncryptedKey == [sec : Secrets, pass : Passes, addr : Address, file : FileNames \cup {None}]

(* upgraded(): a version 1 file is rebuilt from its Id and Crypto members  *)
(* only, so its address is lost; versions 2 and 3 keep it; any other       *)
(* version is rejected.                                                    *)
upgraded(r) ==
    IF r.version \notin 1 .. 3 THEN Torn
    ELSE [id |-> r.id, sec |-> r.sec, pass |-> r.pass,
          addr |-> IF r.version = 1 THEN ZeroAddress ELSE r.addr]

(* What the readable ones of RawFiles contain. *)
KeyFiles == {upgraded(r) : r \in RawFiles} \ {Torn}

ASSUME ConstantsAssumption ==
    /\ Uuids \cap Strays = {}
    /\ RawFiles \subseteq RawFile
    /\ AddressOf \in [Secrets -> Address]
    /\ Faults \subseteq {"open", "full", "remove"}
    /\ MaxRestarts \in Nat

ASSUME SentinelAssumption ==
    /\ None \notin FileNames \cup Secrets \cup KeyFile \cup EncryptedKey
    /\ Torn \notin KeyFile
    /\ Torn # None

(* A uuid identifies one key, and the address a key file declares is that  *)
(* of its key, or zero when the file has none.                             *)
ASSUME KeyFilesAssumption ==
    /\ \A k, l \in KeyFiles : k.id = l.id => k.sec = l.sec
    /\ \A k \in KeyFiles : k.addr \in {ZeroAddress, AddressOf[k.sec]}

VARIABLES
    up,        \* the process runs
    m_path,    \* the store has a directory (m_path is not empty)
    m_keys,    \* uuid -> EncryptedKey or None
    m_cached,  \* uuid -> decrypted secret or None
    disk,      \* file name -> KeyFile, Torn or None (no such file)
    phase,     \* where save() is: idle, loop, write, remove
    todo,      \* keys the loop of save() has still to visit
    cur,       \* the key it is at
    old,       \* the file name swapped out of m_keys[cur]
    restarts   \* times the process has stopped

memVars == <<m_path, m_keys, m_cached>>
saveVars == <<phase, todo, cur, old>>
vars == <<up, m_path, m_keys, m_cached, disk, phase, todo, cur, old, restarts>>

Idle == up /\ phase = "idle"
Stored == {u \in Uuids : m_keys[u] # None}

(* The JSON object save() writes for key u. *)
FileOf(u) == [id |-> u, sec |-> m_keys[u].sec, pass |-> m_keys[u].pass, addr |-> m_keys[u].addr]

Readable(f) == disk[f] \notin {None, Torn}

(* Every rendering of a key there is: in memory, in the directory, and in  *)
(* the files that may be imported.                                         *)
Copies == {FileOf(u) : u \in Stored} \cup {disk[f] : f \in {g \in FileNames : Readable(g)}} \cup KeyFiles

(* h128::random(): a uuid that occurs nowhere. *)
FreshUuid(u) == disk[u] = None /\ \A c \in Copies : c.id # u

-----------------------------------------------------------------------------
(* Reading *)

decrypt(e, p) == IF e.pass = p THEN e.sec ELSE None

noteAddress(e, s) ==
    IF e.addr # ZeroAddress THEN e
    ELSE [sec |-> e.sec, pass |-> e.pass, addr |-> AddressOf[s], file |-> e.file]

(* secret(uuid, pass, useCache): the value returned, None when empty; the  *)
(* map m_cached, and the map m_keys, as the call leaves them.              *)
CacheHit(u, useCache) == useCache /\ m_cached[u] # None

Secret(u, p, useCache) ==
    IF CacheHit(u, useCache) THEN m_cached[u]
    ELSE IF m_keys[u] = None THEN None
    ELSE decrypt(m_keys[u], p)

Decrypts(u, p, useCache) == ~CacheHit(u, useCache) /\ Secret(u, p, useCache) # None

CachedAfter(u, p, useCache) ==
    IF Decrypts(u, p, useCache)
    THEN [m_cached EXCEPT ![u] = Secret(u, p, useCache)] ELSE m_cached

KeysAfter(u, p, useCache) ==
    IF Decrypts(u, p, useCache)
    THEN [m_keys EXCEPT ![u] = noteAddress(m_keys[u], Secret(u, p, useCache))] ELSE m_keys

(* readKeyContent(): the entry a key file becomes; also the swap of the    *)
(* file name of an entry.                                                  *)
EntryOf(k, f) == [sec |-> k.sec, pass |-> k.pass, addr |-> k.addr, file |-> f]

(* load(): every readable file of the directory is entered under its id,   *)
(* in directory order, so any of the files of one id may be the last.      *)
LoadChoices(keys, u) ==
    LET fs == {f \in FileNames : Readable(f) /\ disk[f].id = u}
    IN IF fs = {} THEN {keys[u]} ELSE {EntryOf(disk[f], f) : f \in fs}

load(keys) ==
    {ks \in [Uuids -> UNION {LoadChoices(keys, u) : u \in Uuids}] :
        \A u \in Uuids : ks[u] \in LoadChoices(keys, u)}

-----------------------------------------------------------------------------
(* save(), one action per file-system call *)

(* Mutant of BeginSave: only the keys that have no file yet are written. *)
BeginSaveNewOnly ==
    /\ phase' = "loop"
    /\ todo' = IF m_path THEN {u \in Uuids : m_keys'[u] # None /\ m_keys'[u].file = None} ELSE {}
    /\ UNCHANGED <<cur, old, up, m_path, disk, restarts>>

BeginSave ==
    /\ phase' = "loop"
    /\ todo' = IF m_path THEN {u \in Uuids : m_keys'[u] # None} ELSE {}
    /\ UNCHANGED <<cur, old, up, m_path, disk, restarts>>

EndSave == phase' = "idle" /\ todo' = {} /\ cur' = None /\ old' = None

(* Mutant of SaveOpen: the old file is removed before the new one is written. *)
SaveOpenRemovesFirst(u) ==
    /\ up /\ phase = "loop" /\ u \in todo
    /\ disk' = [f \in FileNames |-> IF f = u THEN Torn ELSE IF f = m_keys[u].file THEN None ELSE disk[f]]
    /\ phase' = "write" /\ cur' = u
    /\ UNCHANGED <<up, m_path, m_keys, m_cached, todo, old, restarts>>

(* writeFile opens the canonical file with ios::trunc. *)
SaveOpen(u) ==
    /\ up /\ phase = "loop" /\ u \in todo
    /\ disk' = [disk EXCEPT ![u] = Torn]
    /\ phase' = "write" /\ cur' = u
    /\ UNCHANGED <<up, m_path, m_keys, m_cached, todo, old, restarts>>

(* The swap of the file names after writeFile returned. *)
SwapFilename ==
    /\ old' = m_keys[cur].file
    /\ m_keys' = [m_keys EXCEPT ![cur] = EntryOf(m_keys[cur], cur)]
    /\ phase' = "remove"
    /\ UNCHANGED <<up, m_path, m_cached, todo, cur, restarts>>

(* The text is written.  The stream holds it in its buffer, and "if (!s)"   *)
(* is tested before the destructor flushes it, so on a full device the file *)
(* stays empty and nothing is noticed.                                     *)
SaveWrite ==
    /\ up /\ phase = "write"
    /\ disk' \in {[disk EXCEPT ![cur] = FileOf(cur)]} \cup (IF "full" \in Faults THEN {disk} ELSE {})
    /\ SwapFilename

OldIsOther == old # None /\ old # cur

(* Mutant of OldIsOther's use: the old name is removed even if it is the new one. *)
SaveRemovesSame ==
    /\ up /\ phase = "remove"
    /\ disk' = IF old # None THEN [disk EXCEPT ![old] = None] ELSE disk
    /\ todo' = todo \ {cur}
    /\ phase' = "loop" /\ cur' = None /\ old' = None
    /\ UNCHANGED <<up, m_path, m_keys, m_cached, restarts>>

(* Mutant of SaveRemoveOld: the loop does not advance. *)
SaveNeverAdvances ==
    /\ up /\ phase = "remove"
    /\ disk' = IF OldIsOther THEN [disk EXCEPT ![old] = None] ELSE disk
    /\ phase' = "loop" /\ cur' = None /\ old' = None
    /\ UNCHANGED <<up, m_path, m_keys, m_cached, todo, restarts>>

SaveRemoveOld ==
    /\ up /\ phase = "remove"
    /\ disk' = IF OldIsOther THEN [disk EXCEPT ![old] = None] ELSE disk
    /\ todo' = todo \ {cur}
    /\ phase' = "loop" /\ cur' = None /\ old' = None
    /\ UNCHANGED <<up, m_path, m_keys, m_cached, restarts>>

SaveReturn ==
    /\ up /\ phase = "loop" /\ todo = {}
    /\ EndSave
    /\ UNCHANGED <<up, m_path, m_keys, m_cached, disk, restarts>>

(* Mutant of SaveOpenFails: the failure is noticed after the file was truncated. *)
SaveOpenFailsLate ==
    /\ "open" \in Faults
    /\ up /\ phase = "loop"
    /\ \E u \in todo : disk' = [disk EXCEPT ![u] = Torn]
    /\ EndSave
    /\ UNCHANGED <<up, m_path, m_keys, m_cached, restarts>>

(* create_directories, or opening a file, fails: the exception leaves save *)
(* and the operation that called it.                                       *)
SaveOpenFails ==
    /\ "open" \in Faults
    /\ up /\ phase = "loop" /\ todo # {}
    /\ EndSave
    /\ UNCHANGED <<up, m_path, m_keys, m_cached, disk, restarts>>

SaveRemoveFails ==
    /\ "remove" \in Faults
    /\ up /\ phase = "remove" /\ OldIsOther
    /\ EndSave
    /\ UNCHANGED <<up, m_path, m_keys, m_cached, disk, restarts>>

SaveThrows == SaveOpenFails \/ SaveRemoveFails

SaveStep == (\E u \in Uuids : SaveOpen(u)) \/ SaveWrite \/ SaveRemoveOld

-----------------------------------------------------------------------------
(* Operations *)

(* The file name of the new entry is the bare uuid, which names no file.   *)
importSecret(u, s, p) ==
    /\ Idle /\ FreshUuid(u)
    /\ m_cached' = [m_cached EXCEPT ![u] = s]
    /\ m_keys' = [m_keys EXCEPT ![u] = [sec |-> s, pass |-> p, addr |-> AddressOf[s], file |-> None]]
    /\ BeginSave

(* importKey and importKeyContent of a file that parses: the entry of its  *)
(* id is replaced, the cached secret of that id stays.                     *)
importKey(k) ==
    /\ Idle
    /\ m_keys' = [m_keys EXCEPT ![k.id] = EntryOf(k, None)]
    /\ UNCHANGED m_cached
    /\ BeginSave

(* secret(uuid, pass, useCache) *)
secret(u, p, useCache) ==
    /\ Idle
    /\ m_cached' = CachedAfter(u, p, useCache)
    /\ m_keys' = KeysAfter(u, p, useCache)
    /\ UNCHANGED <<up, m_path, disk, saveVars, restarts>>

(* m_keys[_uuid].encryptedKey = ..: operator[] would create a missing entry. *)
Recoded(e, s, p) ==
    IF e = None THEN [sec |-> s, pass |-> p, addr |-> ZeroAddress, file |-> None]
    ELSE [sec |-> s, pass |-> p, addr |-> e.addr, file |-> e.file]

(* Mutant of recode: the test for an empty secret is missing. *)
recodeUnchecked(u, p, newPass) ==
    /\ Idle
    /\ m_cached' = [m_cached EXCEPT ![u] = None]
    /\ m_keys' = [KeysAfter(u, p, TRUE) EXCEPT ![u] =
                     Recoded(KeysAfter(u, p, TRUE)[u], Secret(u, p, TRUE), newPass)]
    /\ BeginSave

recode(u, p, newPass) ==
    /\ Idle
    /\ Secret(u, p, TRUE) # None
    /\ m_cached' = [m_cached EXCEPT ![u] = None]
    /\ m_keys' = [KeysAfter(u, p, TRUE) EXCEPT ![u] =
                     Recoded(KeysAfter(u, p, TRUE)[u], Secret(u, p, TRUE), newPass)]
    /\ BeginSave

(* recode(address, ..): the first entry of that address in map order. *)
recodeAddress(u, p, newPass) ==
    /\ Idle
    /\ u \in Stored /\ decrypt(m_keys[u], p) # None
    /\ m_keys' = [m_keys EXCEPT ![u] = Recoded(m_keys[u], m_keys[u].sec, newPass)]
    /\ UNCHANGED m_cached
    /\ BeginSave

(* Mutant of kill: the cached secret is kept. *)
killKeepsCache(u) ==
    /\ Idle
    /\ UNCHANGED m_cached
    /\ m_keys' = [m_keys EXCEPT ![u] = None]
    /\ disk' = IF u \in Stored /\ m_keys[u].file # None
               THEN [disk EXCEPT ![m_keys[u].file] = None] ELSE disk
    /\ UNCHANGED <<up, m_path, saveVars, restarts>>

kill(u) ==
    /\ Idle
    /\ m_cached' = [m_cached EXCEPT ![u] = None]
    /\ m_keys' = [m_keys EXCEPT ![u] = None]
    /\ disk' = IF u \in Stored /\ m_keys[u].file # None
               THEN [disk EXCEPT ![m_keys[u].file] = None] ELSE disk
    /\ UNCHANGED <<up, m_path, saveVars, restarts>>

(* fs::remove throws after the cache entry has gone. *)
killThrows(u) ==
    /\ "remove" \in Faults
    /\ Idle /\ u \in Stored /\ m_keys[u].file # None
    /\ m_cached' = [m_cached EXCEPT ![u] = None]
    /\ UNCHANGED <<up, m_path, m_keys, disk, saveVars, restarts>>

clearCache ==
    /\ Idle
    /\ m_cached' = [u \in Uuids |-> None]
    /\ UNCHANGED <<up, m_path, m_keys, disk, saveVars, restarts>>

(* setPath() of a store constructed without a directory. *)
setPath ==
    /\ Idle /\ ~m_path
    /\ m_path' = TRUE
    /\ m_keys' \in load(m_keys)
    /\ UNCHANGED <<up, m_cached, disk, saveVars, restarts>>

NoKeys == [u \in Uuids |-> None]

(* The two constructors: with a directory, which is loaded, or without.    *)
Start(withPath) ==
    /\ ~up
    /\ up' = TRUE
    /\ m_path' = withPath
    /\ m_cached' = NoKeys
    /\ m_keys' \in IF withPath THEN load(NoKeys) ELSE {NoKeys}
    /\ UNCHANGED <<disk, saveVars, restarts>>

(* The process ends, at rest or in the middle of save(). *)
Stop ==
    /\ up /\ restarts < MaxRestarts
    /\ up' = FALSE /\ restarts' = restarts + 1
    /\ m_path' = FALSE /\ m_keys' = NoKeys /\ m_cached' = NoKeys
    /\ EndSave
    /\ UNCHANGED disk

Init ==
    /\ up = FALSE /\ m_path = FALSE /\ restarts = 0
    /\ m_keys = NoKeys /\ m_cached = NoKeys
    /\ disk \in [FileNames -> KeyFiles \cup {None}]
    /\ \A u \in Uuids : disk[u] = None
    /\ phase = "idle" /\ todo = {} /\ cur = None /\ old = None

Next ==
    \/ \E withPath \in BOOLEAN : Start(withPath)
    \/ Stop
    \/ SaveStep \/ SaveReturn \/ SaveThrows
    \/ \E u \in Uuids, s \in Secrets, p \in Passes : importSecret(u, s, p)
    \/ \E k \in KeyFiles : importKey(k)
    \/ \E u \in Uuids, p \in Passes, useCache \in BOOLEAN : secret(u, p, useCache)
    \/ \E u \in Uuids, p, newPass \in Passes : recode(u, p, newPass) \/ recodeAddress(u, p, newPass)
    \/ \E u \in Uuids : kill(u) \/ killThrows(u)
    \/ clearCache
    \/ setPath

(* save() has no wait in it: its thread is scheduled until it returns.     *)
Fairness == WF_vars(SaveStep) /\ WF_vars(SaveReturn)

Spec == Init /\ [][Next]_vars /\ Fairness
-----------------------------------------------------------------------------
(* Properties *)

(* Every variable has its type; in particular no entry of m_keys is ever   *)
(* built from the empty secret that secret() returns for a wrong password. *)
TypeOK ==
    /\ up \in BOOLEAN /\ m_path \in BOOLEAN
    /\ m_keys \in [Uuids -> EncryptedKey \cup {None}]
    /\ m_cached \in [Uuids -> Secrets \cup {None}]
    /\ disk \in [FileNames -> KeyFile \cup {None, Torn}]
    /\ phase \in {"idle", "loop", "write", "remove"}
    /\ todo \subseteq Uuids
    /\ cur \in Uuids \cup {None} /\ old \in FileNames \cup {None}
    /\ restarts \in 0 .. MaxRestarts

(* All copies of one uuid, in memory, in the directory and importable,     *)
(* hold the same private key.                                              *)
OneSecretPerUuid == \A c, d \in Copies : c.id = d.id => c.sec = d.sec

(* An address that is recorded is the one its key derives (noteAddress).   *)
AddressesRight == \A c \in Copies : c.addr \in {ZeroAddress, AddressOf[c.sec]}

(* A decrypted secret in m_cached is the one m_keys would decrypt to,      *)
(* whatever was imported over it, recoded or killed since.                 *)
CacheSound == \A u \in Uuids : m_cached[u] # None => u \in Stored /\ m_cached[u] = m_keys[u].sec

(* A uuid never changes the key it stands for: the cache, which secret()   *)
(* answers from without looking at m_keys, cannot give another key's       *)
(* secret, and no sequence of imports, recodes, kills, restarts and        *)
(* reloads mixes two keys up.                                              *)
KeyIdentity == OneSecretPerUuid /\ AddressesRight /\ CacheSound

Holds(f, u) == Readable(f) /\ disk[f].id = u /\ disk[f].sec = m_keys[u].sec

(* The file m_keys names for a key holds that key, except while save() is  *)
(* rewriting that very file: moving a key from a stray file to its         *)
(* canonical one has no point at which neither is readable.                *)
KeyHasGoodFile ==
    \A u \in Stored : LET f == m_keys[u].file IN
        f # None => Holds(f, u) \/ (phase = "write" /\ cur = u /\ f = u)

(* "changes to the keys are automatically synced to the directory"         *)
(* (SecretStore.h): when save() returns, every key in memory is in its     *)
(* canonical file as it is in memory.                                      *)
SaveSyncs ==
    phase = "loop" /\ todo = {} /\ m_path =>
        \A u \in Stored : m_keys[u].file = u /\ disk[u] = FileOf(u)

HasCopy(u) == \E f \in FileNames : Readable(f) /\ disk[f].id = u

(* The last readable file of a key leaves the directory only because the   *)
(* key is killed or because save() is rewriting that key's file; no other  *)
(* operation, failure or stop of the process costs a key its last copy.    *)
CopiesPersist ==
    [][\A u \in Uuids : HasCopy(u) /\ ~HasCopy(u)' =>
          \/ u \in Stored /\ u \notin Stored' /\ up'
          \/ phase' = "write" /\ cur' = u]_vars

TornFiles == {f \in FileNames : disk[f] = Torn}

(* save() rewrites every key file in place, but a process that stops in    *)
(* the middle of it damages at most one of them, and a failure that save() *)
(* reports damages none.                                                   *)
DamageBounded ==
    Cardinality(TornFiles) <= restarts + (IF phase = "write" THEN 1 ELSE 0)

(* save() visits every key and returns, unless it throws or the process    *)
(* stops.                                                                  *)
SaveTerminates == phase # "idle" ~> phase = "idle"
=============================================================================
