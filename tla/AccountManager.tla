-------------------------- MODULE AccountManager ---------------------------
(***************************************************************************)
(* cfx_cpp::AccountManager (src/libcfxcore/account.{h,cpp}) on top of the  *)
(* SecretStore it owns: a dictionary from Conflux account addresses to the *)
(* uuids of the store, every operation under one mutex.                    *)
(*                                                                         *)
(* An operation that reaches SecretStore::save holds the mutex while the   *)
(* store's save steps run (phase # "idle") and touches the dictionary only *)
(* after save returned; when save throws it never does.  Operations that   *)
(* do not save are one step.  GetDefault takes the mutex twice.            *)
(***************************************************************************)
EXTENDS SecretStore

CONSTANTS
    Threads,      \* callers of one AccountManager
    Importable    \* private keys a caller may pass to ImportPrivateKey

ASSUME ImportableAssumption == Importable \subseteq Secrets

(* getCfxUserAddress and Secret2CfxAddr: the type nibble becomes 1. *)
getCfxUserAddress(addr) == (addr % 16) + 16
Secret2CfxAddr(s) == getCfxUserAddress(AddressOf[s])

(* The account under which a keystore file without address is listed. *)
ZeroAccount == getCfxUserAddress(ZeroAddress)

(* The accounts that can occur. *)
Accounts == {Secret2CfxAddr(s) : s \in Secrets} \cup {ZeroAccount}

(* Different private keys have different accounts, none of them the zero   *)
(* account; "no account" is not an account.                                *)
ASSUME AccountsAssumption ==
    /\ \A s, r \in Secrets : Secret2CfxAddr(s) = Secret2CfxAddr(r) => s = r
    /\ \A s \in Secrets : Secret2CfxAddr(s) # ZeroAccount
    /\ None \notin Accounts

VARIABLES
    cfxAddressDic,  \* account -> uuid, None when absent
    entering,       \* the uuid an import will enter once save returns, or None
    inDefault,      \* threads between the two critical sections of GetDefault
    deleted,        \* history: uuids deleted from the directory and not stored since
    ret             \* outcome of the operation that finished last

amVars == <<cfxAddressDic, entering, inDefault, deleted, ret>>
allVars == <<vars, amVars>>

Listed == {a \in Accounts : cfxAddressDic[a] # None}

(* std::lock_guard: the mutex is free when no operation is saving. *)
MutexFree == Idle

Returns(r) == ret' = r /\ UNCHANGED <<cfxAddressDic, entering, inDefault, deleted>>

(* Secret::random(), hashed once more: a private key that occurs nowhere. *)
FreshSecret(s) == \A c \in Copies : c.sec # s

-----------------------------------------------------------------------------
(* Operations that store a key *)

(* A key is being stored (again) under uuid u. *)
Begins(u) ==
    /\ entering' = u
    /\ deleted' = IF m_path THEN deleted \ {u} ELSE deleted
    /\ UNCHANGED <<cfxAddressDic, inDefault, ret>>

(* importSecret under a random uuid, which the dictionary has not either. *)
ImportNew(s, p) ==
    \E u \in Uuids :
        /\ \A a \in Accounts : cfxAddressDic[a] # u
        /\ importSecret(u, s, p)
        /\ Begins(u)

Create(p) == \E s \in Secrets : FreshSecret(s) /\ ImportNew(s, p)

ImportPrivateKey(s, p) ==
    /\ MutexFree
    /\ \/ /\ Secret2CfxAddr(s) \in Listed
          /\ Returns("ok") /\ UNCHANGED vars
       \/ /\ Secret2CfxAddr(s) \notin Listed
          /\ ImportNew(s, p)

(* Both overloads; a path that is no regular file, or a file that upgraded *)
(* rejects, changes nothing.                                               *)
ImportKeystore(r) ==
    /\ MutexFree
    /\ \/ upgraded(r) = Torn /\ Returns("fail") /\ UNCHANGED vars
       \/ /\ upgraded(r) # Torn
          /\ importKey(upgraded(r))
          /\ Begins(r.id)

UpdatePassphrase(a, p, newPass) ==
    /\ MutexFree
    /\ \/ a \notin Listed /\ Returns("fail") /\ UNCHANGED vars
       \/ /\ a \in Listed
          /\ Secret(cfxAddressDic[a], p, TRUE) = None
          /\ Returns("fail") /\ UNCHANGED vars
       \/ /\ a \in Listed
          /\ recode(cfxAddressDic[a], p, newPass)
          /\ entering' = None /\ UNCHANGED <<cfxAddressDic, inDefault, deleted, ret>>

(* The tail of the operation that was saving. *)
Finish ==
    /\ SaveReturn
    /\ ret' = "ok" /\ entering' = None
    /\ cfxAddressDic' = IF entering = None THEN cfxAddressDic
          ELSE [cfxAddressDic EXCEPT ![getCfxUserAddress(m_keys[entering].addr)] = entering]
    /\ UNCHANGED <<inDefault, deleted>>

(* Mutant of Throw: the account is entered although save threw. *)
ThrowEntersAnyway ==
    /\ SaveThrows
    /\ ret' = "throw" /\ entering' = None
    /\ cfxAddressDic' = IF entering = None THEN cfxAddressDic
          ELSE [cfxAddressDic EXCEPT ![getCfxUserAddress(m_keys[entering].addr)] = entering]
    /\ UNCHANGED <<inDefault, deleted>>

Throw ==
    /\ SaveThrows
    /\ ret' = "throw" /\ entering' = None
    /\ UNCHANGED <<cfxAddressDic, inDefault, deleted>>

Saving == SaveStep /\ UNCHANGED amVars

-----------------------------------------------------------------------------
(* Operations that do not *)

GetSecret(a, p) ==
    /\ MutexFree
    /\ \/ a \notin Listed /\ Returns("fail") /\ UNCHANGED vars
       \/ /\ a \in Listed
          /\ secret(cfxAddressDic[a], p, TRUE)
          /\ Returns(IF Secret(cfxAddressDic[a], p, TRUE) = None THEN "fail" ELSE "ok")

(* Mutant of Delete: the dictionary keeps the account. *)
DeleteKeepsEntry(a, p) ==
    /\ MutexFree /\ a \in Listed
    /\ Secret(cfxAddressDic[a], p, FALSE) # None
    /\ kill(cfxAddressDic[a])
    /\ Returns("ok")

(* Mutant of Delete: the key stays in the store. *)
DeleteKeepsKey(a, p) ==
    /\ MutexFree /\ a \in Listed
    /\ Secret(cfxAddressDic[a], p, FALSE) # None
    /\ cfxAddressDic' = [cfxAddressDic EXCEPT ![a] = None]
    /\ deleted' = IF m_path THEN deleted \cup {cfxAddressDic[a]} ELSE deleted
    /\ ret' = "ok"
    /\ UNCHANGED <<vars, entering, inDefault>>

(* secret(.., false) fills the cache and notes the address; kill then      *)
(* removes what it filled in.                                              *)
Delete(a, p) ==
    /\ MutexFree
    /\ \/ a \notin Listed /\ Returns("fail") /\ UNCHANGED vars
       \/ /\ a \in Listed
          /\ Secret(cfxAddressDic[a], p, FALSE) = None
          /\ Returns("fail") /\ UNCHANGED vars
       \/ /\ a \in Listed
          /\ Secret(cfxAddressDic[a], p, FALSE) # None
          /\ kill(cfxAddressDic[a])
          /\ cfxAddressDic' = [cfxAddressDic EXCEPT ![a] = None]
          /\ deleted' = IF m_path THEN deleted \cup {cfxAddressDic[a]} ELSE deleted
          /\ ret' = "ok"
          /\ UNCHANGED <<entering, inDefault>>

(* fs::remove throws inside kill: the entry, with its address noted, and   *)
(* the dictionary stay.                                                    *)
DeleteThrows(a, p) ==
    /\ "remove" \in Faults
    /\ MutexFree /\ a \in Listed
    /\ Secret(cfxAddressDic[a], p, FALSE) # None
    /\ m_keys[cfxAddressDic[a]].file # None
    /\ m_cached' = [m_cached EXCEPT ![cfxAddressDic[a]] = None]
    /\ m_keys' = KeysAfter(cfxAddressDic[a], p, FALSE)
    /\ UNCHANGED <<up, m_path, disk, saveVars, restarts>>
    /\ Returns("throw")

(* GetDefault: the test for an empty dictionary, and, after the mutex was  *)
(* released and taken again by List(), the element at index 0 of its copy. *)
GetDefaultTest(t) ==
    /\ MutexFree /\ t \notin inDefault
    /\ UNCHANGED vars
    /\ IF Listed = {} THEN Returns("fail")
       ELSE /\ inDefault' = inDefault \cup {t}
            /\ UNCHANGED <<cfxAddressDic, entering, deleted, ret>>

GetDefaultList(t) ==
    /\ MutexFree /\ t \in inDefault
    /\ UNCHANGED vars
    /\ inDefault' = inDefault \ {t}
    /\ ret' = IF Listed = {} THEN "out of range" ELSE "ok"
    /\ UNCHANGED <<cfxAddressDic, entering, deleted>>

-----------------------------------------------------------------------------
(* Constructors and end of the process *)

NoAccounts == [a \in Accounts |-> None]

(* Mutant of initialize: keys and addresses come from two lists in different order. *)
initializeMixed(keys) ==
    LET stored == {u \in Uuids : keys[u] # None}
        named == {getCfxUserAddress(keys[u].addr) : u \in stored}
    IN {d \in [Accounts -> Uuids \cup {None}] :
            \A a \in Accounts : IF a \in named THEN d[a] \in stored ELSE d[a] = None}

(* Mutant of initialize: the dictionary stays empty. *)
initializeNothing(keys) == {NoAccounts}

(* initialize(): the keys of the store in map order; of two keys with one  *)
(* account the later wins.                                                 *)
initialize(keys) ==
    LET owners(a) == {u \in Uuids : keys[u] # None /\ getCfxUserAddress(keys[u].addr) = a}
    IN {d \in [Accounts -> Uuids \cup {None}] :
            \A a \in Accounts : IF owners(a) = {} THEN d[a] = None ELSE d[a] \in owners(a)}

Construct(withPath) ==
    /\ Start(withPath)
    /\ cfxAddressDic' \in initialize(m_keys')
    /\ UNCHANGED <<entering, inDefault, deleted, ret>>

End ==
    /\ Stop
    /\ cfxAddressDic' = NoAccounts
    /\ entering' = None /\ inDefault' = {} /\ ret' = "none"
    /\ UNCHANGED deleted

AMInit ==
    /\ Init
    /\ cfxAddressDic = NoAccounts /\ entering = None
    /\ inDefault = {} /\ deleted = {} /\ ret = "none"

AMNext ==
    \/ \E withPath \in BOOLEAN : Construct(withPath)
    \/ End
    \/ Saving \/ Finish \/ Throw
    \/ \E p \in Passes : Create(p)
    \/ \E s \in Importable, p \in Passes : ImportPrivateKey(s, p)
    \/ \E r \in RawFiles : ImportKeystore(r)
    \/ \E a \in Accounts, p, newPass \in Passes : UpdatePassphrase(a, p, newPass)
    \/ \E a \in Accounts, p \in Passes : GetSecret(a, p) \/ Delete(a, p) \/ DeleteThrows(a, p)
    \/ \E t \in Threads : GetDefaultTest(t) \/ GetDefaultList(t)

AMSpec == AMInit /\ [][AMNext]_allVars

-----------------------------------------------------------------------------
(* Properties *)

(* Every variable has its type, those of the store included. *)
AMTypeOK ==
    /\ TypeOK
    /\ cfxAddressDic \in [Accounts -> Uuids \cup {None}]
    /\ entering \in Uuids \cup {None}
    /\ inDefault \subseteq Threads
    /\ deleted \subseteq Uuids
    /\ ret \in {"none", "ok", "fail", "throw", "out of range"}

(* "list all account" (docs/account.md): every account that List() returns *)
(* has its key in the store under the uuid the dictionary has for it.      *)
ListedAccountsExist == \A a \in Listed : cfxAddressDic[a] \in Stored

(* GetSecret(a, ..) returns no secret or the one that derives account a;   *)
(* only the zero account, under which keys without an address are listed,  *)
(* can give another.  The answer may come from the cache, and the key may  *)
(* have been imported, recoded or reloaded since it was decrypted.         *)
SecretMatchesAccount ==
    \A a \in Listed, p \in Passes : LET s == Secret(cfxAddressDic[a], p, TRUE) IN
        s # None => a \in {Secret2CfxAddr(s), ZeroAccount}

(* "the account will be saved in the local file system" (docs/account.md): *)
(* an account that is listed and has its key in memory has a readable file *)
(* for it, also after operations that threw, except while that file is     *)
(* being rewritten.                                                        *)
AccountsOnDisk ==
    m_path => \A a \in Listed : LET u == cfxAddressDic[a] IN
        u \in Stored => HasCopy(u) \/ (phase = "write" /\ cur = u)

(* The key that Delete killed is neither in memory nor in any file, after  *)
(* a restart in the middle of a save and on a full device too, until it is *)
(* stored again.                                                           *)
DeletedKeyGone == m_path => \A u \in deleted : u \notin Stored /\ ~HasCopy(u)

(* What the directory would give back. *)
SafeAccounts == {getCfxUserAddress(disk[f].addr) : f \in {g \in FileNames : Readable(g)}}

Book == INSTANCE AccountBook WITH
    open <- up, kept <- m_path, book <- Listed, safe <- SafeAccounts,
    busy <- up /\ phase # "idle",
    rewriting <- IF phase = "write" THEN getCfxUserAddress(m_keys[cur].addr) ELSE None

(* The manager implements AccountBook: accounts enter the list one at a    *)
(* time and only once all of the list is on disk, an operation that throws *)
(* leaves the list as it was, a restart lists exactly what is on disk, and *)
(* no account leaves the disk but by its own Delete or the rewriting of    *)
(* its own file.                                                           *)
ImplementsBook == Book!Spec
=============================================================================
