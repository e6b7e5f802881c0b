# TLA+ models of cpp-conflux-sdk

These modules model the stateful parts of the SDK, translated from the code under
`src/`: the key store, the two managers of accounts kept in it, the transaction objects,
the path a transaction takes to a Conflux node, and the three codecs (addresses, RLP,
ABI). TLC checks small instances. TLAPS proves
the central invariants for every value of the constants. `PROJECT.json` names, for each
definition, the lines it models, and lists the runs, mutants, hazards, findings and
theorems.

## 1. The system

| Part | State | Operations | What is hard |
|---|---|---|---|
| `SecretStore` (libdevcrypto) | `m_keys`, `m_cached`, `m_path`, a directory with one file per key | `importSecret`, `importKey(Content)`, `secret`, `recode` (two forms), `kill`, `save`, `load`, `setPath`, `clearCache` | every change rewrites every file in place; a process may stop, or a call fail, between any two file-system calls |
| `AccountManager` (libcfxcore) | `cfxAddressDic` (account to uuid), a mutex, its `SecretStore` | `Create`, `ImportPrivateKey`, `ImportKeystore`, `UpdatePassphrase`, `GetSecret`, `Delete`, `List`, `GetDefault` | dictionary, memory and directory are three copies of one fact; `GetDefault` locks twice |
| `TransactionBase` | quantities, two receivers, key, signature, cached hash and sender | constructors, `with...`, `SignTransaction(WithSecret)`, `sha3`, `sender` | objects are changed and signed again; caches |
| `JsonRpcClient`, transaction path | the caller's transaction object; a node behind HTTP | `sendTransaction`, `DeployContract`, `ApplyUnsignedTransactionDefault`, `WaitTransactionFinished` | up to five requests per call, each may fail; a timed-out post may arrive; callers repeat calls |
| `JsonRpcClient`, queries | none | one request each, conversion of the answer | conversions |
| `HttpClient`, `HttpsRpcClient` | one curl handle per client | `SendRPCMessage` | the handle is shared by threads without a lock |
| `Contract` | address, ABI | `Call`, `SendTransaction`, deployment data | rests on the client and the ABI codec |
| Address codec | an object's caches | `New`, `GetBase32Address`, `operator==` | regrouping of bits; only the checksum tells typos and accounts apart |
| RLP | `RLPStream`'s list stack; the item `operator[]` gave out last | `append`, `appendList`, `appendRaw`, `swapOut`, `operator[]` | lists are closed by counting; reading depends on what was read before |
| ABI codec | the output parameters of a `Function` object | `encode`, `decodeOutput` | sizes computed apart from the encoding; parameters reused by every call |
| `KeyManager` (libdevcore) | keys file, salt file, password caches, a `SecretStore` | `create`, `load`, `save`, `import`, `importExisting`, `secret`, `recode`, `kill`, `newKeyPair` | two renames that belong together; three records of one password; worker threads without a lock |
| Log filter, receipts, hex, currency, JSON, bloom | none | conversions | numeric edges |

How they interact. A program owns an `AccountManager` and a `JsonRpcClient`. It takes
a private key out of the former (`GetSecret`), gives it to a `Transaction`, and passes
that object by reference to `sendTransaction`. The client fills the unset quantities in
with answers of the node, signs the object and posts the result; the object keeps what
was filled in, also when the call throws. `AccountManager` calls `SecretStore`
synchronously under its mutex; nothing calls back. The directory of key files is the
only state that outlives the process.

What makes each part correct:

* `SecretStore`: a uuid stands for one key, in memory, in the cache and in every
  file, for ever; a completed save leaves the directory equal to memory; no key's last
  file is lost, except when the key is killed or its own file is being rewritten.
* `AccountManager`: a listed account has its key in memory and on disk; `GetSecret`
  answers the key of the account it was asked for; a deleted account stays away.
* `TransactionBase`: receiver, hash and sender that the accessors show, and the signature, are those of
  what goes out. Section 3 says where they are not.
* `KeyManager`: the keys file opens with the master password after any stop; an address
  looks up the key that derives it; the recorded password is the one the key is
  encrypted with. `newKeyPair` returns a key of the vanity asked for.
* Codecs: what is read back is what was written, in every order of reading and after
  whatever the object was used for before; a typo never leads to another account; call
  data is what the ABI specifies.
* Client: an object is executed at most once however often its call is repeated;
  nothing goes out with an unset quantity; quantities of the caller are left alone;
  success is reported for what succeeded; waiting ends.

## 2. Modules

| Module | Models | Composes |
|---|---|---|
| `SecretStore` | `libdevcrypto/SecretStore.{h,cpp}`, `writeFile` | |
| `AccountManager` | `libcfxcore/account.{h,cpp}` | extends `SecretStore`, uses its actions; instantiates `AccountBook` |
| `AccountBook` | what `docs/account.md` promises of accounts (abstract specification) | |
| `KeyManager` | `libdevcore/KeyManager.{h,cpp}` | extends `SecretStore`, uses its actions |
| `NewKeyPair` | `KeyManager::newKeyPair` | |
| `TransactionBase` | `libcfxcore/TransactionBase.{h,cpp}` | |
| `TransactionClient` | transaction path of `libcfxcore/rpc/client.cpp`, failures of `httpclient.cpp`, the node (external) | extends `TransactionBase` |
| `AddressCodec` | `libcfxcore/types/cfxaddress/` | |
| `RLPCodec` | `libdevcore/RLP.{h,cpp}` | |
| `AbiCodec` | `libcfxcore/abi/`, `Contract::Call` | |
| `MCCodecs` | instances of the three codecs and of `NewKeyPair` | extends them; a behaviour exercises one |
| `SecretStoreProofs`, `TransactionClientProofs`, `NewKeyPairProofs` | theorems | extend the above and `TLAPS` |
| `AccountManagerProofs`, `KeyManagerProofs` | theorems | extend their module and `SecretStoreProofs`, whose lemmas they use |
| `RecursionLemmas` | induction, and that recursive functions satisfy their equations | |
| `AddressCodecProofs`, `RLPCodecProofs` | theorems | extend their codec and `RecursionLemmas` |
| `MC...` | constants of the small instances | |

### SecretStore

`m_keys`, `m_cached` and `m_path` are the members of the class; `disk` is the
directory. An operation is one action up to its call of `save()`. `save()` is then
`SaveOpen` (`ofstream` with `trunc`: the file is empty), `SaveWrite` (the text, and the
swap of the file name in `m_keys`), `SaveRemoveOld` (`fs::remove` of the old name), per
key and in any key order since `m_keys` is an `unordered_map`, and `SaveReturn`. `phase`,
`todo`, `cur` and `old` are the loop's position. `Stop` ends the process anywhere;
`Start` is the constructor with its `load()`, which reads the files in any order.
`Faults` chooses which failures happen: `"open"` (`create_directories` or opening a file
throws), `"remove"` (`fs::remove` throws), `"full"` (the text is still in the stream's
buffer when `writeFile` tests the stream, so that a device that is full is not noticed).

Abstractions: an encrypted key is the pair of secret and passphrase, and only that
passphrase decrypts it (the MAC; files without a MAC are not modelled). An address is
one byte, whose high nibble is the one `AccountManager` rewrites. A newly imported entry has
the bare uuid as file name, which names no file, and is written `None`. A file is
readable or torn; whole-file granularity suffices since a prefix of a JSON object does
not parse. Data that `write` returned for is taken to be on the device: there is no
`fsync` in the code and loss of power is not modelled.

### AccountManager

Every operation is a `SecretStore` action together with what it does to the dictionary.
The mutex is held while `save()` works, so other operations need `Idle`; the dictionary
is updated by `Finish`, and not at all when `save()` threw (`Throw`). `GetDefault` is two
actions, since `List()` takes the mutex anew. After a restart `initialize` fills the
dictionary from the keys in any order. `deleted` is a history variable.

`AccountBook` states what a caller may rely on without keys, files and dictionary: a list
in memory (`book`) and the set of accounts a restart would bring back (`safe`). The
mapping takes `book` to the accounts in the dictionary, `safe` to the accounts of the readable
files, `busy` to the save phases and `rewriting` to the account whose file is truncated.
`Commit` requires that the whole list is safe when an operation returns, `Fail` that a
throwing one leaves the list alone, `Open` that a restart lists exactly what is safe.

### KeyManager

An operation that reaches `SecretStore::save()` goes on when that returns; `doing` says
which operation is under way and at which step. `write(pass, keysFile)` is two steps,
`WriteSalt` and `WriteKeys`, each of which is one rename (`writeFile` with
`_writeDeleteRename`), and the process may stop, or the write fail (`WriteFails`), before
either. With `"full"` in `Faults` the file that is renamed may be empty or incomplete
(`FileAfter`): the same untested buffer as in `SecretStore`. The hash of a password is the
pair of random string and password; the keys file is opened by the password and salt it was
written with. `load` is `LoadRejected` or `LoadAccepted`, which goes on with `LoadSaved` when
addresses had to be noted in the store. `broken` and `pairBroken` are history variables:
accounts whose operation was cut in two, and whether a rekeying was, or a file was lost to
a full device.

No operation checks that the keys file was loaded. `Orderly` is a constant: `TRUE` for
callers that follow the usage comment of the class (`load` or `create` first, according to
`exists()`), `FALSE` for callers in any order. `importExisting` with an address takes any uuid and any
address (`importExistingAs`); `Honest` says that callers pass the address of the key. Each run
and each theorem says which of the two it assumes.

### NewKeyPair

One program counter per thread. The test of `keepGoing`, the store to it and the copy of
each member of the key into `p` are steps of their own, in any order within a thread: these
are plain variables of the caller's stack, used by all threads without a lock. The loop calls
opaque functions between two tests of `keepGoing`, so every test reads it anew.

### AddressCodec

The bits, the symbols and the checksum are computed as in the code; the 40-bit number of `polymod`
is a tuple of 8 symbols. The actions build an object, show it in either form, mistype
characters or take the network for another (external), and parse it. A character outside
the alphabet is one symbol, `Foreign`, which the code takes for index 0. The object of a text
that is refused keeps what had been parsed so far, has no bytes, since `setCache()` was not
reached, and an unset network id (`Refused`). Texts are parsed with the constructor's default network;
a text of another one keeps its own, since `NewFromHex` refuses it without a trace.

### RLPCodec

Writer and reader byte by byte. `m_listStack` holds the lists that are open, with the
items still to come; `levels` is the history of what the program meant (an item of it has a `weight`, which only
serves the bound `MaxItems`). An append that
throws has already written its bytes. The reader's `cache` is `m_lastIndex`, `m_lastEnd` and `m_lastItem`.

### AbiCodec

Data is a sequence of words. `sizeOf`, `getHeadSize`, `encodeSet` and `decode` follow the
classes of `libcfxcore/abi`; `Specified` is the ABI the documentation refers to, and plays the contract's
part. The output parameters are state: `Contract::Call` decodes every answer into
the same objects.

### TransactionBase

One record of quantities per object, the two receivers (`m_receiveAddress`, which
`streamRLP` signs, and `m_cfx_receiveAddress`, which the accessors show), the signature,
and the two caches. `Creations` and `Nulls` are the objects of the other two constructors; only a
message call has a receiver in the list. A hash is the list it is computed from (RLP and SHA3 are injective);
a signature is the pair of key and list, and recovering from another list gives nobody or a
stranger's address. `BadKeys` are secrets that are not of the curve: `dev::sign` returns nothing
valid for them, `m_vrs` stays what it was, and the list goes out with that (`SignWith`). What is
read through an empty `m_vrs` is `Garbage`, no signature of anything.

### TransactionClient

`pc` says where a call is: `nonce`, `chainId`, `gasPrice`, `epochHeight` and `size` are the tests of
`ApplyUnsignedTransactionDefault` in their order, each of which asks the node (`Fetch`, `SizeByEstimate`),
fills in constants (`SizeTransfer`) or finds its quantity set (`Skip`); then come `sign`, `posted`, `poll` (`DeployContract`'s
loop), `wait` and `sleep` (`WaitTransactionFinished`). Nothing is tested at `sign`. Each request is a step, and may
fail (`ApplyFails`, `SendFails`, `PollThrows`): the exception leaves the call and the
object keeps what it has. A posted transaction is in `net` until it arrives, which may
be before the answer is read (`Answered`), after the caller has gone (`Unanswered`), or
never. The node is external and modelled by what the client relies on: a pool that
rejects old nonces, foreign chain ids, expired epochs, missing quantities and
underpriced replacements, keeps one transaction per account and nonce, drops at will, and
executes in nonce order. `net` is a set: two posts of the same bytes are one element,
which loses nothing: a second arrival is rejected, unless the first was dropped from the pool, and
that case comes about by a repeated call. The
chain is final (no reorganisations). The setters that callers use (`Setters`), the keys they give an object, at any
time between calls (`Rekeys`), and the objects they deploy (`Deployed`) are constants of the instance. `sha3()` and `sender()` are no steps of
a caller here, as nothing in the client reads the caches they fill; `TransactionBase`'s own specification has them. `Scaled` is exact integer arithmetic; the
code multiplies by the double 1.1, which agrees below about 10^15.

## 3. Runs

Passing runs:

| Run | Instance | Shows |
|---|---|---|
| `secret_store` | 2 uuids, 2 keys, 2 passphrases, a stray file, faults `open` and `remove`, 2 stops | `TypeOK`, `KeyIdentity`, `KeyHasGoodFile`, `SaveSyncs`, `DamageBounded`, `CopiesPersist`, `SaveTerminates` |
| `account_manager` | keystore files with address, a stray file, faults, 1 stop | `AMTypeOK`, `ListedAccountsExist`, `AccountsOnDisk`, `ImplementsBook` |
| `account_secret` | version 1 files, which lose their address, and a full device | `SecretMatchesAccount`, `DeletedKeyGone` |
| `client_retry` | one object constructed without arguments, sent and deployed, that is given its key late; price, gas and data settable between calls; epochs move on | `AtMostOnce`, `NothingMissing`, `SuccessIsReal`, `FetchedBesideGiven`, `WaitReturns` |
| `key_manager` | 1 key, 2 uuids, 2 passwords, 3 salts, a stray file, a version 1 file, 1 failure, 1 stop, orderly and honest callers | `KMTypeOK`, `KeysFileOpens`, `LookupSound`, `PasswordRecorded`, `InfoKept` |
| `codecs` | 4 addresses on 3 networks with up to 2 typos; streams of up to 4 items; lists of up to 3 parameters, 3 calls; `newKeyPair` with the caller and 2 helpers, 3 keys, 2 of them wanted | address: `AddressTypeOK`, `RoundTrip`, `TyposHarmless`, `KnownChecksums`; RLP: `RLPTypeOK`, `ListsCount`, `ReadBack`, `SizesStrict`; ABI: `CallDataRight`, `DecodedRight`; search: `VanityKept`, `SearchEnds` |

Violation runs, each a disagreement between the code and what its docs or comments say
(`findings` quotes both sides):

| Run | Property | What happens |
|---|---|---|
| `transaction_receiver` | `ReceiverHonoured` | `withTo` changes what is shown and not what is signed |
| `client_transfer` | `CallerFieldsKept` | without data, the gas limit the caller set is overwritten when the storage limit is missing |
| `client_nonce` | `NonceOfSender` | a nonce fetched without a key is signed once there is one |
| `key_manager_unloaded` | `UnloadedLeftAlone` | `load` with a wrong password leaves its key behind, and the next import or kill writes a keys file without the old entries |
| `new_key_pair_torn` | `PairWhole` | two threads find a key at once; the pair has the secret of one and the address of the other |
| `abi_nested` | `CallDataRight` | `uint256[2][2]` before a `string` shifts the string's offset by two words |

What the models also show the code to do, beside its documentation, without a run of its own:

* On a full device `save()` returns although the file of a key is empty: `writeFile` tests the
  stream before its buffer is flushed (`CommonIO.cpp:123`). `SaveSyncs` is checked and proved without that fault.
* `kill()` removes one file of a key that has two (`SecretStore.cpp:158`); the next process loads the other.
* A key imported as private key and as keystore file is stored under two uuids; `Delete` kills one,
  and the account is listed again after a restart (`account.cpp:117`). `AccountBook`'s `Delete` allows
  for both.
* `sha3()` and `sender()` answer from caches that no setter and no signing resets (`TransactionBase.cpp:13`). After `sha3`, a setter and a new
  signature the hash is that of the list before, though `TransactionBase.h:145` calls it, in Chinese, the cache of the hash of the signed transaction.
* With a key that is not of the curve `sign()` leaves `m_vrs` as it was (`TransactionBase.cpp:66`), and the list goes out with the signature of an
  older list, or with what is read through an empty optional; `docs/transaction.md:67` has it signed.
* `operator==` compares the body of the right side with itself (`address.cpp:149`): accounts with one checksum are equal,
  against `docs/address.md:50`. `MCTwin1` is a user account with the checksum of `MCUser1` on each network (assumption `TwinsEqual` of `MCCodecs`, which TLC evaluates).
* `decodeOutput` reads every first answer of the instance (assumption `FirstAnswerRead`) but for a fixed array of dynamic elements, where `Array.cpp:112` reads
  a count that the ABI does not put there, and an empty array, for lack of an element to take the type from (`FirstAnswerRefused`); `docs/abi.md:16` and `:17` list both types.
* The object of a refused address has no bytes, and `toEthCommonAddr()`, which the constructor of a message call uses, reads
  20 of them without a look at `IsValid()` (`address.cpp:182`).
* `ListedAccountsExist` is checked for keystore files that carry their address. With a version 1
  file it fails: the key is listed under the zero account, its address is noted at the first
  decryption, and importing it again lists the same uuid under its own account too; deleting
  one of the two leaves the other listed without a key.
* `GetDefault` tests the dictionary and indexes `List()` under two locks. `GetDefaultList`
  answers "out of range" when the last account was deleted in between; that state is reachable.
* A rekeying that is cut between its two renames leaves a keys file that no password opens, until the
  next one completes (`KeyManager.cpp:326`), and on a full device either file may be lost without a trace (`CommonIO.cpp:113`): the
  exceptions in `KeysFileOpens` and `InfoKept`.
* `PasswordRecorded` excepts accounts whose `recode` was cut in two, whose key has a forgotten file
  with the old password, and those `importExisting` entered while their secret was cached: the password is not verified then.
* An array that an answer made longer never gets shorter again, so that a later and shorter answer is not
  decoded (`Array.cpp:56`); `Contract::Call` drops the result that says so.

Two assumptions of the store are narrower than the code. `KeyFilesAssumption` says that the importable files with one uuid hold one key, and
declare its address or none; `readKeyContent` checks neither, so a file with another key under a stored uuid is left out: it would meet the
old key in the cache (`SecretStore.cpp:93`). `AccountBook`'s `Delete` lets an account stay in `safe`, which is weaker than
`SecretStore.h:74` and what the code does with a key that has two files or two uuids.

`DeletedKeyGone` speaks of the uuid that was killed, not of the account, and is checked without
stray files.

Bounds and why they are enough. Two uuids are one key being worked on and one bystander; the
properties relate at most two. Two passphrases are the right and the wrong one. One
stray file gives the key with two files. One stop shows what a restart finds, the
second one what a restart finds after a save of a damaged directory (`MaxRestarts`).
`KeyManager` has one private key, under two uuids: its lookups are per account (with `MCSecrets == 1 .. 2` the
same invariants hold over 5.0 million states, in about three minutes). Callers in any order and a full device are left to the theorems; three salts are the one
in the salt file, the one of the keys file and a new one; `MaxFailures` 1 puts one failure at any place, before or
after a stop. One transaction object is sent, changed and sent again: the properties of the client speak of one object each, and
the theorems of any number. For a message call that is given a second key between two calls, one that is not of the curve, the same properties hold (1.6 million states, `MaxWait` 0, about four
minutes); the run leaves it out for its size. `GasPrices` holds one answer below
`MIN_GAS_PRICE`, `Estimates` one with zero storage, so that both corrections happen.
`MaxEpoch` 1 with `Window` 0 lets an object outlive its window. `MaxWait` is 1 second,
enough for the clock to run out before, at and after a poll, and for a second round of the loop. Three threads are two that race and one that comes late; two wanted
keys tell their members apart. Two typos (`MaxTypos`) are what a symbol written for another in two places,
or two swapped characters, come to; `TypoSymbols` are one of the alphabet and a foreign one. The
byte strings lie on both sides of every threshold of the RLP headers (1 byte below and above 0x80, 55 and 56 bytes, lists of 55 and 56);
`MaxItems` 4 nests lists that close together. `MaxCalls` 3 decodes after a success and after a failure.

Fairness. `save()` has no wait in it, so its thread takes its next step while the process lives
(weak fairness of `SaveStep` and `SaveReturn`; nothing is assumed of callers).
`WaitTransactionFinished` is scheduled and each of its requests ends, since the connector
has a timeout of 10 s; the clock advances (`WF` of `WaitStep` and `Tick`). Nothing is assumed of
the node: `WaitReturns` holds though it may never answer. Each thread of `newKeyPair` is scheduled
(`WF` of its steps), and one that creates random keys for ever creates a wanted one (`SF`), which random
choice gives with probability 1.

Deadlock is checked in every passing run but `codecs`, where `newKeyPair` returns, the journey of a mistyped text ends when it is parsed and `MaxCalls` ends the calls.

Each property of a passing run has a mutant: an operator named in a "Mutant of"
comment that changes a mapped definition as a plausible bug would (the old file removed
first, the nonce fetched anew for every call, the return code of a refused address not looked at, the dictionary entered although
`save()` threw), under which TLC finds the property violated.

## 4. Theorems

`SecretStoreProofs`, from the named assumptions of `SecretStore` (uuids are not names
of stray files; a uuid occurring in two key files stands for one key; the address in a
key file is that of its key or zero; the absent values are not values):

* `TypeCorrect`, `Spec => []TypeOK`. Inductive invariant `TypeInv = TypeOK /\ Shape`: while save
  writes or removes, `cur` is a key of the store, which is what makes `FileOf(cur)` a key file.
* `IdentityPreserved`, `Spec => []KeyIdentity`. Inductive with `TypeInv`. The argument is over
  `Copies`: every action's new copies come from old ones of the same uuid, or from a fresh
  uuid that no copy has; the latter is why the importable files belong to `Copies`.
* `GoodFilePreserved`, `SaveSynced`, `CopiesPersisted`, `Spec => []KeyHasGoodFile`, `[]SaveSyncs`
  and `CopiesPersist`, under the hypothesis that no write is dropped silently
  (`"full" \notin Faults`; the second fails without it).
  Invariant `FilesInv`: `KeyIdentity`, a canonical file holds no other uuid's key
  (`CanonicalOwn`), `KeyHasGoodFile`, and `SavePoint`, which says what has been written at each point of the
  loop: a key that is stored and not in `todo` is already in its file as it is in memory.

* `DamageLimited`, `Spec => []DamageBounded`, under the same hypothesis. Invariant `DamageInv`: `FilesInv`, a finite
  number of torn files, and the bound. A save that writes a file had torn that very file (`SavePoint`), so the
  count goes down when the text arrives, and a stop turns the one file under way into a lost one.

`AccountManagerProofs`, from those lemmas and the assumptions of `AccountManager` (accounts are those of
the keys and the zero account, and `None` is none of them). Every step of the manager is a step of the store, but for
`DeleteThrows`, which is a decryption and a failed removal in one and is treated by itself:

* `AMTypeCorrect`, `AMSpec => []AMTypeOK`, with `KeyIdentity` as part of the invariant (`AMTypeInv`): the account
  that `Finish` will enter is an account because the address of the key is right.
* `SecretOfAccount`, `[]SecretMatchesAccount`, for all files and faults. `SecretMatchesAccount` speaks of what the store would answer now;
  the invariant `SoundInv` says of every listed account that each copy of its uuid, anywhere, derives it (`DicSound`), and that the
  key an import under way will list is stored (`EnteringStored`).
* `AccountsExist`, `[]ListedAccountsExist`, for keystore files that carry their address (`Addressed`; it fails without,
  section 3). Then a uuid is listed under one account at most, so that `Delete` of one never takes the key of another (`ExistInv`).
* `AccountsKept`, `[]AccountsOnDisk`, when moreover no write is dropped silently: `ExistInv` with `FilesInv` of the store.
* `BookImplemented`, `AMSpec => ImplementsBook`, under the same two hypotheses. `BookInit` maps initial states, and one lemma per kind of step
  (`BookOpen`, `BookBegin`, `BookErase`, `BookRewrite`, `BookMoved`, `BookCommit`, `BookFail`, `BookDelete`, `BookClose`,
  `BookStutter`) maps steps. `BookCommit` needs that the whole list is on disk when `save()` returns, which is `SavePoint`; `BookInv` adds to `DiskInv`
  that an operation that lists nothing new works on a listed key (`RecodeListed`).
* `DeletedGone`, `[]DeletedKeyGone`, for a directory without foreign files whose files can be opened (`Strays = {}`,
  `"open" \notin Faults`); dropped writes and failing removals are allowed. Invariant `GoneInv`: files are named after
  their key and entries name that file (`NamesInv`), and what is deleted has no file, also while no process runs.
  With foreign files it fails, since `kill` removes one of two. When a save may fail to open a file, a key may be in its file and named by none.

`KeyManagerProofs`, from the lemmas of the store and `KMAssumption` (`None` is no address, password, salt, random string
or hash), for any number of keys, passwords, failures and stops, under the hypothesis `Honest`. The inductive invariant `KMInv` holds for callers in any order and every
choice of `Faults`; it carries `KMTypeCorrect`, `LookupSoundAlways` and `InfoKeptAlways`. For callers that are `Orderly` it is joined by `OrderInv`:

* `KMTypeCorrect`, `KMSpec => []KMTypeOK`. `KMTypes` adds what an operation under way remembers (`DoingType`) and what a manager
  that loads or does not run has (`Life`).
* `KeysFileOpensAlways`, `[]KeysFileOpens`, with `Orderly`, for every `Faults`, a full device included; a lost file is the second exception beside the cut rekeying. `OrderInv`:
  only a manager that has loaded or created its keys file works on accounts (`Ordered`), and the key is followed through memory (`KeyPoint`): between the two renames
  the salt file has the new salt and `m_master` the new password, `m_keysFileKey` is the pair of both outside of them.
* `LookupSoundAlways`, `[]LookupSound`. It does not carry itself: `load` takes the lookups from the keys file, and
  `load` also notes the file's addresses in the store. `LookupRight`, `InfosRight` and `ImportRight` say of each uuid that the
  lookups, the keys file or an import under way name that every copy of it derives the account. Uuids of new keys occur nowhere, so no step
  makes a copy of a known uuid with another key.
* `InfoKeptAlways`, `KMSpec => InfoKept`, for a process that has loaded, in whatever order its callers call. `InfosTaken`: a manager that has read the keys
  file knows the password hash of every account of it that can be looked up. Before a load it is false: `key_manager_unloaded`.
* `PasswordRecordedAlways`, `[]PasswordRecorded`, with `Orderly`, `"full" \notin Faults` and `OnePasswordPerUuid`: the key files the manager did not write agree
  on the password of a uuid. Without it the property is false, since `SecretStore::load()` takes either of two files of one uuid.
  `PasswordRecorded` speaks of memory, but a restart replaces memory by the keys file and the directory. The invariant, `KMInv /\ OrderInv /\ PassInv`,
  therefore speaks of every rendering of a key that can be loaded: they have one password (`PasswordsAgree`), and what memory and
  the keys file record is its hash (`MemorySays`, `FileSays`), as is what an import is about to record (`ImportSays`). A `recode` breaks this
  for a while: `RecodePoint` says that the files with the old password are exactly those `save()` has still to replace or to remove. `DefaultPoint`
  keeps the random string the hashes are made with equal in memory and file.

`TransactionClientProofs`, for any number of callers, keys and accounts:

* `NothingMissingAlways`, `[]NothingMissing`. The code tests nothing before it signs; that nothing is missing is due to the way there. Invariant `SentInv`:
  the quantities a call has passed are set and stay set until it ends (`Placed`), also when an earlier call left the object partly filled.
* `AtMostOnceAlways`, `[]AtMostOnce`, assumes that callers leave the nonce to the client (no setter of it) and that an object is only ever given one
  key (`OneKey`; keys that are not of the curve included). Invariant `ClientInv`, with `SentInv`: every message of an object that is
  in the network, the pool or the chain carries the nonce the object still has (`Faithful`); those the node took are signed by
  the object's key (`Taken`, `KeyFixed`); and the nonces on the chain are below the account's
  and occur once (`ChainOrdered`). Two executions of one object would be two of one nonce. With two keys the theorem is false: the nonce of one account is
  good for another.
* `SuccessIsRealAlways`, `[]SuccessIsReal`. Invariant `ResultInv`: a call under way has no result yet, so that no result outlives
  the hash it was about; the chain only grows.
* `FetchedBesideGivenAlways`, `ClientSpec => FetchedBesideGiven`, an action property: with `GivenSet`, a quantity the caller gave is set, and the tests pass it by.

`NewKeyPairProofs`, for any number of threads and keys:

* `VanityAlways`, `SearchSpec => []VanityKept`. `VanityKept` says nothing of the threads, so the invariant
  `SearchInv` does: a thread at its last test holds a wanted key or the search is over (it leaves the
  loop with another key only once `keepGoing` is false, which is never set again); a thread with members to store holds a wanted
  key; and once the search is over, every member of `p` is wanted or about to be stored by some
  thread (`SearchOver`). When all have ended nobody stores any more.

`RecursionLemmas`. The library's induction theorems have an operator as parameter, which the provers at hand cannot instantiate.
`SetInduction` states induction for a set of numbers instead, from the well-founded order on the natural numbers. `LoopDefined` and `DescentDefined` derive
that a function defined by recursion over the rounds of a loop, or over smaller numbers, exists; TLA+ defines such a function
by `CHOOSE`, so its equation is a theorem and not a definition.

`AddressCodecProofs`, from `AddressAssumption` (addresses are 20 bytes, network ids positive numbers, the typist writes symbols or
foreign characters), for every set of addresses and networks and any number of typos. The objects of refused texts, which have no bytes, are part of the behaviours:

* `RoundTripAlways`, `AddressSpec => []RoundTrip`. At its core is `ConvertBack`: 21 bytes regrouped to 34 symbols and back are the same bytes, although
  `convert` pads on the way out and drops bits on the way back. `Narrow0` to `Widen3` compute one round of the loop for each number of bits that can be left over,
  `NarrowRun` and `WidenRun` a block of 5 bytes or 8 symbols, after which none is left, `NarrowAll` and `WidenAll` the four blocks and the odd byte, and
  `BlockBack` that a block comes back. Invariant `JourneyInv`: every valid object is what `setCache` makes of its network and body (`GoodAddress`, `Whole`), the object of a refused text is not valid (`GoodRefused`), and a text nobody mistyped
  is the text of `origin`.
* `AddressTypeCorrect`, `[]AddressTypeOK`, from the same invariant. It needs that `polymod`, of input of any length, has 8 symbols (`PolymodType`),
  and that the name of any network, by its decimal digits (`DecimalType`), gives symbols.

`RLPCodecProofs`, for every choice of items and list sizes, and lists nested to any depth:

* `ListsCountAlways`, `RLPSpec => []ListsCount`. Several lists may close in one append, so the loop of `noteAppended` and the one of the history `levels` are
  shown to go in lockstep (`RoundTogether`): `Counts(stack, ls, c)` says that every open list but the innermost has as many items to come
  as the history says, and the innermost `c` more, which are appended but not yet noted. A round either notes them and stops (`RoundOpen`),
  or closes the list and leaves one item to be noted (`RoundClosed`). Between appends `c` is 0 (`CountInv`).

Only model-checked: liveness (`SaveTerminates`, `WaitReturns`, `SearchEnds`), which is out of the prover's reach along with `ENABLED`. Of the codecs:

* `TyposHarmless` rests on the distance between checksums, which holds for the instances checked and not of all addresses: 40 bits
  cannot tell all bodies apart. `KnownChecksums` is about particular numbers.
* `RLPTypeOK` says that a header is made of bytes, which needs a bound on the length of the output that the model, whose
  lengths are unbounded, does not have; `ReadBack` and `SizesStrict` are about nested items and need induction over their structure.
* The properties of `AbiCodec`, whose operators are recursive over the structure of parameters.

## 5. Not modelled

* Loss of power and `fsync`; files without a MAC; two processes on one directory.
* Reorganisations of the chain; the content of data and of answers.
* `KeyManager`: names and hints of accounts, presale wallets, the cached passwords of legacy keys, programs that use `store()` directly.
* Codecs: letter case and punctuation of an address, network ids of 2^31 and more, RLP lengths that large;
  the contents of an ABI word, tuples, selectors, and answers that are not in the form of the ABI.
* The curl handle of `HttpClient`: all threads of a client set its options without a lock, and libcurl leaves
  undefined what two transfers on one handle do, so a model could say only that anything may happen. Its outcomes are in `TransactionClient`.
* Query wrappers, log filter, receipts, epoch numbers, hex, currency and bloom filter: conversions without state, one request or one
  value each. `StubClient` is generated.
* `utils/nlohmann/json.hpp` (26,137 of the repository's lines) and `json_spirit` are vendored libraries.
* Cryptographic primitives, containers, logging, terminal and examples.
* `outcomeStatus` of a receipt that lacks the member is not initialised; nodes
  always send it.
* `hardware_concurrency()` of 0, for which `newKeyPair` would start 2^32 - 1 threads.

## 6. Plan

Done: all modules of section 2, the refinement of `AccountBook`, the proofs of section 4.

Left: a bound on the length of an RLP stream, from which `RLPTypeOK` would follow for every instance below it, and
`SizesStrict` for a single item; `ReadBack` for lists of items that are not lists.
