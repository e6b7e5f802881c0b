--------------------------- MODULE TransactionBase --------------------------
(***************************************************************************)
(* cfx_cpp::TransactionBase (src/libcfxcore/TransactionBase.{h,cpp}): the  *)
(* transaction objects a program builds, changes and signs.                *)
(*                                                                         *)
(* Data abstraction.  RLP followed by SHA3 is injective, so a hash is the  *)
(* list it is computed from.  A signature is the pair of the private key   *)
(* and the list that were signed.  Quantities are small numbers, data is 0 *)
(* when empty.                                                             *)
(***************************************************************************)
EXTENDS Naturals

CONSTANTS
    Txs,        \* transaction objects
    Creations,  \* those that create a contract (m_type = ContractCreation)
    Nulls,      \* those constructed without arguments (m_type = NullTransaction)
    Keys,       \* private keys that are not zero
    BadKeys,    \* those of them that are no key of the curve
    KeyOf,      \* the key each object is constructed with, or None
    Rekeys,     \* <<object, key>>: the withSecret() calls callers make
    Receivers,  \* addresses
    Setters,    \* <<object, field, value>>: the with...() calls callers make
    Stranger,   \* an address whose key nobody here has
    Invalid,    \* dev::Invalid256, a quantity that is not set
    None        \* no key, no signature, nothing cached, no address

Fetched == {"nonce", "chainId", "gasPrice", "epochHeight"}
Sized == {"gas", "storageLimit"}
Fields == Fetched \cup Sized \cup {"value", "data"}

ASSUME TxsAssumption ==
    /\ Creations \subseteq Txs /\ Nulls \subseteq Txs \ Creations
    /\ BadKeys \subseteq Keys
    /\ KeyOf \in [Txs -> Keys \cup {None}] /\ \A t \in Nulls : KeyOf[t] = None
    /\ Rekeys \subseteq Txs \X (Keys \cup {None})
    /\ Setters \subseteq Txs \X Fields \X Nat
    /\ Invalid \notin Nat
    /\ None \notin Keys \cup Receivers \cup {Stranger}
    /\ Stranger \notin Keys

VARIABLES
    fields,                \* tx -> the quantities m_nonce .. m_data
    m_receiveAddress,      \* tx -> the receiver in the signed list
    m_cfx_receiveAddress,  \* tx -> the receiver the accessors show
    m_secret,              \* tx -> private key or None
    m_vrs,                 \* tx -> signature or None
    m_hashWith,            \* tx -> hash of the signed form, cached by sha3()
    m_sender,              \* tx -> address, cached by sender()
    raw                    \* tx -> what SignTransaction returned last, or None

receivers == <<m_receiveAddress, m_cfx_receiveAddress>>
caches == <<m_hashWith, m_sender>>
baseVars == <<fields, receivers, m_secret, m_vrs, caches, raw>>

Calls == Txs \ (Creations \cup Nulls)

(* What is read through m_vrs when it is empty: whatever is in memory, no  *)
(* signature of anything.                                                  *)
Garbage == [by |-> Stranger, over |-> None]

(* streamRLP(): the list of nine, with a receiver for a message call only, *)
(* and that with the signature.                                            *)
Content(t) ==
    [fields |-> fields[t], to |-> IF t \in Calls THEN m_receiveAddress[t] ELSE None]
Signed(t) == [content |-> Content(t), vrs |-> IF m_vrs[t] = None THEN Garbage ELSE m_vrs[t]]

(* recover(): from a signature of another list it recovers nobody or a     *)
(* stranger.  The address of a key is written as the key.                  *)
recover(vrs, content) == IF vrs.over = content THEN {vrs.by} ELSE {None, Stranger}

-----------------------------------------------------------------------------
(* withNonce, withChainId, withGasPrice, withEpochHeight, withGas,         *)
(* withStorageLimit, withValue, withData.                                  *)
With(t, f, v) ==
    /\ fields' = [fields EXCEPT ![t][f] = v]
    /\ UNCHANGED <<receivers, m_secret, m_vrs, caches, raw>>

(* withTo and withReceive *)
WithTo(t, a) ==
    /\ m_cfx_receiveAddress' = [m_cfx_receiveAddress EXCEPT ![t] = a]
    /\ UNCHANGED <<fields, m_receiveAddress, m_secret, m_vrs, caches, raw>>

WithSecret(t, k) ==
    /\ m_secret' = [m_secret EXCEPT ![t] = k]
    /\ UNCHANGED <<fields, receivers, m_vrs, caches, raw>>

(* SignTransaction() with the key k.  With a key that is not of the curve  *)
(* dev::sign returns nothing that is valid, m_vrs stays as it is, and the  *)
(* list goes out with whatever signature the object had before.            *)
SignWith(t, k) ==
    LET vrs == IF k \in BadKeys THEN m_vrs[t] ELSE [by |-> k, over |-> Content(t)] IN
    /\ m_secret' = [m_secret EXCEPT ![t] = k]
    /\ m_vrs' = [m_vrs EXCEPT ![t] = vrs]
    /\ raw' = [raw EXCEPT ![t] = [content |-> Content(t),
                                 vrs |-> IF vrs = None THEN Garbage ELSE vrs]]
    /\ UNCHANGED <<fields, receivers, caches>>

(* An empty key is refused, after it was stored. *)
SignTransaction(t) == m_secret[t] # None /\ SignWith(t, m_secret[t])
SignTransactionWithSecret(t, k) == IF k = None THEN WithSecret(t, k) ELSE SignWith(t, k)

(* sha3(WithSignature): the answer, and the call, which fills the cache.   *)
Sha3(t) == IF m_hashWith[t] # None THEN m_hashWith[t] ELSE Signed(t)

sha3(t) ==
    /\ m_hashWith' = [m_hashWith EXCEPT ![t] = Sha3(t)]
    /\ UNCHANGED <<fields, receivers, m_secret, m_vrs, m_sender, raw>>

(* sender(): answers m_sender if it is there.  It throws, and caches       *)
(* nothing, when there is no signature or nobody is recovered from it.     *)
sender(t) ==
    /\ m_sender[t] = None /\ m_vrs[t] # None
    /\ \E a \in recover(m_vrs[t], Content(t)) : m_sender' = [m_sender EXCEPT ![t] = a]
    /\ UNCHANGED <<fields, receivers, m_secret, m_vrs, m_hashWith, raw>>

(* The constructors.  A contract creation has data; only a message call    *)
(* has a receiver.                                                         *)
Constructed(t) ==
    [f \in Fields |-> IF f = "value" THEN 0
                      ELSE IF f = "data" THEN (IF t \in Creations THEN 1 ELSE 0)
                      ELSE Invalid]

BaseInit ==
    /\ fields = [t \in Txs |-> Constructed(t)]
    /\ \E to \in [Calls -> Receivers] :
          m_receiveAddress = [t \in Txs |-> IF t \in Calls THEN to[t] ELSE None]
    /\ m_cfx_receiveAddress = m_receiveAddress
    /\ m_secret = KeyOf
    /\ m_vrs = [t \in Txs |-> None]
    /\ m_hashWith = [t \in Txs |-> None]
    /\ m_sender = [t \in Txs |-> None]
    /\ raw = [t \in Txs |-> None]

BaseNext == \E t \in Txs :
    \/ \E s \in Setters : t = s[1] /\ With(t, s[2], s[3])
    \/ \E a \in Receivers : WithTo(t, a)
    \/ \E k \in Keys \cup {None} : WithSecret(t, k) \/ SignTransactionWithSecret(t, k)
    \/ SignTransaction(t)
    \/ sha3(t)
    \/ sender(t)

BaseSpec == BaseInit /\ [][BaseNext]_baseVars

-----------------------------------------------------------------------------
(* "The receiving address of the transaction" (TransactionBase.h): the     *)
(* receiver that is signed is the one the caller chose and to_cfx() shows. *)
ReceiverHonoured ==
    \A t \in Calls : raw[t] # None /\ raw[t] = Signed(t) =>
        raw[t].content.to = m_cfx_receiveAddress[t]
=============================================================================
