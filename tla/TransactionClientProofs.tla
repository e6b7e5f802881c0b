---------------------- MODULE TransactionClientProofs ----------------------
(* Proofs about TransactionClient. *)
EXTENDS TransactionClient, TLAPS

Quantity == Nat \cup {Invalid}

Points ==
    {"idle", "nonce", "chainId", "gasPrice", "epochHeight", "size", "sign",
     "posted", "poll", "wait", "sleep"}

LEMMA FieldNames ==
    {"nonce", "gas", "storageLimit", "value", "data"} \subseteq Fields /\ Fetched \subseteq Fields
BY DEF Fields, Fetched, Sized

-----------------------------------------------------------------------------
(* NothingMissing.  Nothing is tested before a transaction is signed; that *)
(* nothing is missing then is due to the way there: the quantities that a  *)
(* call has passed are set, and stay so until it ends.                     *)

Passed(p) ==
    {f \in Fetched \cup Sized :
        \/ p = "sign"
        \/ p = "size" /\ f \in Fetched
        \/ p = "epochHeight" /\ f \in {"nonce", "chainId", "gasPrice"}
        \/ p = "gasPrice" /\ f \in {"nonce", "chainId"}
        \/ p = "chainId" /\ f = "nonce"}

Placed == \A t \in Txs : \A f \in Passed(pc[t]) \cup {"value", "data"} : fields[t][f] # Invalid

Types ==
    /\ fields \in [Txs -> [Fields -> Quantity]]
    /\ pc \in [Txs -> Points]
    /\ m_secret \in [Txs -> Keys \cup {None}]
    /\ raw = [t \in Txs |-> raw[t]]
    /\ nodeNonce \in [Keys \cup {None} -> Nat]
    /\ epoch \in Nat

SentInv == Types /\ Placed /\ NothingMissing /\ \A m \in net : m.tx \in Txs

LEMMA PassedAfter ==
    /\ \A f \in Fetched : After[f] \in Points /\ Passed(After[f]) \subseteq Passed(f) \cup {f}
    /\ After["size"] = "sign" /\ Passed("sign") = Passed("size") \cup Sized
BY DEF After, Passed, Points, Fetched

LEMMA PassedFields == \A p : Passed(p) \subseteq Fields
BY DEF Passed, Fields, Fetched, Sized

LEMMA SentInit == ClientInit => SentInv
<1> SUFFICES ASSUME ClientInit PROVE SentInv
  OBVIOUS
<1>1. fields \in [Txs -> [Fields -> Quantity]]
  BY DEF ClientInit, BaseInit, Constructed, Quantity
<1>2. m_secret \in [Txs -> Keys \cup {None}]
  BY TxsAssumption DEF ClientInit, BaseInit
<1>3. nodeNonce \in [Keys \cup {None} -> Nat] /\ epoch \in Nat
  BY DEF ClientInit
<1>4. raw = [t \in Txs |-> raw[t]]
  BY DEF ClientInit, BaseInit
<1>5. pc \in [Txs -> Points] /\ \A t \in Txs : pc[t] = "idle"
  BY DEF ClientInit, Points
<1>6. Placed
  <2>1. Passed("idle") = {}
    BY DEF Passed
  <2>2. \A t \in Txs : fields[t]["value"] \in Nat /\ fields[t]["data"] \in Nat
    BY FieldNames DEF ClientInit, BaseInit, Constructed
  <2>. QED
    BY <1>5, <2>1, <2>2, TxsAssumption DEF Placed
<1>7. NothingMissing /\ \A m \in net : m.tx \in Txs
  BY DEF ClientInit, NothingMissing, Messages
<1>. QED
  BY <1>1, <1>2, <1>3, <1>4, <1>5, <1>6, <1>7 DEF SentInv, Types

LEMMA MessagesKept ==
    ASSUME net' \subseteq net, pool' \subseteq pool \cup net, chain' = chain
    PROVE  Messages' \subseteq Messages
BY DEF Messages

(* The objects keep their quantities; calls end, begin or wait, and        *)
(* transactions move or vanish.                                            *)
LEMMA SentKept ==
    ASSUME SentInv, fields' = fields, m_secret' \in [Txs -> Keys \cup {None}],
           raw' = [t \in Txs |-> raw'[t]],
           nodeNonce' \in [Keys \cup {None} -> Nat], epoch' \in Nat,
           pc' \in [Txs -> Points], \A t \in Txs : pc'[t] = pc[t] \/ Passed(pc'[t]) = {},
           Messages' \subseteq Messages, net' \subseteq net
    PROVE  SentInv'
<1>1. Placed'
  BY DEF SentInv, Placed
<1>. QED
  BY <1>1 DEF SentInv, Types, NothingMissing

(* A call goes on to the next test, with the quantities it passes set. *)
LEMMA SentGoes ==
    ASSUME SentInv, NEW t \in Txs, pc[t] \in Fetched \cup {"size"},
           pc' = [pc EXCEPT ![t] = After[pc[t]]],
           fields' \in [Txs -> [Fields -> Quantity]],
           \A u \in Txs : u # t => fields'[u] = fields[u],
           \A f \in Fields : fields[t][f] # Invalid => fields'[t][f] # Invalid,
           \A f \in Fetched : pc[t] = f => fields'[t][f] # Invalid,
           pc[t] = "size" => \A f \in Sized : fields'[t][f] # Invalid,
           UNCHANGED <<m_secret, raw, nodeNonce, epoch, net, pool, chain>>
    PROVE  SentInv'
<1>1. After[pc[t]] \in Points /\ pc \in [Txs -> Points]
  BY PassedAfter DEF Points, SentInv, Types
<1>2. pc' \in [Txs -> Points] /\ pc'[t] = After[pc[t]] /\ \A u \in Txs : u # t => pc'[u] = pc[u]
  BY <1>1
<1>3. \A f \in Passed(pc[t]) \cup {"value", "data"} : fields'[t][f] # Invalid
  BY PassedFields, FieldNames DEF SentInv, Placed
<1>4. \A f \in Passed(After[pc[t]]) : fields'[t][f] # Invalid
  <2>1. CASE pc[t] \in Fetched
    BY <1>3, <2>1, PassedAfter
  <2>2. CASE pc[t] = "size"
    BY <1>3, <2>2, PassedAfter
  <2>. QED
    BY <2>1, <2>2
<1>5. Placed'
  BY <1>2, <1>3, <1>4 DEF SentInv, Placed
<1>6. NothingMissing'
  BY DEF SentInv, NothingMissing, Messages
<1>. QED
  BY <1>2, <1>5, <1>6 DEF SentInv, Types

LEMMA AnswersType ==
    ASSUME SentInv, NEW t \in Txs, NEW f \in Fetched PROVE Answers(t, f) \subseteq Nat
<1>1. nodeNonce[Account(m_secret[t])] \in Nat /\ epoch \in Nat
  BY DEF SentInv, Types, Account
<1>2. MIN_GAS_PRICE \in Nat /\ GasPrices \subseteq Nat /\ ChainId \in Nat
  BY ClientAssumption DEF MIN_GAS_PRICE
<1>3. CASE f = "nonce"
  BY <1>1, <1>3 DEF Answers
<1>4. CASE f = "chainId"
  BY <1>2, <1>4 DEF Answers
<1>5. CASE f = "gasPrice"
  BY <1>2, <1>5 DEF Answers
<1>6. CASE f = "epochHeight"
  BY <1>1, <1>6 DEF Answers
<1>. QED
  BY <1>3, <1>4, <1>5, <1>6 DEF Fetched

(* What Fetch does to the quantities. *)
LEMMA Fetches ==
    ASSUME SentInv, NEW t \in Txs, NEW f \in Fetched, Fetch(t, f)
    PROVE  /\ fields' \in [Txs -> [Fields -> Quantity]]
           /\ fields[t][f] = Invalid /\ fields'[t][f] # Invalid
           /\ \A u \in Txs, g \in Fields : u # t \/ g # f => fields'[u][g] = fields[u][g]
           /\ \A u \in Txs : u # t => fields'[u] = fields[u]
           /\ pc[t] = f /\ pc' = [pc EXCEPT ![t] = After[pc[t]]]
           /\ UNCHANGED <<m_secret, m_vrs, raw, nodeNonce, epoch, net, pool, chain>>
<1>0. fields \in [Txs -> [Fields -> Quantity]] /\ fields[t] \in [Fields -> Quantity] /\ f \in Fields
  BY FieldNames DEF SentInv, Types
<1>1. PICK v \in Answers(t, f) : fields' = [fields EXCEPT ![t][f] = v]
  BY DEF Fetch
<1>2. v \in Nat /\ v \in Quantity /\ v # Invalid
  BY <1>1, AnswersType, TxsAssumption DEF Quantity
<1>3. fields' \in [Txs -> [Fields -> Quantity]] /\ fields'[t][f] = v
  BY <1>0, <1>1, <1>2
<1>4. /\ \A u \in Txs, g \in Fields : u # t \/ g # f => fields'[u][g] = fields[u][g]
      /\ \A u \in Txs : u # t => fields'[u] = fields[u]
  BY <1>0, <1>1
<1>. QED
  BY <1>2, <1>3, <1>4 DEF Fetch, Set, Goes, nodeVars

(* What sizing does to them: gas and storageLimit are set, each to what it *)
(* was when it was set and the object has data.                            *)
LEMMA Sizes ==
    ASSUME SentInv, NEW t \in Txs, SizeTransfer(t) \/ SizeByEstimate(t)
    PROVE  /\ fields' \in [Txs -> [Fields -> Quantity]]
           /\ \A f \in Sized : fields'[t][f] # Invalid
           /\ \A u \in Txs, g \in Fields : u # t \/ g \notin Sized => fields'[u][g] = fields[u][g]
           /\ \A u \in Txs : u # t => fields'[u] = fields[u]
           /\ fields[t]["data"] # 0 => \A f \in Sized : fields[t][f] # Invalid => fields'[t][f] = fields[t][f]
           /\ pc[t] = "size" /\ pc' = [pc EXCEPT ![t] = After[pc[t]]] /\ given' = given
           /\ UNCHANGED <<m_secret, m_vrs, raw, nodeNonce, epoch, net, pool, chain>>
<1>0. fields \in [Txs -> [Fields -> Quantity]] /\ fields[t] \in [Fields -> Quantity]
  BY DEF SentInv, Types
<1>1. PICK g, l :
        /\ Size(t, g, l) /\ g \in Nat /\ l \in Nat
        /\ fields[t]["data"] # 0 =>
             /\ fields[t]["gas"] # Invalid => g = fields[t]["gas"]
             /\ fields[t]["storageLimit"] # Invalid => l = fields[t]["storageLimit"]
  <2>1. CASE SizeTransfer(t)
    BY <2>1 DEF SizeTransfer, TRANSACTION_GAS, TRANSACTION_STORAGE_LIMIT
  <2>2. CASE SizeByEstimate(t)
    <3>1. PICK e \in Estimates :
            Size(t, IF Set(t, "gas") THEN fields[t]["gas"] ELSE Scaled(e[1]),
                    IF Set(t, "storageLimit") THEN fields[t]["storageLimit"]
                    ELSE Scaled(IF e[2] = 0 THEN 250 ELSE e[2]))
      BY <2>2 DEF SizeByEstimate
    <3>2. \A n \in Nat : Scaled(n) \in Nat
      BY DEF Scaled
    <3>3. e[1] \in Nat /\ (IF e[2] = 0 THEN 250 ELSE e[2]) \in Nat
      BY ClientAssumption
    <3>4. Scaled(e[1]) \in Nat /\ Scaled(IF e[2] = 0 THEN 250 ELSE e[2]) \in Nat
      BY <3>2, <3>3
    <3>5. /\ Set(t, "gas") => fields[t]["gas"] \in Nat
          /\ Set(t, "storageLimit") => fields[t]["storageLimit"] \in Nat
      BY <1>0, FieldNames DEF Set, Quantity
    <3>. QED
      BY <3>1, <3>4, <3>5 DEF Set
  <2>. QED
    BY <2>1, <2>2
<1> DEFINE row == [fields[t] EXCEPT !["gas"] = g, !["storageLimit"] = l]
<1>2. fields' = [fields EXCEPT ![t] = row]
  BY <1>1 DEF Size
<1>3. /\ row \in [Fields -> Quantity] /\ row["gas"] = g /\ row["storageLimit"] = l
      /\ \A h \in Fields : h \notin Sized => row[h] = fields[t][h]
  BY <1>0, <1>1, FieldNames DEF Sized, Quantity
<1> HIDE DEF row
<1>4. fields'[t] = row /\ \A u \in Txs : u # t => fields'[u] = fields[u]
  BY <1>0, <1>2
<1>5. fields' \in [Txs -> [Fields -> Quantity]]
  BY <1>0, <1>2, <1>3
<1>6. \A f \in Sized : fields'[t][f] # Invalid
  BY <1>1, <1>3, <1>4, TxsAssumption DEF Sized
<1>7. fields[t]["data"] # 0 => \A f \in Sized : fields[t][f] # Invalid => fields'[t][f] = fields[t][f]
  BY <1>1, <1>3, <1>4 DEF Sized
<1>8. pc[t] = "size"
  BY DEF SizeTransfer, SizeByEstimate, NeedsSize
<1>9. /\ pc' = [pc EXCEPT ![t] = After[pc[t]]] /\ given' = given
      /\ UNCHANGED <<m_secret, m_vrs, raw, nodeNonce, epoch, net, pool, chain>>
  BY <1>1 DEF Size, Goes, nodeVars
<1>10. \A u \in Txs, h \in Fields : u # t \/ h \notin Sized => fields'[u][h] = fields[u][h]
  BY <1>3, <1>4
<1>. QED
  BY <1>4, <1>5, <1>6, <1>7, <1>8, <1>9, <1>10

(* The steps of ApplyUnsignedTransactionDefault. *)
LEMMA SentApply ==
    ASSUME SentInv, NEW t \in Txs,
           \/ \E f \in Fetched : Fetch(t, f)
           \/ Skip(t) \/ SizeTransfer(t) \/ SizeByEstimate(t)
    PROVE  SentInv'
<1>1. ASSUME NEW f \in Fetched, Fetch(t, f) PROVE SentInv'
  <2>1. f # "size"
    BY DEF Fetched
  <2>2. \A g \in Fields : fields[t][g] # Invalid => fields'[t][g] # Invalid
    BY <1>1, Fetches
  <2>. QED
    BY <1>1, <2>1, <2>2, Fetches, SentGoes
<1>2. CASE SizeTransfer(t) \/ SizeByEstimate(t)
  <2>1. "size" \notin Fetched
    BY DEF Fetched
  <2>2. \A g \in Fields : fields[t][g] # Invalid => fields'[t][g] # Invalid
    BY <1>2, Sizes
  <2>3. pc[t] = "size" /\ \A f \in Fetched : pc[t] = f => fields'[t][f] # Invalid
    BY <1>2, <2>1, Sizes
  <2>. QED
    BY <1>2, <2>2, <2>3, Sizes, SentGoes
<1>3. CASE Skip(t)
  <2>1. /\ UNCHANGED <<fields, m_secret, raw, nodeNonce, epoch, net, pool, chain>>
        /\ pc' = [pc EXCEPT ![t] = After[pc[t]]]
    BY <1>3 DEF Skip, Goes, baseVars, nodeVars
  <2>2. pc[t] \in Fetched \cup {"size"}
    BY <1>3 DEF Skip
  <2>3. \A f \in Fetched : pc[t] = f => fields[t][f] # Invalid
    BY <1>3 DEF Skip, Set, Fetched
  <2>4. pc[t] = "size" => \A f \in Sized : fields[t][f] # Invalid
    BY <1>3 DEF Skip, NeedsSize, Set, Fetched
  <2>5. fields \in [Txs -> [Fields -> Quantity]]
    BY DEF SentInv, Types
  <2>. QED
    BY <2>1, <2>2, <2>3, <2>4, <2>5, SentGoes
<1>. QED
  BY <1>1, <1>2, <1>3

(* Signing sends out exactly what the object holds. *)
LEMMA SentPost ==
    ASSUME SentInv, NEW t \in Txs, Post(t)
    PROVE  /\ SentInv'
           /\ net' = net \cup {[tx |-> t, msg |-> raw'[t]]}
           /\ raw'[t].content.fields = fields[t] /\ \A f \in Fields : fields[t][f] \in Nat
<1> DEFINE new == [tx |-> t, msg |-> raw'[t]]
<1>1. /\ SignWith(t, m_secret[t]) /\ pc[t] = "sign" /\ m_secret[t] # None
      /\ net' = net \cup {new} /\ UNCHANGED <<pool, chain, nodeNonce, epoch>>
      /\ pc' = [pc EXCEPT ![t] = "posted"]
  BY DEF Post, SignTransaction
<1>2. m_secret' = m_secret /\ fields' = fields /\ raw' = [u \in Txs |-> raw'[u]]
  BY <1>1 DEF SignWith, SentInv, Types
<1>3. raw'[t].content = Content(t)
  BY <1>1 DEF SignWith, SentInv, Types
<1>4. new.msg.content.fields = fields[t] /\ new.tx = t
  BY <1>3 DEF Content
<1>5. \A f \in Fields : fields[t][f] # Invalid
  <2>1. Fields = Passed("sign") \cup {"value", "data"}
    BY DEF Passed, Fields
  <2>. QED
    BY <1>1, <2>1 DEF SentInv, Placed
<1>6. \A f \in Fields : fields[t][f] \in Nat
  BY <1>5 DEF SentInv, Types, Quantity
<1> HIDE DEF new
<1>7. Messages' = Messages \cup {new}
  BY <1>1 DEF Messages
<1>8. NothingMissing'
  BY <1>4, <1>5, <1>7 DEF SentInv, NothingMissing
<1>9. pc' \in [Txs -> Points] /\ \A u \in Txs : pc'[u] = pc[u] \/ pc'[u] = "posted"
  BY <1>1 DEF SentInv, Types, Points
<1>10. Placed'
  <2>1. Passed("posted") = {}
    BY DEF Passed
  <2>. QED
    BY <1>2, <1>9, <2>1 DEF SentInv, Placed
<1>11. \A m \in net' : m.tx \in Txs
  BY <1>1, <1>4 DEF SentInv
<1>12. SentInv'
  BY <1>1, <1>2, <1>8, <1>9, <1>10, <1>11 DEF SentInv, Types
<1>. QED
  BY <1>1, <1>3, <1>4, <1>6, <1>12 DEF new

LEMMA SentChange ==
    ASSUME SentInv, NEW s \in Setters, NEW t \in Txs, t = s[1], Change(t, s[2], s[3])
    PROVE  /\ SentInv'
           /\ fields' = [fields EXCEPT ![t][s[2]] = s[3]]
           /\ s[2] \in Fields /\ s[3] \in Quantity /\ s[3] # Invalid
           /\ UNCHANGED <<m_secret, m_vrs, raw, nodeNonce, epoch, net, pool, chain>>
<1> DEFINE f == s[2]
           v == s[3]
<1>1. f \in Fields /\ v \in Nat /\ v # Invalid /\ v \in Quantity
  BY TxsAssumption DEF Quantity
<1>2. /\ fields' = [fields EXCEPT ![t][f] = v]
      /\ UNCHANGED <<m_secret, m_vrs, raw, nodeNonce, epoch, net, pool, chain, pc>>
  BY DEF Change, With, callVars, nodeVars
<1>0. fields \in [Txs -> [Fields -> Quantity]] /\ fields[t] \in [Fields -> Quantity]
  BY DEF SentInv, Types
<1> HIDE DEF f, v
<1>3. /\ fields' \in [Txs -> [Fields -> Quantity]]
      /\ \A u \in Txs, g \in Fields : fields[u][g] # Invalid => fields'[u][g] # Invalid
  BY <1>0, <1>1, <1>2
<1>4. Placed'
  <2>1. \A u \in Txs : \A g \in Passed(pc[u]) \cup {"value", "data"} : g \in Fields
    BY PassedFields, FieldNames
  <2>. QED
    BY <1>2, <1>3, <2>1 DEF SentInv, Placed
<1>5. NothingMissing' /\ Types' /\ \A m \in net' : m.tx \in Txs
  BY <1>2, <1>3 DEF SentInv, NothingMissing, Messages, Types
<1>6. SentInv'
  BY <1>4, <1>5 DEF SentInv
<1>. QED
  BY <1>1, <1>2, <1>6 DEF f, v

LEMMA SentNext == ASSUME SentInv, [ClientNext]_clientVars PROVE SentInv'
<1>0. /\ pc \in [Txs -> Points] /\ m_secret \in [Txs -> Keys \cup {None}]
      /\ raw = [t \in Txs |-> raw[t]]
      /\ nodeNonce \in [Keys \cup {None} -> Nat] /\ epoch \in Nat
  BY DEF SentInv, Types
<1>1. \A p \in {"idle", "nonce", "posted", "poll", "wait", "sleep"} : p \in Points /\ Passed(p) = {}
  BY DEF Points, Passed
(* A step that leaves the objects and the node alone. *)
<1>2. ASSUME UNCHANGED <<baseVars, nodeVars>>,
             \/ pc' = pc
             \/ \E t \in Txs : \E p \in {"idle", "nonce", "posted", "poll", "wait", "sleep"} :
                   pc' = [pc EXCEPT ![t] = p]
      PROVE  SentInv'
  <2>1. /\ UNCHANGED <<fields, m_secret, raw, net, pool, chain, nodeNonce, epoch>>
        /\ Messages' \subseteq Messages /\ net' \subseteq net
    BY <1>2 DEF baseVars, nodeVars, Messages
  <2>2. pc' \in [Txs -> Points] /\ \A t \in Txs : pc'[t] = pc[t] \/ Passed(pc'[t]) = {}
    BY <1>0, <1>1, <1>2
  <2>. QED
    BY <1>0, <2>1, <2>2, SentKept
<1>3. ASSUME NEW t \in Txs, CallStep(t) PROVE SentInv'
  <2>1. CASE ApplyFails(t) \/ PostThrows(t) \/ SendFails(t) \/ Poll(t) \/ PollThrows(t)
    BY <1>2, <2>1 DEF ApplyFails, PostThrows, SendFails, Poll, PollThrows, Throws, Ends
  <2>. QED
    BY <1>3, <2>1, SentApply, SentPost DEF CallStep
<1>4. ASSUME NEW t \in Txs, WaitStep(t) \/ Tick(t) PROVE SentInv'
  BY <1>2, <1>4 DEF WaitStep, WaitPoll, WaitSleep, WaitCatch, Tick, Ends
<1>5. ASSUME NEW t \in Txs, Caller(t) PROVE SentInv'
  <2>1. CASE sendTransaction(t) \/ DeployContract(t) \/ WaitTransactionFinished(t)
    BY <1>2, <2>1 DEF sendTransaction, DeployContract, WaitTransactionFinished, Begin
  <2>2. ASSUME NEW g \in Rekeys, t = g[1], GiveKey(t, g[2]) PROVE SentInv'
    <3>1. /\ m_secret' = [m_secret EXCEPT ![t] = g[2]]
          /\ UNCHANGED <<fields, raw, net, pool, chain, nodeNonce, epoch, pc>>
      BY <2>2 DEF GiveKey, WithSecret, nodeVars, callVars
    <3>2. m_secret' \in [Txs -> Keys \cup {None}] /\ Messages' = Messages
      BY <1>0, <3>1, TxsAssumption DEF Messages
    <3>. QED
      BY <1>0, <3>1, <3>2, SentKept
  <2>. QED
    BY <1>5, <2>1, <2>2, SentChange DEF Caller
<1>6. ASSUME Node PROVE SentInv'
  <2>1. ASSUME NEW m \in net, Answered(m) \/ Unanswered(m) PROVE SentInv'
    <3>1. /\ Received(m) /\ UNCHANGED <<fields, m_secret, raw>>
      BY <2>1 DEF Answered, Unanswered, baseVars
    <3>2. /\ net' \subseteq net /\ Messages' \subseteq Messages
          /\ UNCHANGED <<chain, nodeNonce, epoch>>
      BY <3>1, MessagesKept DEF Received
    <3>3. m.tx \in Txs
      BY DEF SentInv
    <3>4. \/ pc' = pc
          \/ \E p \in {"idle", "poll"} : pc' = [pc EXCEPT ![m.tx] = p]
      BY <2>1 DEF Answered, Unanswered, callVars, Throws, Ends
    <3>5. pc' \in [Txs -> Points] /\ \A t \in Txs : pc'[t] = pc[t] \/ Passed(pc'[t]) = {}
      BY <1>0, <1>1, <3>3, <3>4
    <3>. QED
      BY <1>0, <3>1, <3>2, <3>5, SentKept
  <2>2. ASSUME UNCHANGED <<baseVars, callVars, net>>, Messages' \subseteq Messages,
               nodeNonce' \in [Keys \cup {None} -> Nat], epoch' \in Nat
        PROVE  SentInv'
    BY <1>0, <2>2, SentKept DEF baseVars, callVars
  <2>3. ASSUME NEW m \in pool, Drop(m) PROVE SentInv'
    <3>1. Messages' \subseteq Messages
      BY <2>3 DEF Drop, Messages
    <3>. QED
      BY <1>0, <2>2, <2>3, <3>1 DEF Drop
  <2>4. ASSUME NEW m \in pool, NEW outcome, Execute(m, outcome) PROVE SentInv'
    <3>1. chain' = chain \cup {[m |-> m, outcome |-> outcome]} /\ pool' \subseteq pool /\ net' = net
      BY <2>4 DEF Execute
    <3>2. Messages' \subseteq Messages
      BY <3>1 DEF Messages
    <3>3. nodeNonce' \in [Keys \cup {None} -> Nat]
      <4>1. nodeNonce' = [nodeNonce EXCEPT ![From(m)] = nodeNonce[From(m)] + 1]
        BY <2>4 DEF Execute
      <4>2. From(m) \in Keys \cup {None} => nodeNonce[From(m)] + 1 \in Nat
        BY <1>0
      <4>. QED
        BY <1>0, <4>1, <4>2
    <3>. QED
      BY <1>0, <2>2, <2>4, <3>2, <3>3 DEF Execute
  <2>5. CASE NextEpoch
    <3>1. epoch' \in Nat /\ Messages' = Messages
      BY <1>0, <2>5 DEF NextEpoch, Messages
    <3>. QED
      BY <1>0, <2>2, <2>5, <3>1 DEF NextEpoch
  <2>. QED
    BY <1>6, <2>1, <2>3, <2>4, <2>5 DEF Node
<1>7. CASE UNCHANGED clientVars
  BY <1>2, <1>7 DEF clientVars, callVars
<1>. QED
  BY <1>3, <1>4, <1>5, <1>6, <1>7 DEF ClientNext

(* Whichever request fails, and whatever was set or fetched in earlier     *)
(* attempts, no transaction is sent, pooled or executed with a quantity    *)
(* that was never set.                                                     *)
THEOREM NothingMissingAlways == ClientSpec => []NothingMissing
<1>1. SentInv /\ [ClientNext]_clientVars => SentInv'
  BY SentNext
<1>2. SentInv => NothingMissing
  BY DEF SentInv
<1>. QED
  BY <1>1, <1>2, SentInit, PTL DEF ClientSpec

-----------------------------------------------------------------------------
(* AtMostOnce.  The keys an object is ever given, and that they are one.   *)

KeysOf(t) == ({KeyOf[t]} \cup {g[2] : g \in {h \in Rekeys : h[1] = t}}) \ {None}

OneKey == \A t \in Txs : \A k, l \in KeysOf(t) : k = l

KeyFixed ==
    /\ \A t \in Txs : m_secret[t] \in KeysOf(t) \cup {None}
    /\ m_vrs = [t \in Txs |-> m_vrs[t]]
    /\ \A t \in Txs : m_vrs[t] # None => m_vrs[t].by \in KeysOf(t)

(* A transaction that was sent has the nonce its object still has, and the *)
(* signature of one of its keys, or none at all.                           *)
Faithful(m) ==
    /\ m.tx \in Txs
    /\ Nonce(m) \in Nat /\ Nonce(m) = fields[m.tx]["nonce"]
    /\ From(m) \in KeysOf(m.tx) \cup {Stranger}

(* The node takes no stranger's. *)
Taken(m) == Faithful(m) /\ From(m) \in KeysOf(m.tx)

(* The chain has one transaction per account and nonce. *)
ChainOrdered ==
    /\ \A c \in chain : Nonce(c.m) < nodeNonce[From(c.m)]
    /\ \A c, d \in chain : SameSlot(c.m, d.m) => c = d

ClientInv ==
    /\ KeyFixed
    /\ \A m \in net : Faithful(m)
    /\ \A m \in pool : Taken(m)
    /\ \A c \in chain : Taken(c.m)
    /\ ChainOrdered

LEMMA KeysOfType == \A t \in Txs : KeysOf(t) \subseteq Keys
<1> SUFFICES ASSUME NEW t \in Txs, NEW k \in KeysOf(t) PROVE k \in Keys
  OBVIOUS
<1>1. k # None /\ (k = KeyOf[t] \/ \E g \in Rekeys : k = g[2])
  BY DEF KeysOf
<1>. QED
  BY <1>1, TxsAssumption

LEMMA ClientInvInit == ClientInit => ClientInv
<1> SUFFICES ASSUME ClientInit PROVE ClientInv
  OBVIOUS
<1>1. KeyFixed
  BY DEF ClientInit, BaseInit, KeyFixed, KeysOf
<1>. QED
  BY <1>1 DEF ClientInit, ClientInv, ChainOrdered

(* The object gets a quantity; a nonce it has it keeps. *)
LEMMA FieldsStep ==
    ASSUME ClientInv, UNCHANGED <<m_secret, m_vrs, net, pool, chain, nodeNonce>>,
           \A t \in Txs : fields[t]["nonce"] # Invalid => fields'[t]["nonce"] = fields[t]["nonce"]
    PROVE  ClientInv'
<1>1. ASSUME NEW m, Faithful(m) PROVE Faithful(m)'
  <2>1. Nonce(m) # Invalid /\ Nonce(m)' = Nonce(m) /\ From(m)' = From(m)
    BY <1>1, TxsAssumption DEF Faithful, Nonce, From
  <2>. QED
    BY <1>1, <2>1 DEF Faithful
<1>2. ASSUME NEW m, Taken(m) PROVE Taken(m)'
  BY <1>1, <1>2 DEF Taken, From
<1>3. KeyFixed' /\ ChainOrdered'
  BY DEF ClientInv, KeyFixed, ChainOrdered, SameSlot, From, Nonce
<1>. QED
  BY <1>1, <1>2, <1>3 DEF ClientInv

(* The objects keep their quantities; transactions move or vanish. *)
LEMMA MoveStep ==
    ASSUME ClientInv, UNCHANGED <<fields, chain, nodeNonce>>, KeyFixed',
           \A m \in net' : m \in net \/ Faithful(m),
           \A m \in pool' : m \in pool \/ Taken(m)
    PROVE  ClientInv'
<1>1. ASSUME NEW m, Faithful(m) PROVE Faithful(m)'
  BY <1>1 DEF Faithful, From, Nonce
<1>2. ASSUME NEW m, Taken(m) PROVE Taken(m)'
  BY <1>1, <1>2 DEF Taken, From
<1>3. \A m \in net' : Faithful(m)'
  BY <1>1 DEF ClientInv
<1>4. \A m \in pool' : Taken(m)'
  BY <1>2 DEF ClientInv
<1>5. \A c \in chain' : Taken(c.m)'
  BY <1>2 DEF ClientInv
<1>6. ChainOrdered'
  BY DEF ClientInv, ChainOrdered, SameSlot, From, Nonce
<1>. QED
  BY <1>3, <1>4, <1>5, <1>6 DEF ClientInv

LEMMA ExecuteStep ==
    ASSUME SentInv, ClientInv, NEW m \in pool, NEW outcome, Execute(m, outcome) PROVE ClientInv'
<1> DEFINE new == [m |-> m, outcome |-> outcome]
           k == From(m)
<1>1. Taken(m) /\ k \in Keys /\ Nonce(m) \in Nat /\ Nonce(m) = nodeNonce[k]
  BY KeysOfType DEF ClientInv, Taken, Faithful, Execute
<1>2. /\ pool' \subseteq pool /\ chain' = chain \cup {new} /\ net' = net
      /\ fields' = fields /\ m_secret' = m_secret /\ m_vrs' = m_vrs
      /\ nodeNonce' = [nodeNonce EXCEPT ![k] = nodeNonce[k] + 1]
  BY DEF Execute, baseVars
<1>3. new.m = m
  OBVIOUS
<1> HIDE DEF new
<1>4. ASSUME NEW n, Faithful(n) PROVE Faithful(n)'
  BY <1>2, <1>4 DEF Faithful, From, Nonce
<1>5. ASSUME NEW n, Taken(n) PROVE Taken(n)'
  BY <1>4, <1>5 DEF Taken, From
<1>6. /\ \A n \in net' : Faithful(n)'
      /\ \A n \in pool' : Taken(n)'
      /\ \A c \in chain' : Taken(c.m)'
  BY <1>1, <1>2, <1>3, <1>4, <1>5 DEF ClientInv
<1>7. nodeNonce'[k] = nodeNonce[k] + 1 /\ nodeNonce[k] \in Nat
  BY <1>1, <1>2 DEF SentInv, Types
<1>8. ASSUME NEW c \in chain PROVE /\ Nonce(c.m) < nodeNonce'[From(c.m)]
                                  /\ ~SameSlot(c.m, m)
  <2>1. /\ Nonce(c.m) \in Nat /\ Nonce(c.m) < nodeNonce[From(c.m)] /\ From(c.m) \in Keys
    BY KeysOfType DEF ClientInv, ChainOrdered, Taken, Faithful
  <2>2. nodeNonce[From(c.m)] \in Nat
    BY <2>1 DEF SentInv, Types
  <2>3. CASE From(c.m) = k
    BY <1>1, <1>7, <2>1, <2>2, <2>3 DEF SameSlot
  <2>4. CASE From(c.m) # k
    BY <1>2, <2>1, <2>4 DEF SameSlot, SentInv, Types
  <2>. QED
    BY <2>3, <2>4
<1>9. ChainOrdered'
  <2>1. \A c \in chain' : Nonce(c.m) < nodeNonce'[From(c.m)]
    BY <1>1, <1>2, <1>3, <1>7, <1>8
  <2>2. \A c, d \in chain' : SameSlot(c.m, d.m) => c = d
    BY <1>2, <1>3, <1>8 DEF SameSlot, ClientInv, ChainOrdered
  <2>. QED
    BY <2>1, <2>2 DEF ChainOrdered, SameSlot, From, Nonce
<1>10. KeyFixed'
  BY <1>2 DEF ClientInv, KeyFixed
<1>. QED
  BY <1>6, <1>9, <1>10 DEF ClientInv

LEMMA PostStep == ASSUME SentInv, ClientInv, NEW t \in Txs, Post(t) PROVE ClientInv'
<1> DEFINE new == [tx |-> t, msg |-> raw'[t]]
           k == m_secret[t]
           vrs == IF k \in BadKeys THEN m_vrs[t] ELSE [by |-> k, over |-> Content(t)]
<1>1. /\ k \in KeysOf(t)
      /\ m_vrs' = [m_vrs EXCEPT ![t] = vrs]
      /\ m_secret' = [m_secret EXCEPT ![t] = k]
      /\ raw' = [raw EXCEPT ![t] = [content |-> Content(t),
                                   vrs |-> IF vrs = None THEN Garbage ELSE vrs]]
      /\ UNCHANGED <<fields, pool, chain, nodeNonce>>
  BY DEF Post, SignTransaction, SignWith, ClientInv, KeyFixed
<1>2. m_secret' = m_secret
  BY <1>1 DEF SentInv, Types
<1>3. vrs # None => vrs.by \in KeysOf(t)
  BY <1>1 DEF ClientInv, KeyFixed
<1> HIDE DEF vrs
<1>4. raw'[t].vrs = IF vrs = None THEN Garbage ELSE vrs
  BY <1>1 DEF SentInv, Types
<1>5. From(new) \in KeysOf(t) \cup {Stranger}
  BY <1>3, <1>4 DEF From, Garbage
<1>6. Nonce(new) = fields[t]["nonce"] /\ Nonce(new) \in Nat /\ new.tx = t /\ net' = net \cup {new}
  BY SentPost, FieldNames DEF Nonce
<1> HIDE DEF new
<1>7. Faithful(new)
  BY <1>5, <1>6 DEF Faithful
<1>8. KeyFixed'
  BY <1>1, <1>2, <1>3 DEF ClientInv, KeyFixed
<1>. QED
  BY <1>1, <1>6, <1>7, <1>8, MoveStep

LEMMA ValidTaken == ASSUME NEW m, Faithful(m), Valid(m) PROVE Taken(m)
<1>1. recover(m.msg.vrs, m.msg.content) \subseteq Keys
  BY DEF Valid
<1>2. From(m) \in Keys
  BY <1>1, TxsAssumption DEF recover, From
<1>3. None \notin Keys /\ Stranger \notin Keys
  BY TxsAssumption
<1>. QED
  BY <1>2, <1>3 DEF Taken, Faithful

LEMMA ClientInvNext ==
    ASSUME SentInv, ClientInv, [ClientNext]_clientVars, \A s \in Setters : s[2] # "nonce"
    PROVE  ClientInv'
<1>1. ASSUME UNCHANGED <<baseVars, nodeVars>> PROVE ClientInv'
  <2>1. KeyFixed' /\ UNCHANGED <<fields, chain, nodeNonce, net, pool>>
    BY <1>1 DEF baseVars, nodeVars, ClientInv, KeyFixed
  <2>. QED
    BY <2>1, MoveStep
<1>2. ASSUME UNCHANGED <<baseVars, chain, nodeNonce>>,
             \A m \in net' : m \in net \/ Faithful(m), \A m \in pool' : m \in pool \/ Taken(m)
      PROVE ClientInv'
  <2>1. UNCHANGED fields /\ KeyFixed'
    BY <1>2 DEF baseVars, ClientInv, KeyFixed
  <2>. QED
    BY <1>2, <2>1, MoveStep
<1>3. ASSUME NEW t \in Txs, CallStep(t) PROVE ClientInv'
  <2>1. CASE Skip(t) \/ ApplyFails(t) \/ PostThrows(t) \/ SendFails(t) \/ Poll(t) \/ PollThrows(t)
    BY <1>1, <2>1 DEF Skip, ApplyFails, PostThrows, SendFails, Poll, PollThrows
  <2>2. ASSUME NEW f \in Fetched, Fetch(t, f) PROVE ClientInv'
    BY <2>2, Fetches, FieldNames, FieldsStep
  <2>3. CASE SizeTransfer(t) \/ SizeByEstimate(t)
    <3>1. "nonce" \in Fields /\ "nonce" \notin Sized
      BY FieldNames DEF Sized
    <3>. QED
      BY <2>3, <3>1, Sizes, FieldsStep
  <2>. QED
    BY <1>3, <2>1, <2>2, <2>3, PostStep DEF CallStep
<1>4. ASSUME NEW t \in Txs, WaitStep(t) \/ Tick(t) PROVE ClientInv'
  BY <1>1, <1>4 DEF WaitStep, WaitPoll, WaitSleep, WaitCatch, Tick
<1>5. ASSUME NEW t \in Txs, Caller(t) PROVE ClientInv'
  <2>1. CASE sendTransaction(t) \/ DeployContract(t) \/ WaitTransactionFinished(t)
    BY <1>1, <2>1 DEF sendTransaction, DeployContract, WaitTransactionFinished, Begin
  <2>2. ASSUME NEW g \in Rekeys, t = g[1], GiveKey(t, g[2]) PROVE ClientInv'
    <3>1. /\ m_secret' = [m_secret EXCEPT ![t] = g[2]]
          /\ UNCHANGED <<fields, m_vrs, net, pool, chain, nodeNonce>>
      BY <2>2 DEF GiveKey, WithSecret, nodeVars
    <3>2. g[2] \in KeysOf(t) \cup {None}
      BY <2>2 DEF KeysOf
    <3>3. KeyFixed'
      BY <3>1, <3>2 DEF ClientInv, KeyFixed, SentInv, Types
    <3>. QED
      BY <3>1, <3>3, MoveStep
  <2>3. ASSUME NEW s \in Setters, t = s[1], Change(t, s[2], s[3]) PROVE ClientInv'
    <3>1. /\ fields' = [fields EXCEPT ![t][s[2]] = s[3]] /\ s[2] \in Fields /\ s[2] # "nonce"
          /\ UNCHANGED <<m_secret, m_vrs, net, pool, chain, nodeNonce>>
      BY <2>3, SentChange
    <3>2. \A u \in Txs : fields'[u]["nonce"] = fields[u]["nonce"]
      BY <3>1, FieldNames DEF SentInv, Types
    <3>. QED
      BY <3>1, <3>2, FieldsStep
  <2>. QED
    BY <1>5, <2>1, <2>2, <2>3 DEF Caller
<1>6. ASSUME Node PROVE ClientInv'
  <2>1. ASSUME NEW m \in net, Answered(m) \/ Unanswered(m) PROVE ClientInv'
    <3>1. Received(m) /\ UNCHANGED baseVars
      BY <2>1 DEF Answered, Unanswered
    <3>2. net' \subseteq net /\ pool' \subseteq pool \cup {m} /\ UNCHANGED <<chain, nodeNonce>>
      BY <3>1 DEF Received
    <3>3. m \in pool' => m \in pool \/ Valid(m)
      BY <3>1 DEF Received
    <3>4. Faithful(m)
      BY DEF ClientInv
    <3>5. \A n \in pool' : n \in pool \/ Taken(n)
      BY <3>2, <3>3, <3>4, ValidTaken
    <3>. QED
      BY <1>2, <3>1, <3>2, <3>5
  <2>2. ASSUME NEW m \in pool, Drop(m) PROVE ClientInv'
    BY <1>2, <2>2 DEF Drop
  <2>3. CASE NextEpoch
    BY <1>2, <2>3 DEF NextEpoch
  <2>. QED
    BY <1>6, <2>1, <2>2, <2>3, ExecuteStep DEF Node
<1>7. CASE UNCHANGED clientVars
  BY <1>1, <1>7 DEF clientVars
<1>. QED
  BY <1>3, <1>4, <1>5, <1>6, <1>7 DEF ClientNext

(* As long as callers leave the nonce to the client and an object has one  *)
(* key, it is not executed twice, whatever is lost, late or repeated, and  *)
(* however often the gas price or the key is set in between.               *)
THEOREM AtMostOnceAlways ==
    ASSUME OneKey, \A s \in Setters : s[2] # "nonce" PROVE ClientSpec => []AtMostOnce
<1>1. ClientInit => SentInv /\ ClientInv
  BY SentInit, ClientInvInit
<1>2. SentInv /\ ClientInv /\ [ClientNext]_clientVars => SentInv' /\ ClientInv'
  BY SentNext, ClientInvNext
<1>3. ClientInv => AtMostOnce
  <2> SUFFICES ASSUME ClientInv, NEW c \in chain, NEW d \in chain, c.m.tx = d.m.tx PROVE c = d
    BY DEF AtMostOnce
  <2>1. Taken(c.m) /\ Taken(d.m)
    BY DEF ClientInv
  <2>2. From(c.m) = From(d.m) /\ Nonce(c.m) = Nonce(d.m)
    BY <2>1 DEF Taken, Faithful, OneKey
  <2>. QED
    BY <2>2 DEF ClientInv, ChainOrdered, SameSlot
<1>. QED
  BY <1>1, <1>2, <1>3, PTL DEF ClientSpec

-----------------------------------------------------------------------------
(* SuccessIsReal.  A deployment gets its hash while it runs, so the result *)
(* of an earlier call on the object must be gone by then; and the chain    *)
(* only grows.                                                             *)

ResultInv ==
    /\ pc = [t \in Txs |-> pc[t]] /\ result = [t \in Txs |-> result[t]]
    /\ hash = [t \in Txs |-> hash[t]]
    /\ \A t \in Txs : pc[t] # "idle" => result[t] = "none"
    /\ SuccessIsReal

(* No step but Ends() gives a result; it ends the call. *)
LEMMA ResultKept ==
    ASSUME ResultInv, UNCHANGED <<pc, result, hash>>, chain \subseteq chain' PROVE ResultInv'
BY DEF ResultInv, SuccessIsReal, Outcome

(* A call goes from one point to another, with a new hash or the old one. *)
LEMMA ResultMoves ==
    ASSUME ResultInv, NEW t \in Txs, result[t] = "none", UNCHANGED <<result, chain>>,
           NEW p, pc' = [pc EXCEPT ![t] = p],
           hash' = hash \/ \E m : hash' = [hash EXCEPT ![t] = m]
    PROVE  ResultInv'
<1>1. /\ pc' = [u \in Txs |-> pc'[u]] /\ hash' = [u \in Txs |-> hash'[u]]
      /\ \A u \in Txs : u # t => pc'[u] = pc[u] /\ hash'[u] = hash[u]
  BY DEF ResultInv
<1>2. SuccessIsReal'
  BY <1>1 DEF ResultInv, SuccessIsReal, Outcome
<1>3. \A u \in Txs : pc'[u] # "idle" => result'[u] = "none"
  BY <1>1 DEF ResultInv
<1>4. result' = [u \in Txs |-> result'[u]]
  BY DEF ResultInv
<1>. QED
  BY <1>1, <1>2, <1>3, <1>4 DEF ResultInv

(* A call begins. *)
LEMMA ResultBegins ==
    ASSUME ResultInv, NEW t \in Txs, NEW p, pc' = [pc EXCEPT ![t] = p],
           result' = [result EXCEPT ![t] = "none"], UNCHANGED <<hash, chain>>
    PROVE  ResultInv'
<1>1. /\ pc' = [u \in Txs |-> pc'[u]] /\ result' = [u \in Txs |-> result'[u]]
      /\ result'[t] = "none"
      /\ \A u \in Txs : u # t => pc'[u] = pc[u] /\ result'[u] = result[u]
  BY DEF ResultInv
<1>2. SuccessIsReal'
  BY <1>1 DEF ResultInv, SuccessIsReal, Outcome
<1>3. \A u \in Txs : pc'[u] # "idle" => result'[u] = "none"
  BY <1>1 DEF ResultInv
<1>4. hash' = [u \in Txs |-> hash'[u]]
  BY DEF ResultInv
<1>. QED
  BY <1>1, <1>2, <1>3, <1>4 DEF ResultInv

(* A call ends: without a success, or with one that is on the chain. *)
LEMMA ResultEnds ==
    ASSUME ResultInv, NEW t \in Txs, NEW r, Ends(t, r), UNCHANGED chain,
           \/ hash' = hash /\ (r \in {"finished", "created"} => Outcome(hash[t], "success"))
           \/ r \notin {"finished", "created"} /\ \E m : hash' = [hash EXCEPT ![t] = m]
    PROVE  ResultInv'
<1>1. /\ pc' = [u \in Txs |-> pc'[u]] /\ result' = [u \in Txs |-> result'[u]]
      /\ result'[t] = r /\ pc'[t] = "idle"
      /\ \A u \in Txs : u # t => pc'[u] = pc[u] /\ result'[u] = result[u]
  BY DEF ResultInv, Ends
<1>2. /\ hash' = [u \in Txs |-> hash'[u]]
      /\ \A u \in Txs : u # t => hash'[u] = hash[u]
      /\ r \in {"finished", "created"} => hash'[t] = hash[t] /\ Outcome(hash[t], "success")
  BY DEF ResultInv
<1>3. SuccessIsReal'
  BY <1>1, <1>2 DEF ResultInv, SuccessIsReal, Outcome
<1>4. \A u \in Txs : pc'[u] # "idle" => result'[u] = "none"
  BY <1>1 DEF ResultInv
<1>. QED
  BY <1>1, <1>2, <1>3, <1>4 DEF ResultInv

LEMMA ResultNext == ASSUME ResultInv, SentInv, [ClientNext]_clientVars PROVE ResultInv'
<1>1. ASSUME UNCHANGED callVars, chain \subseteq chain' PROVE ResultInv'
  BY <1>1, ResultKept DEF callVars
<1>2. ASSUME NEW t \in Txs, Throws(t), UNCHANGED chain PROVE ResultInv'
  BY <1>2, ResultEnds DEF Throws
<1>3. \A t \in Txs : pc[t] \in {"nonce", "chainId", "gasPrice", "epochHeight", "size", "sign", "posted", "poll", "wait", "sleep"} => result[t] = "none"
  BY DEF ResultInv
<1>4. ASSUME NEW t \in Txs, CallStep(t) PROVE ResultInv'
  <2>1. CASE \/ \E f \in Fetched : Fetch(t, f)
             \/ Skip(t) \/ SizeTransfer(t) \/ SizeByEstimate(t)
    <3>1. /\ pc[t] \in Fetched \cup {"size"} /\ UNCHANGED <<result, hash, chain>>
          /\ pc' = [pc EXCEPT ![t] = After[pc[t]]]
      BY <2>1 DEF Fetch, Skip, SizeTransfer, SizeByEstimate, Size, NeedsSize, Goes, nodeVars
    <3>2. result[t] = "none"
      BY <1>3, <3>1 DEF Fetched
    <3>. QED
      BY <3>1, <3>2, ResultMoves
  <2>2. CASE ApplyFails(t) \/ PostThrows(t) \/ SendFails(t) \/ PollThrows(t)
    BY <1>2, <2>2 DEF ApplyFails, PostThrows, SendFails, PollThrows, nodeVars
  <2>3. CASE Post(t)
    BY <1>3, <2>3, ResultMoves DEF Post
  <2>4. CASE Poll(t)
    BY <2>4, ResultEnds DEF Poll, nodeVars
  <2>. QED
    BY <1>4, <2>1, <2>2, <2>3, <2>4 DEF CallStep
<1>5. ASSUME NEW t \in Txs, WaitPoll(t) PROVE ResultInv'
  <2>1. CASE Ends(t, "finished") /\ Outcome(hash[t], "success")
    BY <1>5, <2>1, ResultEnds DEF WaitPoll, nodeVars
  <2>2. CASE pc' = [pc EXCEPT ![t] = "sleep"] /\ UNCHANGED <<result, elapsed>>
    BY <1>3, <1>5, <2>2, ResultMoves DEF WaitPoll, nodeVars
  <2>. QED
    BY <1>5, <2>1, <2>2 DEF WaitPoll
<1>6. ASSUME NEW t \in Txs, WaitSleep(t) PROVE ResultInv'
  <2>1. CASE Ends(t, "none")
    BY <1>6, <2>1, ResultEnds DEF WaitSleep, nodeVars
  <2>2. CASE pc' = [pc EXCEPT ![t] = "wait"] /\ UNCHANGED result
    BY <1>3, <1>6, <2>2, ResultMoves DEF WaitSleep, nodeVars
  <2>. QED
    BY <1>6, <2>1, <2>2 DEF WaitSleep
<1>7. ASSUME NEW t \in Txs, WaitCatch(t) PROVE ResultInv'
  BY <1>7, ResultEnds DEF WaitCatch, nodeVars
<1>8. ASSUME NEW t \in Txs, Tick(t) PROVE ResultInv'
  BY <1>8, ResultKept DEF Tick, nodeVars
<1>9. ASSUME NEW t \in Txs, Caller(t) PROVE ResultInv'
  <2>1. CASE sendTransaction(t) \/ DeployContract(t)
    BY <2>1, ResultBegins DEF sendTransaction, DeployContract, Begin, nodeVars
  <2>2. CASE WaitTransactionFinished(t)
    BY <2>2, ResultBegins DEF WaitTransactionFinished, nodeVars
  <2>3. CASE \/ \E g \in Rekeys : GiveKey(t, g[2])
             \/ \E s \in Setters : Change(t, s[2], s[3])
    BY <1>1, <2>3 DEF GiveKey, Change, nodeVars
  <2>. QED
    BY <1>9, <2>1, <2>2, <2>3 DEF Caller
<1>10. ASSUME NEW m \in net, Answered(m) PROVE ResultInv'
  <2> DEFINE t == m.tx
  <2>1. t \in Txs /\ pc[t] = "posted" /\ chain' = chain
    BY <1>10 DEF Answered, Received, SentInv
  <2>2. \/ Throws(t)
        \/ /\ hash' = [hash EXCEPT ![t] = m]
           /\ \/ pc' = [pc EXCEPT ![t] = "poll"] /\ UNCHANGED <<result, elapsed>>
              \/ Ends(t, "none")
    BY <1>10 DEF Answered
  <2> HIDE DEF t
  <2>. QED
    BY <1>2, <1>3, <2>1, <2>2, ResultMoves, ResultEnds
<1>11. ASSUME Node PROVE ResultInv'
  BY <1>1, <1>10, <1>11 DEF Node, Unanswered, Received, Drop, Execute, NextEpoch
<1>12. ASSUME UNCHANGED clientVars PROVE ResultInv'
  BY <1>1, <1>12 DEF clientVars, nodeVars
<1>. QED
  BY <1>4, <1>5, <1>6, <1>7, <1>8, <1>9, <1>11, <1>12 DEF ClientNext, WaitStep

(* DeployContract reports success, and WaitTransactionFinished answers     *)
(* true, only for a transaction that was executed without error, however   *)
(* often calls on the object failed, were repeated or overlapped with the  *)
(* arrival of earlier attempts.                                            *)
THEOREM SuccessIsRealAlways == ClientSpec => []SuccessIsReal
<1>1. ClientInit => SentInv /\ ResultInv
  <2>1. ClientInit => ResultInv
    BY DEF ClientInit, ResultInv, SuccessIsReal
  <2>. QED
    BY <2>1, SentInit
<1>2. SentInv /\ ResultInv /\ [ClientNext]_clientVars => SentInv' /\ ResultInv'
  BY SentNext, ResultNext
<1>3. ResultInv => SuccessIsReal
  BY DEF ResultInv
<1>. QED
  BY <1>1, <1>2, <1>3, PTL DEF ClientSpec

-----------------------------------------------------------------------------
(* FetchedBesideGiven.  The client fills in only what is missing, and what *)
(* the caller set is never missing again.                                  *)

GivenSet == \A t \in Txs, f \in Fields : given[t][f] # Invalid => fields[t][f] # Invalid

KeptInv ==
    /\ given = [t \in Txs |-> given[t]] /\ \A t \in Txs : given[t] = [f \in Fields |-> given[t][f]]
    /\ GivenSet

(* What FetchedBesideGiven says of a step. *)
KeptStep ==
    \A t \in Txs, f \in Fields :
        given[t][f] # Invalid /\ (f \in Sized => fields[t]["data"] # 0) =>
            fields'[t][f] \in {fields[t][f], given'[t][f]}

LEMMA KeptSame == ASSUME KeptInv, UNCHANGED <<fields, given>> PROVE KeptInv' /\ KeptStep
BY DEF KeptInv, GivenSet, KeptStep

LEMMA KeptFetch ==
    ASSUME SentInv, KeptInv, NEW t \in Txs, NEW f \in Fetched, Fetch(t, f) PROVE KeptInv' /\ KeptStep
<1>1. given' = given /\ fields[t][f] = Invalid /\ given[t][f] = Invalid
  BY Fetches, FieldNames DEF Fetch, KeptInv, GivenSet
<1>2. \A u \in Txs, g \in Fields : u # t \/ g # f => fields'[u][g] = fields[u][g]
  BY Fetches
<1>. QED
  BY <1>1, <1>2 DEF KeptInv, GivenSet, KeptStep

LEMMA KeptSize ==
    ASSUME SentInv, KeptInv, NEW t \in Txs, SizeTransfer(t) \/ SizeByEstimate(t)
    PROVE  KeptInv' /\ KeptStep
<1>1. /\ given' = given /\ \A f \in Sized : fields'[t][f] # Invalid
      /\ \A u \in Txs, g \in Fields : u # t \/ g \notin Sized => fields'[u][g] = fields[u][g]
      /\ fields[t]["data"] # 0 => \A f \in Sized : fields[t][f] # Invalid => fields'[t][f] = fields[t][f]
  BY Sizes
<1>2. \A f \in Fields : given[t][f] # Invalid => fields[t][f] # Invalid
  BY DEF KeptInv, GivenSet
<1>. QED
  BY <1>1, <1>2 DEF KeptInv, GivenSet, KeptStep

LEMMA KeptChange ==
    ASSUME SentInv, KeptInv, NEW t \in Txs, NEW s \in Setters, t = s[1], Change(t, s[2], s[3])
    PROVE  KeptInv' /\ KeptStep
<1> DEFINE f == s[2]
           v == s[3]
<1>1. f \in Fields /\ v # Invalid /\ fields' = [fields EXCEPT ![t][f] = v]
  BY SentChange
<1>2. given' = [given EXCEPT ![t][f] = v]
  BY DEF Change
<1> HIDE DEF f, v
<1>3. /\ fields'[t][f] = v
      /\ \A u \in Txs, g \in Fields : u # t \/ g # f => fields'[u][g] = fields[u][g]
  BY <1>1 DEF SentInv, Types
<1>4. /\ given' = [u \in Txs |-> given'[u]] /\ \A u \in Txs : given'[u] = [g \in Fields |-> given'[u][g]]
      /\ given'[t][f] = v
      /\ \A u \in Txs, g \in Fields : u # t \/ g # f => given'[u][g] = given[u][g]
  BY <1>1, <1>2 DEF KeptInv
<1>. QED
  BY <1>1, <1>3, <1>4 DEF KeptInv, GivenSet, KeptStep

LEMMA KeptNext == ASSUME SentInv, KeptInv, [ClientNext]_clientVars PROVE KeptInv' /\ KeptStep
<1>1. ASSUME UNCHANGED <<baseVars, given>> PROVE KeptInv' /\ KeptStep
  BY <1>1, KeptSame DEF baseVars
<1>2. ASSUME NEW t \in Txs, CallStep(t) PROVE KeptInv' /\ KeptStep
  <2>1. CASE Skip(t) \/ ApplyFails(t) \/ PostThrows(t) \/ SendFails(t) \/ Poll(t) \/ PollThrows(t)
    BY <1>1, <2>1 DEF Skip, ApplyFails, PostThrows, SendFails, Poll, PollThrows
  <2>2. CASE Post(t)
    BY <2>2, KeptSame DEF Post, SignTransaction, SignWith
  <2>. QED
    BY <1>2, <2>1, <2>2, KeptFetch, KeptSize DEF CallStep
<1>3. ASSUME NEW t \in Txs, WaitStep(t) \/ Tick(t) PROVE KeptInv' /\ KeptStep
  BY <1>1, <1>3 DEF WaitStep, WaitPoll, WaitSleep, WaitCatch, Tick
<1>4. ASSUME NEW t \in Txs, Caller(t) PROVE KeptInv' /\ KeptStep
  <2>1. CASE sendTransaction(t) \/ DeployContract(t) \/ WaitTransactionFinished(t)
    BY <1>1, <2>1 DEF sendTransaction, DeployContract, WaitTransactionFinished, Begin
  <2>2. ASSUME NEW k, GiveKey(t, k) PROVE KeptInv' /\ KeptStep
    BY <2>2, KeptSame DEF GiveKey, WithSecret
  <2>. QED
    BY <1>4, <2>1, <2>2, KeptChange DEF Caller
<1>5. ASSUME Node PROVE KeptInv' /\ KeptStep
  BY <1>1, <1>5 DEF Node, Answered, Unanswered, Drop, Execute, NextEpoch
<1>6. ASSUME UNCHANGED clientVars PROVE KeptInv' /\ KeptStep
  BY <1>1, <1>6 DEF clientVars
<1>. QED
  BY <1>2, <1>3, <1>4, <1>5, <1>6 DEF ClientNext

(* What is fetched, or estimated for a transaction with data, never        *)
(* replaces a quantity that the caller set.                                *)
THEOREM FetchedBesideGivenAlways == ClientSpec => FetchedBesideGiven
<1>1. ClientInit => SentInv /\ KeptInv
  <2>1. ClientInit => KeptInv
    BY DEF ClientInit, KeptInv, GivenSet
  <2>. QED
    BY <2>1, SentInit
<1>2. SentInv /\ KeptInv /\ [ClientNext]_clientVars => SentInv' /\ KeptInv'
  BY SentNext, KeptNext
<1>3. SentInv /\ KeptInv /\ [ClientNext]_clientVars =>
        [\A t \in Txs, f \in Fields :
            given[t][f] # Invalid /\ (f \in Sized => fields[t]["data"] # 0) =>
                fields'[t][f] \in {fields[t][f], given'[t][f]}]_clientVars
  BY KeptNext DEF KeptStep
<1>. QED
  BY <1>1, <1>2, <1>3, PTL DEF ClientSpec, FetchedBesideGiven
=============================================================================
