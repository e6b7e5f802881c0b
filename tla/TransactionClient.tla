-------------------------- MODULE TransactionClient -------------------------
(***************************************************************************)
(* The transaction path of cfx_cpp::JsonRpcClient                          *)
(* (src/libcfxcore/rpc/client.cpp): sendTransaction, DeployContract,       *)
(* ApplyUnsignedTransactionDefault and WaitTransactionFinished, each       *)
(* caller working on a transaction object of its own, against a node that  *)
(* is reached over HTTP (rpc/httpclient.cpp).                              *)
(*                                                                         *)
(* Every RPC is a step of its own and may fail; a signed transaction that  *)
(* was posted may be answered, may time out and still arrive, or may be    *)
(* lost.  The node is external: a transaction pool with replacement by     *)
(* price, a chain, and the answers the client reads.                       *)
(***************************************************************************)
EXTENDS TransactionBase

CONSTANTS
    Deployed,   \* the objects callers pass to DeployContract
    ChainId,    \* of the node
    GasPrices,  \* what cfx_gasPrice may answer
    Estimates,  \* <<gasUsed, storageCollateralized>> of an estimate
    MaxEpoch,   \* bound: epochs that pass
    Window,     \* epochs a transaction stays valid around its epochHeight
    MaxWait     \* max_wait_ms in seconds

ASSUME ClientAssumption ==
    /\ ChainId \in Nat /\ GasPrices \subseteq Nat /\ Estimates \subseteq Nat \X Nat
    /\ MaxEpoch \in Nat /\ Window \in Nat /\ MaxWait \in Nat

VARIABLES
    pc,        \* tx -> where its caller is
    op,        \* tx -> "send" or "deploy"
    result,    \* tx -> the success the last call reported, or "none"
    hash,      \* tx -> the transaction whose hash the caller holds, or None
    elapsed,   \* tx -> seconds since WaitTransactionFinished began
    net,       \* transactions posted and not arrived
    pool,      \* of the node
    chain,     \* executed transactions with their outcome
    nodeNonce, \* account -> next nonce, by executed transactions; None stands
               \* for the account that the empty key derives
    epoch,     \* of the node
    given,     \* history: tx -> the quantities its caller set
    nonceOf    \* history: tx -> the account m_nonce was fetched for, or None

callVars == <<pc, op, result, hash, elapsed>>
nodeVars == <<net, pool, chain, nodeNonce, epoch>>
clientVars == <<baseVars, callVars, nodeVars, given, nonceOf>>

MIN_GAS_PRICE == 1
TRANSACTION_GAS == 21000
TRANSACTION_STORAGE_LIMIT == 0

Set(t, f) == fields[t][f] # Invalid

(* The account a key derives.  What is not a key of the curve has no       *)
(* public key and derives the same account as the empty key.               *)
Account(k) == IF k \in BadKeys THEN None ELSE k

(* A quantity scaled by defaultGasRatio or defaultStorageRatio, 1.1 as a   *)
(* double, and cut off.                                                    *)
Scaled(n) == (n * 11) \div 10

Ends(t, r) ==
    /\ pc' = [pc EXCEPT ![t] = "idle"]
    /\ result' = [result EXCEPT ![t] = r]
    /\ elapsed' = [elapsed EXCEPT ![t] = 0]

Throws(t) == Ends(t, "none") /\ UNCHANGED <<op, hash>>

-----------------------------------------------------------------------------
(* ApplyUnsignedTransactionDefault.  Its five tests in the order of the    *)
(* code, each one a step: the position of a call is the quantity it is     *)
(* about to look at.                                                       *)
After ==
    [nonce |-> "chainId", chainId |-> "gasPrice", gasPrice |-> "epochHeight",
     epochHeight |-> "size", size |-> "sign"]

Goes(t) == pc' = [pc EXCEPT ![t] = After[pc[t]]] /\ UNCHANGED <<op, result, hash, elapsed>>

(* What the node answers, as the client uses it. *)
Answers(t, f) ==
    CASE f = "nonce" -> {nodeNonce[Account(m_secret[t])]}
      [] f = "chainId" -> {ChainId}
      [] f = "gasPrice" -> {IF g < MIN_GAS_PRICE THEN MIN_GAS_PRICE ELSE g : g \in GasPrices}
      [] f = "epochHeight" -> {epoch}

Fetch(t, f) ==
    /\ pc[t] = f /\ ~Set(t, f) /\ Goes(t)
    /\ \E v \in Answers(t, f) : fields' = [fields EXCEPT ![t][f] = v]
    /\ nonceOf' = IF f = "nonce" THEN [nonceOf EXCEPT ![t] = Account(m_secret[t])] ELSE nonceOf
    /\ UNCHANGED <<receivers, m_secret, m_vrs, caches, raw, nodeVars, given>>

NeedsSize(t) == pc[t] = "size" /\ \E f \in Sized : ~Set(t, f)

(* What the test finds set stays as it is. *)
Skip(t) ==
    /\ \/ pc[t] \in Fetched /\ Set(t, pc[t])
       \/ pc[t] = "size" /\ ~NeedsSize(t)
    /\ Goes(t)
    /\ UNCHANGED <<baseVars, nodeVars, given, nonceOf>>

Size(t, gas, storageLimit) ==
    /\ fields' = [fields EXCEPT ![t] =
                     [@ EXCEPT !["gas"] = gas, !["storageLimit"] = storageLimit]]
    /\ Goes(t)
    /\ UNCHANGED <<receivers, m_secret, m_vrs, caches, raw, nodeVars, given, nonceOf>>

(* No data: a plain transfer, no estimate is asked for. *)
SizeTransfer(t) ==
    /\ NeedsSize(t) /\ fields[t]["data"] = 0
    /\ Size(t, TRANSACTION_GAS, TRANSACTION_STORAGE_LIMIT)

(* Mutant of SizeByEstimate: both quantities are taken from the estimate. *)
SizeByEstimateOnly(t) ==
    /\ NeedsSize(t) /\ fields[t]["data"] # 0
    /\ \E e \in Estimates : Size(t, Scaled(e[1]), Scaled(IF e[2] = 0 THEN 250 ELSE e[2]))

SizeByEstimate(t) ==
    /\ NeedsSize(t) /\ fields[t]["data"] # 0
    /\ \E e \in Estimates :
          Size(t, IF Set(t, "gas") THEN fields[t]["gas"] ELSE Scaled(e[1]),
                  IF Set(t, "storageLimit") THEN fields[t]["storageLimit"]
                  ELSE Scaled(IF e[2] = 0 THEN 250 ELSE e[2]))

AsksNode(t) ==
    \/ pc[t] \in Fetched /\ ~Set(t, pc[t])
    \/ NeedsSize(t) /\ fields[t]["data"] # 0

(* Mutant of ApplyFails: a failed request leaves its quantities as they    *)
(* are and the call goes on.                                               *)
ApplyFailsSilently(t) ==
    /\ AsksNode(t)
    /\ Goes(t)
    /\ UNCHANGED <<baseVars, nodeVars, given, nonceOf>>

(* A request fails: the exception leaves the call, the object keeps what   *)
(* it has got so far.                                                      *)
ApplyFails(t) ==
    /\ AsksNode(t)
    /\ Throws(t)
    /\ UNCHANGED <<baseVars, nodeVars, given, nonceOf>>

(* SignTransaction, and cfx_sendRawTransaction up to the post. *)
Post(t) ==
    /\ pc[t] = "sign"
    /\ SignTransaction(t)
    /\ pc' = [pc EXCEPT ![t] = "posted"]
    /\ net' = net \cup {[tx |-> t, msg |-> raw'[t]]}
    /\ UNCHANGED <<op, result, hash, elapsed, pool, chain, nodeNonce, epoch, given, nonceOf>>

(* throw("secret is empty!") *)
PostThrows(t) ==
    /\ pc[t] = "sign" /\ m_secret[t] = None
    /\ Throws(t)
    /\ UNCHANGED <<baseVars, nodeVars, given, nonceOf>>

Begin(t, o) ==
    /\ pc[t] = "idle"
    /\ pc' = [pc EXCEPT ![t] = "nonce"]
    /\ op' = [op EXCEPT ![t] = o]
    /\ result' = [result EXCEPT ![t] = "none"]
    /\ UNCHANGED <<hash, elapsed, nodeVars, given>>

(* Mutant of sendTransaction: the nonce is fetched anew for every call. *)
sendTransactionAnew(t) ==
    /\ Begin(t, "send")
    /\ fields' = [fields EXCEPT ![t]["nonce"] = Invalid]
    /\ UNCHANGED <<receivers, m_secret, m_vrs, caches, raw, nonceOf>>

sendTransaction(t) == Begin(t, "send") /\ UNCHANGED <<baseVars, nonceOf>>

DeployContract(t) ==
    /\ t \in Deployed
    /\ Begin(t, "deploy") /\ UNCHANGED <<baseVars, nonceOf>>

-----------------------------------------------------------------------------
(* The node *)

Nonce(m) == m.msg.content.fields["nonce"]
GasPrice(m) == m.msg.content.fields["gasPrice"]
From(m) == m.msg.vrs.by
SameSlot(m, n) == From(m) = From(n) /\ Nonce(m) = Nonce(n)

(* A sender that is nobody, or a stranger without funds, is refused. *)
Valid(m) ==
    LET c == m.msg.content.fields IN
    /\ recover(m.msg.vrs, m.msg.content) \subseteq Keys
    /\ Invalid \notin {c[f] : f \in Fields}
    /\ c["chainId"] = ChainId
    /\ epoch <= c["epochHeight"] + Window /\ c["epochHeight"] <= epoch + Window
    /\ c["nonce"] >= nodeNonce[From(m)]
    /\ \A n \in pool : SameSlot(n, m) => GasPrice(n) < GasPrice(m)

Received(m) ==
    /\ m \in net
    /\ net' = net \ {m}
    /\ pool' = IF Valid(m) THEN {n \in pool : ~SameSlot(n, m)} \cup {m} ELSE pool
    /\ UNCHANGED <<chain, nodeNonce, epoch>>

(* A posted transaction arrives and its answer is read: the hash, or an    *)
(* error.                                                                  *)
Answered(m) ==
    LET t == m.tx IN
    /\ pc[t] = "posted" /\ m.msg = raw[t]
    /\ Received(m)
    /\ IF ~Valid(m) THEN Throws(t)
       ELSE /\ hash' = [hash EXCEPT ![t] = m]
            /\ IF op[t] = "deploy"
               THEN pc' = [pc EXCEPT ![t] = "poll"] /\ UNCHANGED <<result, elapsed>>
               ELSE Ends(t, "none")
            /\ UNCHANGED op
    /\ UNCHANGED <<baseVars, given, nonceOf>>

(* It arrives, but nobody reads the answer. *)
Unanswered(m) ==
    /\ Received(m)
    /\ UNCHANGED <<baseVars, callVars, given, nonceOf>>

(* The connector gives up: timeout, no connection, or an HTTP error.       *)
SendFails(t) ==
    /\ pc[t] = "posted"
    /\ Throws(t)
    /\ UNCHANGED <<baseVars, nodeVars, given, nonceOf>>

Execute(m, outcome) ==
    /\ m \in pool /\ Nonce(m) = nodeNonce[From(m)]
    /\ pool' = pool \ {m}
    /\ chain' = chain \cup {[m |-> m, outcome |-> outcome]}
    /\ nodeNonce' = [nodeNonce EXCEPT ![From(m)] = @ + 1]
    /\ UNCHANGED <<net, epoch, baseVars, callVars, given, nonceOf>>

(* The pool is full, or cleaned. *)
Drop(m) ==
    /\ m \in pool
    /\ pool' = pool \ {m}
    /\ UNCHANGED <<net, chain, nodeNonce, epoch, baseVars, callVars, given, nonceOf>>

NextEpoch ==
    /\ epoch < MaxEpoch
    /\ epoch' = epoch + 1
    /\ UNCHANGED <<net, pool, chain, nodeNonce, baseVars, callVars, given, nonceOf>>

-----------------------------------------------------------------------------
(* Waiting for the outcome *)

Outcome(m, outcome) == [m |-> m, outcome |-> outcome] \in chain

(* DeployContract's loop over cfx_getTransactionByHash; a transaction that *)
(* is not packed yet is asked for again after a second.                    *)
Poll(t) ==
    /\ pc[t] = "poll"
    /\ \/ Outcome(hash[t], "success") /\ Ends(t, "created")
       \/ Outcome(hash[t], "error") /\ Ends(t, "none")
    /\ UNCHANGED <<op, hash, baseVars, nodeVars, given, nonceOf>>

(* A request fails, or the node answers null. *)
PollThrows(t) ==
    /\ pc[t] = "poll"
    /\ Throws(t)
    /\ UNCHANGED <<baseVars, nodeVars, given, nonceOf>>

WaitTransactionFinished(t) ==
    /\ pc[t] = "idle" /\ hash[t] # None
    /\ pc' = [pc EXCEPT ![t] = "wait"]
    /\ result' = [result EXCEPT ![t] = "none"]
    /\ elapsed' = [elapsed EXCEPT ![t] = 0]
    /\ UNCHANGED <<op, hash, baseVars, nodeVars, given, nonceOf>>

(* Mutant of WaitPoll: any receipt ends the wait. *)
WaitPollAny(t) ==
    /\ pc[t] = "wait"
    /\ Outcome(hash[t], "success") \/ Outcome(hash[t], "error")
    /\ Ends(t, "finished")
    /\ UNCHANGED <<op, hash, baseVars, nodeVars, given, nonceOf>>

(* A receipt is there. *)
WaitPoll(t) ==
    /\ pc[t] = "wait"
    /\ \/ Outcome(hash[t], "success") /\ Ends(t, "finished")
       \/ /\ Outcome(hash[t], "error")
          /\ pc' = [pc EXCEPT ![t] = "sleep"] /\ UNCHANGED <<result, elapsed>>
    /\ UNCHANGED <<op, hash, baseVars, nodeVars, given, nonceOf>>

Expired(t) == elapsed[t] > MaxWait

(* Time passes for a waiting caller; it need not be counted past MaxWait. *)
Tick(t) ==
    /\ pc[t] = "wait" /\ ~Expired(t)
    /\ elapsed' = [elapsed EXCEPT ![t] = @ + 1]
    /\ UNCHANGED <<pc, op, result, hash, baseVars, nodeVars, given, nonceOf>>

(* sleep_for(1000 ms) and the test that follows it. *)
WaitSleep(t) ==
    /\ pc[t] = "sleep"
    /\ IF elapsed[t] + 1 > MaxWait THEN Ends(t, "none")
       ELSE /\ pc' = [pc EXCEPT ![t] = "wait"]
            /\ elapsed' = [elapsed EXCEPT ![t] = @ + 1]
            /\ UNCHANGED result
    /\ UNCHANGED <<op, hash, baseVars, nodeVars, given, nonceOf>>

(* Mutant of WaitCatch: the handler only ever retries. *)
WaitCatchRetries(t) ==
    /\ pc[t] = "wait" /\ Expired(t)
    /\ UNCHANGED clientVars

(* The request threw, for lack of a receipt or because it failed: without  *)
(* a pause it is tried again, until the time is over.                      *)
WaitCatch(t) ==
    /\ pc[t] = "wait" /\ Expired(t)
    /\ Ends(t, "none")
    /\ UNCHANGED <<op, hash, baseVars, nodeVars, given, nonceOf>>

-----------------------------------------------------------------------------
(* The caller changes its object between two calls. *)
Change(t, f, v) ==
    /\ pc[t] = "idle" /\ With(t, f, v)
    /\ given' = [given EXCEPT ![t][f] = v]
    /\ nonceOf' = IF f = "nonce" THEN [nonceOf EXCEPT ![t] = None] ELSE nonceOf
    /\ UNCHANGED <<callVars, nodeVars>>

GiveKey(t, k) ==
    /\ pc[t] = "idle" /\ WithSecret(t, k)
    /\ UNCHANGED <<callVars, nodeVars, given, nonceOf>>

ClientInit ==
    /\ BaseInit
    /\ pc = [t \in Txs |-> "idle"] /\ op = [t \in Txs |-> "send"]
    /\ result = [t \in Txs |-> "none"] /\ hash = [t \in Txs |-> None]
    /\ elapsed = [t \in Txs |-> 0]
    /\ net = {} /\ pool = {} /\ chain = {} /\ epoch = 0
    /\ nodeNonce = [k \in Keys \cup {None} |-> IF k = None THEN 0 ELSE 1]
    /\ given = [t \in Txs |-> [f \in Fields |-> Invalid]]
    /\ nonceOf = [t \in Txs |-> None]

CallStep(t) ==
    \/ \E f \in Fetched : Fetch(t, f)
    \/ Skip(t) \/ SizeTransfer(t) \/ SizeByEstimate(t) \/ ApplyFails(t)
    \/ Post(t) \/ PostThrows(t) \/ SendFails(t)
    \/ Poll(t) \/ PollThrows(t)

WaitStep(t) == WaitPoll(t) \/ WaitSleep(t) \/ WaitCatch(t)

Node ==
    \/ \E m \in net : Answered(m) \/ Unanswered(m)
    \/ \E m \in pool : Drop(m) \/ \E outcome \in {"success", "error"} : Execute(m, outcome)
    \/ NextEpoch

Caller(t) ==
    \/ sendTransaction(t) \/ DeployContract(t) \/ WaitTransactionFinished(t)
    \/ \E s \in Setters : t = s[1] /\ Change(t, s[2], s[3])
    \/ \E g \in Rekeys : t = g[1] /\ GiveKey(t, g[2])

ClientNext ==
    \/ Node
    \/ \E t \in Txs : CallStep(t) \/ WaitStep(t) \/ Tick(t) \/ Caller(t)

(* A waiting thread is scheduled, its requests end within the timeout of   *)
(* the connector, and time passes.                                         *)
ClientFairness == \A t \in Txs : WF_clientVars(WaitStep(t)) /\ WF_clientVars(Tick(t))

ClientSpec == ClientInit /\ [][ClientNext]_clientVars /\ ClientFairness

-----------------------------------------------------------------------------
(* Properties *)

Messages == net \cup pool \cup {c.m : c \in chain}

(* A transaction object that keeps its key is executed at most once,       *)
(* however often its call is repeated after timeouts, lost answers and     *)
(* transactions that arrive late, and even if the caller raises the gas    *)
(* price in between: what was fetched for the first attempt, the nonce     *)
(* above all, is kept.                                                     *)
AtMostOnce == \A c, d \in chain : c.m.tx = d.m.tx => c = d

(* No transaction goes out with a quantity that was never set, whichever   *)
(* of the requests that fetch them failed.                                 *)
NothingMissing == \A m \in Messages : \A f \in Fields : m.msg.content.fields[f] # Invalid

(* "ApplyUnsignedTransactionDefault set empty fields to value fetched from *)
(* conflux node" (client.h): what the caller set is what the object holds  *)
(* until the caller sets it again.                                         *)
CallerFieldsKept ==
    \A t \in Txs, f \in Fields : given[t][f] # Invalid => fields[t][f] = given[t][f]

(* The part of that promise that is kept: what is fetched, or estimated    *)
(* for a transaction with data, never replaces a quantity that the caller  *)
(* set, over all attempts of all calls.                                    *)
FetchedBesideGiven ==
    [][\A t \in Txs, f \in Fields :
          given[t][f] # Invalid /\ (f \in Sized => fields[t]["data"] # 0) =>
              fields'[t][f] \in {fields[t][f], given'[t][f]}]_clientVars

(* WaitTransactionFinished answers true, and DeployContract Success, only  *)
(* for a transaction that was executed without error.                      *)
SuccessIsReal ==
    \A t \in Txs : result[t] \in {"finished", "created"} => Outcome(hash[t], "success")

(* m_nonce is "The transaction-count of the sender" (TransactionBase.h):   *)
(* a nonce the client filled in belongs to the account that signs.         *)
NonceOfSender ==
    \A t \in Txs : pc[t] = "posted" /\ given[t]["nonce"] = Invalid => nonceOf[t] = raw[t].vrs.by

(* WaitTransactionFinished returns, whatever the node does.                *)
WaitReturns == \A t \in Txs : pc[t] = "wait" ~> pc[t] = "idle"
=============================================================================
