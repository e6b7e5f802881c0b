------------------------ MODULE MCTransactionClient ------------------------
(* Small instances of TransactionClient for TLC. *)
EXTENDS TransactionClient

CONSTANTS t1, k1, k2, a1

(* The key of an object is given to it later. *)
MCNoKeys == [t \in Txs |-> None]
MCRightKey == Txs \X {k1}

(* The price answered may be below MIN_GAS_PRICE; the storage may be zero. *)
MCGasPrices == {0}
MCEstimates == {<<9, 0>>}

(* What callers set between two calls. *)
MCSize == {<<t1, "gas", 5>>, <<t1, "data", 1>>}
MCPriceAndSize == {<<t1, "gasPrice", 2>>} \cup MCSize
=============================================================================
