------------------------- MODULE MCTransactionBase -------------------------
(* Small instances of TransactionBase for TLC. *)
EXTENDS TransactionBase

CONSTANTS t1, k1, k2, a1, a2

MCKeyOf == [t \in Txs |-> None]
MCSetters == {<<t1, "nonce", 1>>, <<t1, "nonce", 2>>}
=============================================================================
