---------------------------- MODULE MCNewKeyPair ---------------------------
(* Two helpers and the caller, three keys, two of them with the vanity. *)
EXTENDS NewKeyPair

CONSTANTS c, h1, h2
=============================================================================
