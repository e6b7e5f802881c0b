---------------------------- MODULE MCKeyManager ----------------------------
(* Small instances of KeyManager for TLC. *)
EXTENDS KeyManager, TLC

CONSTANTS u1, u2, p1, p2, old1, s1, s2, s3, d1

MCSecrets == 1 .. 1
MCAddressOf == [s \in MCSecrets |-> 32 + s]

(* A version 1 file of key 1, which has no address once it is upgraded. *)
MCRawFiles == {[version |-> 1, id |-> u1, sec |-> 1, pass |-> p1, addr |-> MCAddressOf[1]]}

MCSymmetry == Permutations({s1, s2, s3})
=============================================================================
