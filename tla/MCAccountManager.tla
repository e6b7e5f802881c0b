-------------------------- MODULE MCAccountManager -------------------------
(* Small instances of AccountManager for TLC. *)
EXTENDS AccountManager

CONSTANTS u1, u2, p1, p2, old1, t1

MCSecrets == 1 .. 2
MCAddressOf == [s \in MCSecrets |-> 32 + s]

(* Keystore files of key 1: version 3 under either passphrase, and one of  *)
(* an unknown version.                                                     *)
MCAddressedFiles ==
    {[version |-> 3, id |-> u1, sec |-> 1, pass |-> p, addr |-> MCAddressOf[1]] : p \in {p1, p2}}
        \cup {[version |-> 4, id |-> u1, sec |-> 1, pass |-> p1, addr |-> MCAddressOf[1]]}

(* The same key in a version 1 file, whose address the upgrade drops.      *)
MCVersion1Files ==
    MCAddressedFiles \cup {[version |-> 1, id |-> u1, sec |-> 1, pass |-> p1, addr |-> MCAddressOf[1]]}
=============================================================================
