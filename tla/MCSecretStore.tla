--------------------------- MODULE MCSecretStore ---------------------------
(* Small instances of SecretStore for TLC. *)
EXTENDS SecretStore, TLC

CONSTANTS u1, u2, p1, p2, old1

(* Two private keys; their addresses differ in the low nibble.             *)
MCSecrets == 1 .. 2
MCAddressOf == [s \in MCSecrets |-> 32 + s]

(* Three files of one key: version 3, version 1 under another passphrase   *)
(* (no address after the upgrade), and one of an unknown version.          *)
MCRawFiles ==
    {[version |-> 3, id |-> u1, sec |-> 1, pass |-> p1, addr |-> MCAddressOf[1]],
     [version |-> 1, id |-> u1, sec |-> 1, pass |-> p2, addr |-> MCAddressOf[1]],
     [version |-> 4, id |-> u1, sec |-> 1, pass |-> p2, addr |-> MCAddressOf[1]]}
=============================================================================
