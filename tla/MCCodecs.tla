------------------------------ MODULE MCCodecs -----------------------------
(* The three codecs and the key search, for TLC, each from its own initial *)
(* state: subject says which one a behaviour exercises.                    *)
EXTENDS AddressCodec, RLPCodec, AbiCodec, NewKeyPair

CONSTANTS c1, h1, h2

VARIABLE subject

codecVars == <<addressVars, rlpVars, abiVars, searchVars, subject>>

(* newKeyPair has returned: nothing of it moves while a codec is exercised. *)
SearchOver ==
    /\ p = [m \in Members |-> CHOOSE k \in Wanted : TRUE] /\ keepGoing = FALSE /\ returned = TRUE
    /\ at = [w \in Workers |-> "end"] /\ stores = [w \in Workers |-> {}]
    /\ lp = [w \in Workers |-> CHOOSE k \in Wanted : TRUE]

CodecsInit ==
    /\ subject \in {"address", "rlp", "abi", "search"}
    /\ AddressInit /\ RLPInit /\ AbiInit
    /\ IF subject = "search" THEN SearchInit ELSE SearchOver

AddressStep == subject = "address" /\ AddressNext /\ UNCHANGED <<rlpVars, abiVars, searchVars, subject>>
RLPStep == subject = "rlp" /\ RLPNext /\ UNCHANGED <<addressVars, abiVars, searchVars, subject>>
AbiStep == subject = "abi" /\ AbiNext /\ UNCHANGED <<addressVars, rlpVars, searchVars, subject>>
SearchStep == subject = "search" /\ SearchNext /\ UNCHANGED <<addressVars, rlpVars, abiVars, subject>>

CodecsNext == AddressStep \/ RLPStep \/ AbiStep \/ SearchStep

CodecsSpec == CodecsInit /\ [][CodecsNext]_codecVars /\ SearchFairness

-----------------------------------------------------------------------------
(* Two accounts of the tests and of docs/address.md, the null address, and *)
(* bytes that are no Conflux account, on main net, test net and net1921;   *)
(* MCTwin1 is a user account with the checksums of MCUser1.                *)
MCUser1 == <<26, 61, 23, 170, 182, 122, 72, 171, 177, 211, 158, 5, 155, 83, 145, 182, 74, 145, 213, 48>>
MCUser2 == <<19, 134, 180, 24, 90, 34, 62, 244, 149, 146, 35, 59, 105, 41, 27, 190, 90, 128, 197, 39>>
MCTwin1 == <<26, 61, 23, 170, 182, 122, 72, 171, 177, 211, 158, 5, 155, 83, 144, 138, 133, 6, 57, 193>>
MCHexAddresses == {MCUser1, MCUser2, Zeros(20), [MCUser1 EXCEPT ![1] = 42]}
MCNetworkIDs == {1029, 1, 1921}

(* cfx:...3rd40n8w and cfxtest:...xgumub42, cfx:...0sfbnjm2 and            *)
(* net1921:...5k87kwdf.                                                    *)
MCKnownTexts ==
    {[hex |-> MCUser1, id |-> 1029, checksum |-> <<25, 13, 3, 26, 22, 11, 30, 18>>],
     [hex |-> MCUser1, id |-> 1, checksum |-> <<19, 6, 16, 10, 16, 1, 26, 24>>],
     [hex |-> Zeros(20), id |-> 1029, checksum |-> <<22, 14, 5, 1, 11, 8, 10, 24>>],
     [hex |-> MCUser2, id |-> 1921, checksum |-> <<27, 9, 30, 29, 9, 18, 3, 5>>]}

(* Byte strings on both sides of every threshold: data of 55 and 56 bytes, *)
(* and lists of 55 and 56 bytes around data of 54 and 55.                  *)
MCSevens(n) == [i \in 1 .. n |-> 7]
MCDataItems == {<<>>, <<128>>, MCSevens(54), MCSevens(55), MCSevens(56)}
MCHashes == {<<0, 5>>, <<0, 0>>}

(* Parameters: words, byte strings of 0, 1 and 2 words, arrays of words,   *)
(* of byte strings and of arrays, fixed arrays of words and of strings.    *)
MCWords == {Word(1), Word(2)}
MCBytes == {Bytes(0, <<>>), Bytes(5, <<7>>), Bytes(33, <<7, 8>>)}
MCArrays == {Arr(<<>>), Arr(<<Word(1)>>), Arr(<<Word(2), Word(3)>>)}
MCByteArrays == {Arr(<<Bytes(5, <<7>>)>>), Arr(<<Bytes(0, <<>>), Bytes(33, <<7, 8>>)>>)}
MCNested == {Arr(<<Arr(<<Word(1)>>)>>), Arr(<<Arr(<<Word(1), Word(2)>>), Arr(<<Word(3)>>)>>)}
MCFixed == {Fix(<<Word(1), Word(2)>>)}
MCFixedBytes == {Fix(<<Bytes(33, <<7, 8>>), Bytes(5, <<9>>)>>)}

MCInputs ==
    {<<a, b, c>> : a \in MCWords \cup MCBytes \cup MCArrays \cup MCByteArrays \cup MCNested \cup MCFixed,
                   b \in MCFixed \cup MCFixedBytes \cup MCArrays, c \in MCBytes}
MCOutputs ==
    {<<a, b>> : a \in MCWords \cup MCBytes \cup MCArrays \cup MCByteArrays \cup MCNested \cup MCFixed \cup MCFixedBytes,
                b \in {Word(9)} \cup MCArrays}

(* uint256[2][2], string. *)
MCFixedInFixed == {<<Fix(<<f, f>>), b>> : f \in MCFixed, b \in MCBytes}
-----------------------------------------------------------------------------
(* operator== of address.cpp compares checksums and never bodies: two      *)
(* accounts of one checksum are equal to it.                               *)
ASSUME TwinsEqual ==
    \A id \in MCNetworkIDs :
        LET one == NewFromBytes(MCUser1, id)
            other == NewFromBytes(MCTwin1, id)
        IN  IsValid(one) /\ IsValid(other) /\ one.hex # other.hex /\ Equal(one, other)

(* What a new Function object makes of the answer q of a contract. *)
FirstAnswer(q) == decodeSet(<<Template(q)>>, SpecifiedTuple(<<q>>), 0)

(* decodeOutput reads the first answer of a contract if it holds neither a *)
(* fixed array of dynamic elements nor an array without elements.          *)
ASSUME FirstAnswerRead ==
    \A q \in MCWords \cup MCBytes \cup (MCArrays \ {Arr(<<>>)}) \cup MCByteArrays \cup MCNested \cup MCFixed :
        FirstAnswer(q).ok /\ FirstAnswer(q).ps = <<q>>

(* Array.cpp reads a count in front of string[2], which the ABI does not   *)
(* put there, and refuses the number of elements of an empty uint256[] for *)
(* being less than the one element that a parameter must be made with.     *)
ASSUME FirstAnswerRefused ==
    /\ \A q \in MCFixedBytes : ~ FirstAnswer(q).ok
    /\ Fitted(<<Word(1)>>, 0) = <<>>
=============================================================================
