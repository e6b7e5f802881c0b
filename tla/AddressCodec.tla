---------------------------- MODULE AddressCodec ----------------------------
(***************************************************************************)
(* cfx_cpp::Address (src/libcfxcore/types/cfxaddress/): an account address *)
(* as 20 bytes, as text "cfx:aar..." with a checksum, and as object, and   *)
(* the way a text takes from one program through a typist to another.      *)
(*                                                                         *)
(* Data abstraction.  A character of the text is its index in the base32   *)
(* alphabet, or Foreign for one of the other characters \w matches.  Case, *)
(* punctuation and the "type." label are left out.  The network name is    *)
(* its kind and its decimal digits; network ids stay below 2^31.           *)
(***************************************************************************)
EXTENDS Naturals, Sequences, FiniteSets

CONSTANTS
    HexAddresses,   \* addresses of 20 bytes
    NetworkIDs,     \* networks they are used on
    TypoSymbols,    \* what a mistyped character may become
    MaxTypos,       \* bound: mistyped characters in one text
    KnownTexts      \* addresses whose checksum the tests and docs give

Byte == 0 .. 255
Symbol == 0 .. 31
Foreign == 32

ASSUME AddressAssumption ==
    /\ HexAddresses \subseteq [1 .. 20 -> Byte]
    /\ NetworkIDs \subseteq Nat \ {0}
    /\ TypoSymbols \subseteq Symbol \cup {Foreign}
    /\ MaxTypos \in Nat
    /\ \A k \in KnownTexts : k.hex \in HexAddresses /\ k.id \in NetworkIDs

-----------------------------------------------------------------------------
(* Regrouping of bits *)

Pow2[n \in 0 .. 16] == IF n = 0 THEN 1 ELSE 2 * Pow2[n - 1]

(* One round of the loop of convert(): d is appended to the accumulator    *)
(* and every complete group is moved to the result.                        *)
ConvertStep(st, d, inbits, outbits) ==
    LET acc == st.acc * Pow2[inbits] + d
        bits == st.bits + inbits
        groups == [i \in 1 .. bits \div outbits |-> (acc \div Pow2[bits - i * outbits]) % Pow2[outbits]]
    IN [acc |-> acc % Pow2[bits % outbits], bits |-> bits % outbits, ret |-> st.ret \o groups]

(* What is left over is padded with zeros, but dropped, whatever it is, on *)
(* the way back from the smaller groups.                                   *)
convert(data, inbits, outbits) ==
    LET run[i \in 0 .. Len(data)] ==
            IF i = 0 THEN [acc |-> 0, bits |-> 0, ret |-> <<>>]
            ELSE ConvertStep(run[i - 1], data[i], inbits, outbits)
        end == run[Len(data)]
    IN IF end.bits > 0 /\ inbits > outbits
       THEN Append(end.ret, end.acc * Pow2[outbits - end.bits]) ELSE end.ret

-----------------------------------------------------------------------------
(* Checksum.  The 40-bit number of polymod() is a tuple of 8 symbols.      *)

BitXor(a, b, k) == IF (a \div Pow2[k]) % 2 = (b \div Pow2[k]) % 2 THEN 0 ELSE Pow2[k]

Xor == [a \in Symbol |-> [b \in Symbol |->
    BitXor(a, b, 0) + BitXor(a, b, 1) + BitXor(a, b, 2) + BitXor(a, b, 3) + BitXor(a, b, 4)]]

XorTuple(s, t) == [i \in 1 .. 8 |-> Xor[s[i]][t[i]]]

(* 0x98f2bc8e61, 0x79b76d99e2, 0xf33e5fb3c4, 0xae2eabe2a8, 0x1e4f43e470. *)
Generators ==
    <<<<19, 3, 25, 11, 25, 3, 19, 1>>, <<15, 6, 27, 22, 27, 6, 15, 2>>,
      <<30, 12, 31, 5, 31, 12, 30, 4>>, <<21, 24, 23, 10, 23, 24, 21, 8>>,
      <<3, 25, 7, 20, 7, 25, 3, 16>>>>

(* What the five conditional lines of the loop add for the top symbol c0. *)
Feedback == [c0 \in Symbol |->
    LET add[k \in 0 .. 5] ==
            IF k = 0 THEN <<0, 0, 0, 0, 0, 0, 0, 0>>
            ELSE IF (c0 \div Pow2[k - 1]) % 2 = 1 THEN XorTuple(add[k - 1], Generators[k])
            ELSE add[k - 1]
    IN add[5]]

PolymodStep(c, d) ==
    LET f == Feedback[c[1]] IN
    <<Xor[c[2]][f[1]], Xor[c[3]][f[2]], Xor[c[4]][f[3]], Xor[c[5]][f[4]],
      Xor[c[6]][f[5]], Xor[c[7]][f[6]], Xor[c[8]][f[7]], Xor[d][f[8]]>>

(* Mutant of polymod: the result is not inverted. *)
polymodRaw(v) ==
    LET c[i \in 0 .. Len(v)] ==
            IF i = 0 THEN <<0, 0, 0, 0, 0, 0, 0, 1>> ELSE PolymodStep(c[i - 1], v[i])
    IN c[Len(v)]

polymod(v) ==
    LET c[i \in 0 .. Len(v)] ==
            IF i = 0 THEN <<0, 0, 0, 0, 0, 0, 0, 1>> ELSE PolymodStep(c[i - 1], v[i])
        end == c[Len(v)]
    IN [end EXCEPT ![8] = Xor[end[8]][1]]

-----------------------------------------------------------------------------
(* Networks and address types *)

Mainnet == [kind |-> "cfx", digits |-> <<>>]
Testnet == [kind |-> "cfxtest", digits |-> <<>>]

Decimal[n \in Nat] == IF n < 10 THEN <<n>> ELSE Append(Decimal[n \div 10], n % 10)

NetworkType(id) ==
    CASE id = 1029 -> Mainnet [] id = 1 -> Testnet
      [] OTHER -> [kind |-> "net", digits |-> Decimal[id]]

ToNetworkID(nt) ==
    CASE nt = Mainnet -> 1029 [] nt = Testnet -> 1
      [] OTHER -> LET n[i \in 0 .. Len(nt.digits)] == IF i = 0 THEN 0 ELSE 10 * n[i - 1] + nt.digits[i]
                  IN n[Len(nt.digits)]

(* The characters of the name, & 0x1F: a letter is its place in the        *)
(* alphabet, a digit 16 and more.                                          *)
Low5Bits(nt) ==
    CASE nt.kind = "cfx" -> <<3, 6, 24>>
      [] nt.kind = "cfxtest" -> <<3, 6, 24, 20, 5, 19, 20>>
      [] nt.kind = "net" -> <<14, 5, 20>> \o [i \in DOMAIN nt.digits |-> nt.digits[i] + 16]

Zeros(n) == [i \in 1 .. n |-> 0]

CalcChecksum(nt, body) == polymod(Low5Bits(nt) \o <<0>> \o body \o Zeros(8))

CalcAddressType(hex) ==
    CASE hex = Zeros(20) -> "null"
      [] hex # Zeros(20) /\ hex[1] \div 16 = 0 -> "builtin"
      [] hex[1] \div 16 = 1 -> "user"
      [] hex[1] \div 16 = 8 -> "contract"
      [] OTHER -> "invalid"

-----------------------------------------------------------------------------
(* Objects and texts *)

(* CalcVersionByte: 160 bits are size 0, and the type bits are 0. *)
VersionByte == 0

setCache(nt, type, body, checksum) ==
    [net |-> nt, type |-> type, body |-> body, checksum |-> checksum,
     hex |-> Tail(convert(body, 5, 8)), networkID |-> ToNetworkID(nt)]

NewFromBytes(hex, id) ==
    LET body == convert(<<VersionByte>> \o hex, 8, 5)
        nt == NetworkType(id)
    IN setCache(nt, CalcAddressType(hex), body, CalcChecksum(nt, body))

IsValid(a) == a.type \in {"null", "builtin", "user", "contract"}

(* The default constructor arguments: the null address of the test net. *)
NullAddress == NewFromBytes(Zeros(20), 1)

(* What the member networkID holds that no line has set yet. *)
Unset == 0

(* The object of a text that is refused: setCache() is not reached, so it  *)
(* has no bytes at all, and what networkID holds is left to chance.        *)
Refused(nt, body, checksum) ==
    [net |-> nt, type |-> "invalid", body |-> body, checksum |-> checksum,
     hex |-> <<>>, networkID |-> Unset]

(* GetBase32Address and GetVerboseBase32Address; the label is "" in the    *)
(* short form.                                                             *)
Base32(a, verbose) ==
    [net |-> a.net, label |-> IF verbose THEN a.type ELSE "", chars |-> a.body \o a.checksum]

(* Body(base32Str): operator[] of the map makes index 0 of a character     *)
(* that is not in the alphabet.                                            *)
Indices(chars) == [i \in DOMAIN chars |-> IF chars[i] = Foreign THEN 0 ELSE chars[i]]

(* The pattern of New(): 42 characters, no label or one of a valid type. *)
Matches(text32) == Len(text32.chars) = 42 /\ text32.label # "invalid"

(* Mutant of Labelled: only the verbose form is understood. *)
LabelledAlways(text32, type) == text32.label = type

Labelled(text32, type) == text32.label \in {"", type}

(* Mutant of Summed: the checksum is not compared. *)
SummedAnyhow(text32, checksum) == Len(text32.chars) > 7

(* The last 8 characters are the checksum of the others. *)
Summed(text32, checksum) ==
    SubSeq(text32.chars, Len(text32.chars) - 7, Len(text32.chars)) = checksum

(* Mutant of NewFromBase32: New() does not look at the return code. *)
NewFromBase32Unheeded(text32) ==
    LET body == Indices(SubSeq(text32.chars, 1, Len(text32.chars) - 8))
        type == CalcAddressType(Tail(convert(body, 5, 8)))
        checksum == CalcChecksum(text32.net, body)
    IN IF ~Matches(text32) THEN Refused(Testnet, <<>>, <<>>)
       ELSE IF ~Labelled(text32, type) THEN [Refused(text32.net, body, <<>>) EXCEPT !.type = type]
       ELSE IF ~Summed(text32, checksum) THEN [Refused(text32.net, body, checksum) EXCEPT !.type = type]
       ELSE setCache(text32.net, type, body, checksum)

(* New() of a text, for the constructor's default network, which a text    *)
(* that does not match the pattern is given.  A text of another network    *)
(* than the one asked for keeps its own: NewFromHex refuses it without a   *)
(* trace.                                                                  *)
NewFromBase32(text32) ==
    LET body == Indices(SubSeq(text32.chars, 1, Len(text32.chars) - 8))
        type == CalcAddressType(Tail(convert(body, 5, 8)))
        checksum == CalcChecksum(text32.net, body)
    IN IF ~Matches(text32) THEN Refused(Testnet, <<>>, <<>>)
       ELSE IF ~Labelled(text32, type) THEN Refused(text32.net, body, <<>>)
       ELSE IF ~Summed(text32, checksum) THEN Refused(text32.net, body, checksum)
       ELSE setCache(text32.net, type, body, checksum)

(* operator==: the body of the right side is compared with itself. *)
Equal(a, b) == a.net = b.net /\ a.type = b.type /\ a.checksum = b.checksum

-----------------------------------------------------------------------------
(* A text that travels *)

VARIABLES
    addr,     \* the object at hand
    text,     \* the text at hand
    stage,    \* what addr and text are to each other: "object", "text" or "parsed"
    origin,   \* history: the object the text was made from
    typos     \* history: places of the text that were mistyped, 0 is its network

addressVars == <<addr, text, stage, origin, typos>>

(* The journey of a text ends where a mistyped one is parsed. *)
AtHome == stage # "text" /\ typos = {}

NewFromHex(hex, id) ==
    /\ AtHome
    /\ addr' = NewFromBytes(hex, id)
    /\ stage' = "object"
    /\ UNCHANGED <<text, origin, typos>>

(* An invalid address on purpose, which has the bytes of the null address. *)
InvaildAddress ==
    /\ AtHome
    /\ addr' = [NullAddress EXCEPT !.type = "invalid"]
    /\ stage' = "object"
    /\ UNCHANGED <<text, origin, typos>>

ShowBase32(verbose) ==
    /\ AtHome
    /\ text' = Base32(addr, verbose)
    /\ stage' = "text" /\ origin' = addr /\ typos' = {}
    /\ UNCHANGED addr

(* External: a typist mistakes one more character, from left to right, or  *)
(* takes the address for one of another network.                           *)
Mistype(i, c) ==
    /\ stage = "text" /\ Cardinality(typos) < MaxTypos
    /\ \A j \in typos : j < i
    /\ i \in DOMAIN text.chars /\ text.chars[i] # c
    /\ text' = [text EXCEPT !.chars[i] = c]
    /\ typos' = typos \cup {i}
    /\ UNCHANGED <<addr, stage, origin>>

MistakeNetwork(id) ==
    /\ stage = "text" /\ typos = {} /\ MaxTypos > 0
    /\ text.net # NetworkType(id)
    /\ text' = [text EXCEPT !.net = NetworkType(id)]
    /\ typos' = {0}
    /\ UNCHANGED <<addr, stage, origin>>

Parse ==
    /\ stage = "text"
    /\ addr' = NewFromBase32(text)
    /\ stage' = "parsed"
    /\ UNCHANGED <<text, origin, typos>>

AddressInit ==
    /\ addr = NullAddress /\ origin = NullAddress
    /\ text = Base32(NullAddress, FALSE)
    /\ stage = "object" /\ typos = {}

AddressNext ==
    \/ \E hex \in HexAddresses, id \in NetworkIDs : NewFromHex(hex, id)
    \/ InvaildAddress
    \/ \E verbose \in BOOLEAN : ShowBase32(verbose)
    \/ \E i \in 1 .. 42, c \in TypoSymbols : Mistype(i, c)
    \/ \E id \in NetworkIDs : MistakeNetwork(id)
    \/ Parse

AddressSpec == AddressInit /\ [][AddressNext]_addressVars

-----------------------------------------------------------------------------
(* Properties *)

Texts == [net : {NetworkType(id) : id \in NetworkIDs \cup {1}},
          label : {"", "null", "builtin", "user", "contract", "invalid"},
          chars : Seq(Symbol \cup {Foreign})]

(* Every group of 5 bits is one, and an object for which IsValid() answers *)
(* true has the 20 bytes toEthCommonAddr() reads without looking.  That of *)
(* a refused text has none.                                                *)
AddressTypeOK ==
    /\ text \in Texts /\ typos \subseteq 0 .. 42
    /\ addr.body \in Seq(Symbol) /\ addr.checksum \in Seq(Symbol) /\ addr.hex \in Seq(Byte)
    /\ IsValid(addr) => Len(addr.body) = 34 /\ Len(addr.checksum) = 8 /\ Len(addr.hex) = 20

(* "The two address formats (hex40 and base32) are convertible to each     *)
(* other" (docs/address.md): a valid address that is shown, in either      *)
(* form, and parsed again is the same object, all its caches included.     *)
RoundTrip ==
    stage = "parsed" /\ typos = {} /\ IsValid(origin) => addr = origin

(* "helps us avoid and detect typos" (docs/address.md): a text with up to  *)
(* MaxTypos mistakes is rejected or still names the account and network it *)
(* was made from; a mistake never leads to another account.                *)
TyposHarmless ==
    stage = "parsed" /\ IsValid(addr) => addr.hex = origin.hex /\ addr.networkID = origin.networkID

(* The checksums the tests and docs/address.md give for known addresses.   *)
KnownChecksums ==
    \A k \in KnownTexts :
        addr.hex = k.hex /\ addr.networkID = k.id => addr.checksum = k.checksum
=============================================================================
