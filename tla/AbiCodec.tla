------------------------------ MODULE AbiCodec -----------------------------
(***************************************************************************)
(* TW::Ethereum::ABI (src/libcfxcore/abi/) and Contract::Call, which use   *)
(* it: a Function encodes its input parameters into the data of a call and *)
(* decodes the answer of the contract into its output parameters, the same *)
(* objects at every call.                                                  *)
(*                                                                         *)
(* Data abstraction.  Data is a sequence of words of 32 bytes; sizes and   *)
(* positions count words, offsets and lengths in the data count bytes.     *)
(* Numbers, addresses, bool and bytesN are one word each.  A byte string   *)
(* or string is its length and the words that hold it.  The 4 bytes of the *)
(* selector are left out.                                                  *)
(***************************************************************************)
EXTENDS Naturals, Sequences, SequencesExt

CONSTANTS
    Inputs,       \* parameter lists the program passes to a function
    Outputs,      \* what a contract may answer, one parameter list per call
    MaxCalls      \* bound: calls with one Function object

(* Parameters. *)
Word(v) == [t |-> "word", val |-> v]
Bytes(len, words) == [t |-> "bytes", len |-> len, words |-> words]
Arr(kids) == [t |-> "array", kids |-> kids]
Fix(kids) == [t |-> "fix", kids |-> kids]

paddedTo32(len) == (len + 31) \div 32

RECURSIVE isDynamic(_)
isDynamic(p) == p.t \in {"bytes", "array"} \/ (p.t = "fix" /\ isDynamic(p.kids[1]))

SumOver(Op(_), ps) == FoldLeft(LAMBDA n, p : n + Op(p), 0, ps)

-----------------------------------------------------------------------------
(* Sizes *)

RECURSIVE getSize(_)

(* ParamSet::getSize: whatever is dynamic or longer than a word has an     *)
(* offset too.                                                             *)
SetSize(ps) ==
    SumOver(LAMBDA p : getSize(p) + (IF isDynamic(p) \/ getSize(p) > 1 THEN 1 ELSE 0), ps)

(* Mutant of sizeOf: an array has no room for its count. *)
sizeOfUncounted(p) ==
    CASE p.t = "word" -> 1
      [] p.t = "bytes" -> 1 + paddedTo32(p.len)
      [] p.t \in {"array", "fix"} -> SetSize(p.kids)

sizeOf(p) ==
    CASE p.t = "word" -> 1
      [] p.t = "bytes" -> 1 + paddedTo32(p.len)
      [] p.t = "array" -> 1 + SetSize(p.kids)
      [] p.t = "fix" -> SetSize(p.kids)

getSize(p) == sizeOf(p)

getHeadSize(ps) == SumOver(LAMBDA p : IF isDynamic(p) THEN 1 ELSE getSize(p), ps)

-----------------------------------------------------------------------------
(* Encoder *)

RECURSIVE encode(_)

(* ParamSet::encode: the heads, an offset for what is dynamic, then what   *)
(* is dynamic.  A static parameter longer than a word is a fixed array,    *)
(* which stands in its place.                                              *)
encodeSet(ps) ==
    LET headSize == getHeadSize(ps)
        head(st, p) ==
            IF isDynamic(p)
            THEN [data |-> Append(st.data, 32 * (headSize + st.tail)), tail |-> st.tail + getSize(p)]
            ELSE [st EXCEPT !.data = @ \o encode(p)]
        heads == FoldLeft(head, [data |-> <<>>, tail |-> 0], ps)
    IN FoldLeft(LAMBDA data, p : IF isDynamic(p) THEN data \o encode(p) ELSE data, heads.data, ps)

encode(p) ==
    CASE p.t = "word" -> <<p.val>>
      [] p.t = "bytes" -> <<p.len>> \o p.words
      [] p.t = "array" -> <<Len(p.kids)>> \o encodeSet(p.kids)
      [] p.t = "fix" -> encodeSet(p.kids)

-----------------------------------------------------------------------------
(* Decoder: [ok, off, p] is what decode returns, where it stopped and the  *)
(* parameter as it left it.                                                *)

HasWord(data, off) == Len(data) > off
Failed(p, off) == [ok |-> FALSE, off |-> off, p |-> p]

(* ParamFactory::make of the type of p: an array comes with one element. *)
RECURSIVE make(_)
make(p) ==
    CASE p.t = "word" -> Word(0)
      [] p.t = "bytes" -> Bytes(0, <<>>)
      [] p.t = "array" -> Arr(<<make(p.kids[1])>>)

RECURSIVE decode(_, _, _), decodeHeads(_, _, _), decodeTails(_, _, _)

(* ParamSet::decode: the offsets are read and not used, the dynamic        *)
(* parameters follow one another; the first failure leaves the rest as it  *)
(* was.                                                                    *)
decodeOne(st, data, i) ==
    LET r == decode(st.ps[i], data, st.off)
    IN [ok |-> r.ok, off |-> r.off, ps |-> [st.ps EXCEPT ![i] = r.p]]

decodeHeads(st, data, i) ==
    IF ~st.ok \/ i > Len(st.ps) THEN st
    ELSE IF ~isDynamic(st.ps[i]) THEN decodeHeads(decodeOne(st, data, i), data, i + 1)
    ELSE IF HasWord(data, st.off) THEN decodeHeads([st EXCEPT !.off = @ + 1], data, i + 1)
    ELSE [st EXCEPT !.ok = FALSE]

decodeTails(st, data, i) ==
    IF ~st.ok \/ i > Len(st.ps) THEN st
    ELSE decodeTails(IF isDynamic(st.ps[i]) THEN decodeOne(st, data, i) ELSE st, data, i + 1)

decodeSet(ps, data, off) ==
    decodeTails(decodeHeads([ok |-> TRUE, off |-> off, ps |-> ps], data, 1), data, 1)

(* The check of the number of values: <<>> when there is no element to     *)
(* copy the type of, or more elements than values.                         *)
Fitted(kids, len) ==
    IF Len(kids) = 0 \/ Len(kids) > len THEN <<>>
    ELSE kids \o [i \in 1 .. len - Len(kids) |-> make(kids[1])]

(* Elements of an array, from off on, with their number in front or not. *)
decodeKids(p, data, off, kids) ==
    LET r == decodeSet(kids, data, off) IN [ok |-> r.ok, off |-> r.off, p |-> [p EXCEPT !.kids = r.ps]]

(* Mutant of decodeCounted: elements beyond the number of values are kept. *)
decodeCountedKeeps(p, data, off) ==
    IF ~HasWord(data, off) THEN Failed(p, off)
    ELSE LET len == data[off + 1]
             used == IF Len(p.kids) > len THEN SubSeq(p.kids, 1, len) ELSE Fitted(p.kids, len)
             r == decodeSet(used, data, off + 1)
         IN [ok |-> r.ok, off |-> r.off,
             p |-> [p EXCEPT !.kids = r.ps \o SubSeq(p.kids, Len(used) + 1, Len(p.kids))]]

decodeCounted(p, data, off) ==
    IF ~HasWord(data, off) THEN Failed(p, off)
    ELSE LET kids == Fitted(p.kids, data[off + 1])
         IN IF kids = <<>> THEN Failed(p, off + 1) ELSE decodeKids(p, data, off + 1, kids)

decodeBytes(p, data, off) ==
    IF ~HasWord(data, off) THEN Failed(p, off)
    ELSE LET len == data[off + 1]
         IN IF 32 * Len(data) < 32 * (off + 1) + len THEN Failed(p, off + 1)
            ELSE [ok |-> TRUE, off |-> off + 1 + paddedTo32(len),
                  p |-> Bytes(len, SubSeq(data, off + 2, off + 1 + paddedTo32(len)))]

decodeWord(p, data, off) ==
    IF HasWord(data, off) THEN [ok |-> TRUE, off |-> off + 1, p |-> Word(data[off + 1])]
    ELSE Failed(p, off)

(* A fixed array of dynamic elements is read as if its number of elements  *)
(* were there.                                                             *)
decode(p, data, off) ==
    CASE p.t = "word" -> decodeWord(p, data, off)
      [] p.t = "bytes" -> decodeBytes(p, data, off)
      [] p.t = "array" \/ (p.t = "fix" /\ isDynamic(p)) -> decodeCounted(p, data, off)
      [] OTHER -> decodeKids(p, data, off, p.kids)

-----------------------------------------------------------------------------
(* The contract's side (external): the ABI of Solidity *)

RECURSIVE Specified(_)

SpecifiedTuple(ps) ==
    LET Width(p) == IF isDynamic(p) THEN 1 ELSE Len(Specified(p))
        heads == SumOver(Width, ps)
        tailsBefore(i) == SumOver(LAMBDA p : IF isDynamic(p) THEN Len(Specified(p)) ELSE 0, SubSeq(ps, 1, i - 1))
        head(i) == IF isDynamic(ps[i]) THEN <<32 * (heads + tailsBefore(i))>> ELSE Specified(ps[i])
        tail(i) == IF isDynamic(ps[i]) THEN Specified(ps[i]) ELSE <<>>
    IN FlattenSeq([i \in 1 .. Len(ps) |-> head(i)]) \o FlattenSeq([i \in 1 .. Len(ps) |-> tail(i)])

Specified(p) ==
    CASE p.t = "word" -> <<p.val>>
      [] p.t = "bytes" -> <<p.len>> \o p.words
      [] p.t = "array" -> <<Len(p.kids)>> \o SpecifiedTuple(p.kids)
      [] p.t = "fix" -> SpecifiedTuple(p.kids)

-----------------------------------------------------------------------------
VARIABLES
    callData,     \* what Function::encode gave
    sent,         \* history: the parameters it was given
    outParams,    \* the output parameters of the Function object
    decoded,      \* what decodeOutput returned last: "none", "true" or "false"
    answer,       \* history: the parameters the contract answered last
    calls         \* calls with this Function object

abiVars == <<callData, sent, outParams, decoded, answer, calls>>

(* No array in p is empty. *)
RECURSIVE Inhabited(_)
Inhabited(p) == p.t \in {"array", "fix"} => p.kids # <<>> /\ \A i \in 1 .. Len(p.kids) : Inhabited(p.kids[i])

(* The output parameter a program gives a Function object for values like  *)
(* p: an array with one element, a fixed array with all of them.           *)
RECURSIVE Template(_)
Template(p) == IF p.t = "fix" THEN Fix([i \in 1 .. Len(p.kids) |-> Template(p.kids[i])]) ELSE make(p)

NewFunction(like) ==
    /\ \A i \in 1 .. Len(like) : Inhabited(like[i])
    /\ outParams' = [i \in 1 .. Len(like) |-> Template(like[i])]
    /\ callData' = <<>> /\ sent' = <<>> /\ decoded' = "none" /\ answer' = <<>> /\ calls' = 0

(* Function::encode; it does not touch the output parameters. *)
Encode(params) ==
    /\ outParams = <<>>
    /\ callData' = encodeSet(params) /\ sent' = params
    /\ UNCHANGED <<outParams, decoded, answer, calls>>

(* Two parameter lists have the same types. *)
RECURSIVE Alike(_, _)
Alike(p, q) ==
    /\ p.t = q.t
    /\ p.t \in {"array", "fix"} =>
          \A i \in 1 .. Len(p.kids), j \in 1 .. Len(q.kids) : Alike(p.kids[i], q.kids[j])

SameTypes(ps, qs) == Len(ps) = Len(qs) /\ \A i \in 1 .. Len(ps) : Alike(ps[i], qs[i])

(* Contract::Call: the answer is decoded into the output parameters, and   *)
(* what decodeOutput returns is dropped.  An address without a contract    *)
(* answers nothing.                                                        *)
Receives(data) ==
    /\ calls < MaxCalls
    /\ outParams' = decodeSet(outParams, data, 0).ps
    /\ decoded' = IF decodeSet(outParams, data, 0).ok THEN "true" ELSE "false"
    /\ calls' = calls + 1
    /\ UNCHANGED <<callData, sent>>

Call(values) ==
    /\ SameTypes(values, outParams)
    /\ Receives(SpecifiedTuple(values)) /\ answer' = values

CallNothing == outParams # <<>> /\ Receives(<<>>) /\ answer' = <<>>

AbiInit ==
    /\ callData = <<>> /\ sent = <<>> /\ outParams = <<>>
    /\ decoded = "none" /\ answer = <<>> /\ calls = 0

AbiNext ==
    \/ \E like \in Outputs : NewFunction(like)
    \/ \E params \in Inputs : Encode(params)
    \/ \E values \in Outputs : Call(values)
    \/ CallNothing

AbiSpec == AbiInit /\ [][AbiNext]_abiVars

-----------------------------------------------------------------------------
(* Properties *)

(* The data of a call is what the ABI that docs/abi.md refers to specifies *)
(* for the parameters; every offset in it points to the parameter it is    *)
(* for.                                                                    *)
CallDataRight == callData = SpecifiedTuple(sent)

(* Whatever a Function object decoded before, completely or not: when      *)
(* decodeOutput returns true the output parameters are what the contract   *)
(* answered, and no element of an earlier answer is among them.            *)
DecodedRight == decoded = "true" => outParams = answer
=============================================================================
