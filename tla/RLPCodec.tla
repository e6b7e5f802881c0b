----------------------------- MODULE RLPCodec ------------------------------
(***************************************************************************)
(* dev::RLPStream and dev::RLP (src/libdevcore/RLP.{h,cpp}): a stream that *)
(* writes items into lists which are closed by counting, and a reader that *)
(* remembers where the item it gave out last ends.                         *)
(*                                                                         *)
(* Bytes are numbers; lengths stay far below 2^31, so the limits on the    *)
(* size of a length are left out.  An item of the history is the bytes or  *)
(* the items that were appended.                                           *)
(***************************************************************************)
EXTENDS Naturals, Sequences, SequencesExt

CONSTANTS
    DataItems,    \* byte strings the program appends
    Hashes,       \* FixedHashes it appends
    Ints,         \* numbers it appends
    ListSizes,    \* sizes it announces for a list
    MaxItems      \* bound: items and lists in the streams at hand

(* The thresholds of RLP.h. *)
c_rlpDataImmLenStart == 128
c_rlpListStart == 192
c_rlpDataImmLenCount == c_rlpListStart - c_rlpDataImmLenStart - 8
c_rlpDataIndLenZero == c_rlpDataImmLenStart + c_rlpDataImmLenCount - 1
c_rlpListImmLenCount == 256 - c_rlpListStart - 8
c_rlpListIndLenZero == c_rlpListStart + c_rlpListImmLenCount - 1

ASSUME RLPAssumption ==
    /\ DataItems \subseteq Seq(0 .. 255) /\ Hashes \subseteq Seq(0 .. 255)
    /\ Ints \subseteq Nat /\ ListSizes \subseteq Nat /\ MaxItems \in Nat

(* pushInt: big-endian, as many bytes as bytesRequired says. *)
BigEndian[n \in Nat] == IF n = 0 THEN <<>> ELSE Append(BigEndian[n \div 256], n % 256)

fromBigEndian(b) ==
    LET v[i \in 0 .. Len(b)] == IF i = 0 THEN 0 ELSE 256 * v[i - 1] + b[i] IN v[Len(b)]

-----------------------------------------------------------------------------
(* Writer *)

pushCount(count, base) == <<base + Len(BigEndian[count])>> \o BigEndian[count]

Header(size, immCount, start, indZero) ==
    IF size < immCount THEN <<start + size>> ELSE pushCount(size, indZero)

DataHeader(size) == Header(size, c_rlpDataImmLenCount, c_rlpDataImmLenStart, c_rlpDataIndLenZero)
ListHeader(size) == Header(size, c_rlpListImmLenCount, c_rlpListStart, c_rlpListIndLenZero)

EncodedData(b) ==
    IF Len(b) = 1 /\ b[1] < c_rlpDataImmLenStart THEN b ELSE DataHeader(Len(b)) \o b

EncodedInt(i) ==
    CASE i = 0 -> <<c_rlpDataImmLenStart>>
      [] 0 < i /\ i < c_rlpDataImmLenStart -> <<i>>
      [] OTHER -> DataHeader(Len(BigEndian[i])) \o BigEndian[i]

(* Mutant of NoteRound: a list that is complete stays open. *)
NoteRoundLate(st) ==
    LET top == Last(st.stack)
        size == Len(st.out) - top.start
    IN IF top.left >= st.count
       THEN [out |-> st.out, count |-> 0,
             stack |-> [st.stack EXCEPT ![Len(st.stack)].left = top.left - st.count]]
       ELSE [out |-> SubSeq(st.out, 1, top.start) \o ListHeader(size)
                        \o SubSeq(st.out, top.start + 1, Len(st.out)),
             stack |-> Front(st.stack), count |-> 1]

(* One round of the loop of noteAppended: the innermost list has count     *)
(* items less to come; when none is left its header is inserted before its *)
(* first item, and it is one item of the list around it.                   *)
NoteRound(st) ==
    LET top == Last(st.stack)
        size == Len(st.out) - top.start
    IN IF top.left > st.count
       THEN [out |-> st.out, count |-> 0,
             stack |-> [st.stack EXCEPT ![Len(st.stack)].left = top.left - st.count]]
       ELSE [out |-> SubSeq(st.out, 1, top.start) \o ListHeader(size)
                        \o SubSeq(st.out, top.start + 1, Len(st.out)),
             stack |-> Front(st.stack), count |-> 1]

(* Mutant of noteAppended: closing a list is not reported to the list      *)
(* around it.                                                              *)
noteAppendedOnce(out, stack, count) ==
    LET st == [out |-> out, stack |-> stack, count |-> count]
    IN IF stack = <<>> \/ count = 0 THEN st ELSE NoteRound(st)

noteAppended(out, stack, count) ==
    LET st[n \in 0 .. Len(stack)] ==
            IF n = 0 THEN [out |-> out, stack |-> stack, count |-> count]
            ELSE IF st[n - 1].count = 0 THEN st[n - 1] ELSE NoteRound(st[n - 1])
    IN st[Len(stack)]

-----------------------------------------------------------------------------
(* Reader: a view d of bytes, or Bad where the code throws BadRLP or       *)
(* UndersizeRLP.                                                           *)

Bad == <<256>>

isNull(d) == d = <<>>
isData(d) == ~isNull(d) /\ d[1] < c_rlpListStart
isList(d) == ~isNull(d) /\ d[1] >= c_rlpListStart
isSingleByte(d) == ~isNull(d) /\ d[1] < c_rlpDataImmLenStart

lengthSize(d) ==
    CASE isData(d) /\ d[1] > c_rlpDataIndLenZero -> d[1] - c_rlpDataIndLenZero
      [] isList(d) /\ d[1] > c_rlpListIndLenZero -> d[1] - c_rlpListIndLenZero
      [] OTHER -> 0

payloadOffset(d) == IF isSingleByte(d) THEN 0 ELSE 1 + lengthSize(d)

(* requireGood: a byte that could stand for itself must. *)
requireGood(d) ==
    ~isNull(d) /\ (d[1] = c_rlpDataImmLenStart + 1 => Len(d) >= 2 /\ d[2] >= c_rlpDataImmLenStart)

(* The checks length() makes: the bytes of the length are there, without   *)
(* leading zero, and a length that needs them is given.                    *)
LengthGood(d) ==
    /\ requireGood(d)
    /\ lengthSize(d) > 0 =>
          /\ Len(d) > lengthSize(d) /\ d[2] # 0
          /\ fromBigEndian(SubSeq(d, 2, 1 + lengthSize(d)))
                >= IF isData(d) THEN c_rlpDataImmLenCount ELSE c_rlpListImmLenCount

length(d) ==
    CASE isNull(d) -> 0
      [] isSingleByte(d) -> 1
      [] lengthSize(d) > 0 -> fromBigEndian(SubSeq(d, 2, 1 + lengthSize(d)))
      [] isData(d) /\ lengthSize(d) = 0 /\ ~isSingleByte(d) -> d[1] - c_rlpDataImmLenStart
      [] isList(d) /\ lengthSize(d) = 0 -> d[1] - c_rlpListStart

(* cropped(): the view is empty when it would reach beyond the end. *)
cropped(d, begin, count) ==
    IF begin + count <= Len(d) THEN SubSeq(d, begin + 1, begin + count) ELSE <<>>

actualSize(d) == IF isNull(d) THEN 0 ELSE payloadOffset(d) + length(d)

(* Mutant of VeryStrict: bytes after the item are accepted. *)
VeryStrictPrefix(d) == isNull(d) \/ (LengthGood(d) /\ actualSize(d) <= Len(d))

(* The constructor with VeryStrict accepts d; the one with FailIfTooSmall. *)
VeryStrict(d) == isNull(d) \/ (LengthGood(d) /\ actualSize(d) = Len(d))
LongEnough(d) == isNull(d) \/ (LengthGood(d) /\ actualSize(d) <= Len(d))

payload(d) == cropped(d, payloadOffset(d), length(d))

sizeAsEncoded(d) == actualSize(d)

(* The first item of a view of items; iterator and items() crop one item   *)
(* after the other from the payload.                                       *)
itemCount(d) ==
    LET rest[n \in 0 .. Len(d)] ==
            IF n = 0 THEN payload(d)
            ELSE IF rest[n - 1] = <<>> THEN <<>>
            ELSE IF ~LongEnough(rest[n - 1]) THEN Bad
            ELSE SubSeq(rest[n - 1], 1 + sizeAsEncoded(rest[n - 1]), Len(rest[n - 1]))
    IN IF isList(d) THEN CHOOSE n \in 0 .. Len(d) : rest[n] = <<>> /\ \A m \in 0 .. n - 1 : rest[m] # <<>>
       ELSE 0

toBytes(d) == IF isData(d) THEN payload(d) ELSE <<>>

(* isInt(): no leading zero. *)
isInt(d) ==
    /\ requireGood(d) /\ isData(d)
    /\ \/ d[1] = c_rlpDataImmLenStart
       \/ isSingleByte(d) /\ d[1] # 0
       \/ /\ d[1] > c_rlpDataImmLenStart
          /\ Len(d) > 1 + lengthSize(d) /\ d[2 + lengthSize(d)] # 0

(* toInt<T>(Strict) for a T of size bytes; <<>> where it throws BadCast. *)
toInt(d, size) ==
    IF ~isInt(d) \/ Len(payload(d)) > size THEN <<>> ELSE <<fromBigEndian(payload(d))>>

(* toHash<N>(Strict): a short item is padded on the left. *)
toHash(d, N) ==
    LET p == payload(d)
    IN IF ~requireGood(d) \/ ~isData(d) \/ Len(p) > N THEN Bad
       ELSE [i \in 1 .. N - Len(p) |-> 0] \o p

(* Mutant of Advance: the end of the item given out last is not kept. *)
AdvanceInPlace(d, c) ==
    LET rest == SubSeq(payload(d), c.end + 1, Len(payload(d)))
        item == cropped(rest, 0, sizeAsEncoded(rest))
    IN [index |-> c.index + 1, end |-> c.end, item |-> item]

(* The loop of operator[]: the item after the one given out last. *)
Advance(d, c) ==
    LET rest == SubSeq(payload(d), c.end + 1, Len(payload(d)))
        item == cropped(rest, 0, sizeAsEncoded(rest))
    IN [index |-> c.index + 1, end |-> c.end + Len(item), item |-> item]

(* operator[]: from the cached item on when i is not before it, otherwise  *)
(* from the first.                                                         *)
Subscripted(d, cache, i) ==
    LET size == sizeAsEncoded(payload(d))
        from == IF i < cache.index
                THEN [index |-> 0, end |-> size, item |-> cropped(payload(d), 0, size)] ELSE cache
        c[n \in 0 .. i] ==
            IF n = 0 THEN from
            ELSE IF c[n - 1].index < i /\ c[n - 1].item # <<>> THEN Advance(d, c[n - 1])
            ELSE c[n - 1]
    IN c[i]

-----------------------------------------------------------------------------
VARIABLES
    m_out, m_listStack,     \* the stream; an entry has the items to come and its start
    levels,                 \* history: the lists not closed yet, the stream itself first
    thrown,                 \* the last append threw
    saved, savedItems,      \* a finished output, and history: its items
    m_data, cache, node,    \* the reader's view, its cached item, history: the item it views
    got, want               \* the answer of operator[], history: the item asked for

writerVars == <<m_out, m_listStack, levels, thrown>>
readerVars == <<m_data, cache, node, got, want>>
rlpVars == <<writerVars, saved, savedItems, readerVars>>

(* Items of the history: what was appended, and as what; the weight of an  *)
(* item counts itself and the items in it.                                 *)
NoItem == [kind |-> "none", bytes |-> <<>>, kids |-> <<>>, int |-> 0, weight |-> 1]
DataItem(b) == [NoItem EXCEPT !.kind = "data", !.bytes = b]
HashItem(b) == [NoItem EXCEPT !.kind = "hash", !.bytes = b]
IntItem(i) == [NoItem EXCEPT !.kind = "int", !.int = i]
ItemsIn(items) == FoldLeft(LAMBDA n, x : n + x.weight, 0, items)
ListItem(kids) == [NoItem EXCEPT !.kind = "list", !.kids = kids, !.weight = 1 + ItemsIn(kids)]

(* History: the items are added to the innermost list; a list that has as  *)
(* many items as were announced is an item of the list around it.          *)
Full(ls) == Len(ls) > 1 /\ Len(Last(ls).items) = Last(ls).size
AddTo(ls, xs) == [ls EXCEPT ![Len(ls)].items = @ \o xs]

Added(items) ==
    LET l[n \in 0 .. Len(levels)] ==
            IF n = 0 THEN AddTo(levels, items)
            ELSE IF Full(l[n - 1]) THEN AddTo(Front(l[n - 1]), <<ListItem(Last(l[n - 1]).items)>>)
            ELSE l[n - 1]
    IN l[Len(levels)]

Used == FoldLeft(LAMBDA n, l : n + 1 + ItemsIn(l.items), 0, levels) - 1 + ItemsIn(savedItems)

(* The program writes, then reads. *)
CanAppend == ~thrown /\ m_data = <<>> /\ Used < MaxItems

(* What every append ends in: the bytes are there, then they are noted. *)
Appended(bytes, items) ==
    LET st == noteAppended(m_out \o bytes, m_listStack, Len(items))
    IN /\ m_out' = st.out /\ m_listStack' = st.stack
       /\ levels' = Added(items)
       /\ UNCHANGED <<thrown, readerVars>>

Appends(bytes, item) ==
    /\ CanAppend /\ Appended(bytes, <<item>>)
    /\ UNCHANGED <<saved, savedItems>>

AppendData(b) == Appends(EncodedData(b), DataItem(b))

(* append(FixedHash, compact): without the leading zeros. *)
Compact(b) ==
    LET zeros == {n \in 0 .. Len(b) : \A i \in 1 .. n : b[i] = 0}
    IN SubSeq(b, 1 + Max(zeros), Len(b))

AppendHash(b) == Appends(EncodedData(Compact(b)), HashItem(b))

AppendInt(i) == Appends(EncodedInt(i), IntItem(i))

AppendEmptyList == Appends(ListHeader(0), ListItem(<<>>))

(* appendList(n): the list is opened where the stream ends. *)
AppendList(n) ==
    /\ CanAppend /\ n > 0
    /\ m_listStack' = Append(m_listStack, [left |-> n, start |-> Len(m_out)])
    /\ levels' = Append(levels, [size |-> n, items |-> <<>>])
    /\ UNCHANGED <<m_out, thrown, saved, savedItems, readerVars>>

(* appendRaw: items of another stream.  More than the innermost list has   *)
(* room for: noteAppended throws when the bytes are already there.         *)
TooMany == m_listStack # <<>> /\ Last(m_listStack).left < Len(savedItems)

AppendRaw ==
    /\ ~thrown /\ savedItems # <<>>
    /\ \/ ~TooMany /\ Appended(saved, savedItems) /\ saved' = <<>> /\ savedItems' = <<>>
       \/ /\ TooMany
          /\ m_out' = m_out \o saved /\ thrown' = TRUE
          /\ UNCHANGED <<m_listStack, levels, saved, savedItems, readerVars>>

NoLevels == <<[size |-> 0, items |-> <<>>]>>

(* swapOut(), which throws, like out(), while a list is open. *)
swapOut ==
    /\ ~thrown /\ m_listStack = <<>> /\ m_out # <<>> /\ saved = <<>>
    /\ saved' = m_out /\ savedItems' = levels[1].items
    /\ m_out' = <<>> /\ levels' = NoLevels
    /\ UNCHANGED <<m_listStack, thrown, readerVars>>

clear ==
    /\ m_out' = <<>> /\ m_listStack' = <<>> /\ thrown' = FALSE
    /\ levels' = NoLevels
    /\ UNCHANGED <<saved, savedItems, readerVars>>

(* m_lastIndex = (size_t)-1: before any index. *)
NoCache == [index |-> MaxItems + 2, end |-> 0, item |-> <<>>]

(* RLP(bytes): the item of a stream is opened for reading, or the item     *)
(* that operator[] gave.                                                   *)
Opens(d, item) ==
    /\ m_data' = d /\ node' = item /\ cache' = NoCache
    /\ got' = <<>> /\ want' = NoItem
    /\ saved' = <<>> /\ savedItems' = <<>>
    /\ UNCHANGED writerVars

OpenSaved ==
    /\ m_out = <<>> /\ m_listStack = <<>>
    /\ Len(savedItems) = 1 /\ VeryStrict(saved)
    /\ Opens(saved, savedItems[1])

OpenGot == want # NoItem /\ VeryStrict(got) /\ Opens(got, want)

Subscript(i) ==
    /\ node.kind = "list"
    /\ cache' = Subscripted(m_data, cache, i)
    /\ got' = cache'.item
    /\ want' = IF i < Len(node.kids) THEN node.kids[i + 1] ELSE NoItem
    /\ UNCHANGED <<m_data, node, writerVars, saved, savedItems>>

RLPInit ==
    /\ m_out = <<>> /\ m_listStack = <<>> /\ thrown = FALSE
    /\ levels = NoLevels
    /\ saved = <<>> /\ savedItems = <<>>
    /\ m_data = <<>> /\ node = NoItem /\ cache = NoCache /\ got = <<>> /\ want = NoItem

RLPNext ==
    \/ \E b \in DataItems : AppendData(b)
    \/ \E b \in Hashes : AppendHash(b)
    \/ \E i \in Ints : AppendInt(i)
    \/ AppendEmptyList
    \/ \E n \in ListSizes : AppendList(n)
    \/ AppendRaw \/ swapOut \/ clear
    \/ OpenSaved \/ OpenGot
    \/ \E i \in 0 .. MaxItems + 1 : Subscript(i)

RLPSpec == RLPInit /\ [][RLPNext]_rlpVars

-----------------------------------------------------------------------------
(* Properties *)

(* Bytes are bytes; the entries of the list stack start at or after one    *)
(* another, within the output, and each has items to come.                 *)
RLPTypeOK ==
    /\ \A i \in 1 .. Len(m_out) : m_out[i] \in 0 .. 255
    /\ \A k \in 1 .. Len(m_listStack) :
          /\ m_listStack[k].left > 0 /\ m_listStack[k].start <= Len(m_out)
          /\ k > 1 => m_listStack[k - 1].start <= m_listStack[k].start
    /\ thrown \in BOOLEAN

(* The list stack counts right through nested and raw items: a list is     *)
(* open exactly while fewer items than announced were appended to it, so   *)
(* out() gives the bytes exactly when every list is complete.              *)
ListsCount ==
    /\ Len(m_listStack) = Len(levels) - 1
    /\ \A k \in 1 .. Len(m_listStack) :
          m_listStack[k].left = levels[k + 1].size - Len(levels[k + 1].items)

(* What operator[] gives, for every order of the indices, is the item that *)
(* was appended at that place, and nothing past the end ("@returns the     *)
(* list item _i ... or RLP() otherwise", RLP.h).                           *)
ReadBack ==
    CASE want.kind = "none" -> isNull(got)
      [] want.kind = "list" -> isList(got) /\ VeryStrict(got) /\ itemCount(got) = Len(want.kids)
      [] want.kind = "data" -> isData(got) /\ VeryStrict(got) /\ toBytes(got) = want.bytes
      [] want.kind = "int" -> toInt(got, 1) = IF want.int < 256 THEN <<want.int>> ELSE <<>>
      [] want.kind = "hash" -> toHash(got, Len(want.bytes)) = want.bytes

(* VeryStrict accepts the output of a stream that wrote one item, and      *)
(* neither a part of it nor more than it.                                  *)
SizesStrict ==
    Len(savedItems) = 1 =>
        /\ VeryStrict(saved)
        /\ \A n \in 1 .. Len(saved) - 1 : ~VeryStrict(SubSeq(saved, 1, n))
        /\ \A b \in {0, 128, 192} : ~VeryStrict(Append(saved, b))
=============================================================================
