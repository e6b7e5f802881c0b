------------------------- MODULE AddressCodecProofs ------------------------
(* Proofs about AddressCodec: what convert() computes in both directions,  *)
(* that the checksum has 8 symbols, and from these the round trip.         *)
EXTENDS AddressCodec, RecursionLemmas, SequenceTheorems

-----------------------------------------------------------------------------
(* The recursive functions satisfy their equations. *)

(* The table of powers of two that stands for the shifts of convert().     *)
LEMMA Powers ==
    /\ Pow2 \in [0 .. 16 -> Nat \ {0}]
    /\ Pow2[0] = 1 /\ Pow2[1] = 2 /\ Pow2[2] = 4 /\ Pow2[3] = 8 /\ Pow2[4] = 16 /\ Pow2[5] = 32
    /\ Pow2[6] = 64 /\ Pow2[7] = 128 /\ Pow2[8] = 256
<1> DEFINE S == Nat \ {0}
           G == [i \in 1 .. 16 |-> [s \in S |-> 2 * s]]
<1>1. G \in Rounds(16, S)
  BY DEF Rounds
<1>2. PICK f : IsLoop(f, 16, S, 1, G)
  <2>1. 1 \in S /\ 16 \in Nat
    OBVIOUS
  <2> HIDE DEF S, G
  <2>. QED
    BY <1>1, <2>1, LoopDefined
<1>3. f = [n \in 0 .. 16 |-> IF n = 0 THEN 1 ELSE 2 * f[n - 1]]
  <2>1. ASSUME NEW i \in 0 .. 16 PROVE f[i] = IF i = 0 THEN 1 ELSE 2 * f[i - 1]
    <3>1. f[i] = IF i = 0 THEN 1 ELSE G[i][f[i - 1]]
      BY <1>2 DEF IsLoop
    <3>2. i # 0 => i \in 1 .. 16 /\ f[i - 1] \in S
      BY <1>2 DEF IsLoop
    <3>. QED
      BY <3>1, <3>2
  <2>. QED
    BY <1>2, <2>1 DEF IsLoop
<1>4. Pow2 = [n \in 0 .. 16 |-> IF n = 0 THEN 1 ELSE 2 * Pow2[n - 1]]
  BY <1>3 DEF Pow2
<1>5. ASSUME NEW g, g = [n \in 0 .. 16 |-> IF n = 0 THEN 1 ELSE 2 * g[n - 1]]
      PROVE  \A n \in 0 .. 16 : g[n] = IF n = 0 THEN 1 ELSE 2 * g[n - 1]
  BY <1>5
<1>6. \A n \in 0 .. 16 : Pow2[n] = IF n = 0 THEN 1 ELSE 2 * Pow2[n - 1]
  BY <1>4, <1>5
<1>7. Pow2[0] = 1 /\ Pow2[1] = 2 /\ Pow2[2] = 4 /\ Pow2[3] = 8 /\ Pow2[4] = 16
  BY <1>6
<1>8. Pow2[5] = 32 /\ Pow2[6] = 64 /\ Pow2[7] = 128 /\ Pow2[8] = 256
  BY <1>6, <1>7
<1>9. Pow2[9] = 512 /\ Pow2[10] = 1024 /\ Pow2[11] = 2048 /\ Pow2[12] = 4096
  BY <1>6, <1>8
<1>10. Pow2[13] = 8192 /\ Pow2[14] = 16384 /\ Pow2[15] = 32768 /\ Pow2[16] = 65536
  BY <1>6, <1>9
<1>11. DOMAIN Pow2 = 0 .. 16 /\ Pow2 = [n \in 0 .. 16 |-> Pow2[n]]
  BY <1>4
<1>12. \A n \in 0 .. 16 : Pow2[n] \in Nat \ {0}
  <2>1. \A n \in 0 .. 16 : n \in {0, 1, 2, 3, 4, 5, 6, 7, 8} \cup {9, 10, 11, 12, 13, 14, 15, 16}
    OBVIOUS
  <2>. QED
    BY <1>7, <1>8, <1>9, <1>10, <2>1
<1>. QED
  BY <1>7, <1>8, <1>11, <1>12

LEMMA DivMod ==
    ASSUME NEW x \in Nat, NEW y \in Nat \ {0} PROVE x \div y \in Nat /\ x % y \in Nat /\ x % y < y
OBVIOUS

(* The loop of convert() and the states it goes through. *)
ConvertRun(data, inbits, outbits) ==
    LET run[i \in 0 .. Len(data)] ==
            IF i = 0 THEN [acc |-> 0, bits |-> 0, ret |-> <<>>]
            ELSE ConvertStep(run[i - 1], data[i], inbits, outbits)
    IN run

ConvertStates(outbits) == [acc : Nat, bits : 0 .. outbits - 1, ret : Seq(Nat)]

ConvertResult(end, inbits, outbits) ==
    IF end.bits > 0 /\ inbits > outbits THEN Append(end.ret, end.acc * Pow2[outbits - end.bits]) ELSE end.ret

(* convert() is the end of its loop, with what is left over padded or dropped. *)
LEMMA ConvertEnd ==
    ASSUME NEW data, NEW inbits, NEW outbits
    PROVE  convert(data, inbits, outbits) = ConvertResult(ConvertRun(data, inbits, outbits)[Len(data)], inbits, outbits)
BY DEF convert, ConvertRun, ConvertResult

(* One round of the loop leaves less than one group in the accumulator.    *)
LEMMA ConvertStepType ==
    ASSUME NEW inbits \in {5, 8}, NEW outbits \in {5, 8}, NEW st \in ConvertStates(outbits), NEW d \in Nat
    PROVE  ConvertStep(st, d, inbits, outbits) \in ConvertStates(outbits)
<1> DEFINE acc == st.acc * Pow2[inbits] + d
           bits == st.bits + inbits
           groups == [i \in 1 .. bits \div outbits |-> (acc \div Pow2[bits - i * outbits]) % Pow2[outbits]]
<1>1. st.acc \in Nat /\ st.bits \in 0 .. outbits - 1 /\ st.ret \in Seq(Nat)
  BY DEF ConvertStates
<1>2. acc \in Nat /\ bits \in 0 .. 15
  <2> DEFINE p == Pow2[inbits]
             x == st.acc
             y == st.bits
  <2>1. p \in Nat
    BY Powers
  <2>2. x \in Nat /\ y \in 0 .. outbits - 1
    BY <1>1
  <2> HIDE DEF p, x, y
  <2>3. x * p \in Nat
    BY <2>1, <2>2
  <2>4. x * p + d \in Nat
    BY <2>3
  <2>5. y + inbits \in 0 .. 15
    BY <2>2
  <2>. QED
    BY <2>4, <2>5 DEF x, y, p
<1> HIDE DEF acc, bits
<1>3. bits \div outbits \in Nat /\ bits % outbits \in 0 .. outbits - 1
  BY <1>2
<1>4. ASSUME NEW i \in 1 .. bits \div outbits PROVE (acc \div Pow2[bits - i * outbits]) % Pow2[outbits] \in Nat
  <2>1. bits - i * outbits \in 0 .. 16
    BY <1>2, <1>3
  <2>2. Pow2[bits - i * outbits] \in Nat \ {0} /\ Pow2[outbits] \in Nat \ {0}
    BY <2>1, Powers
  <2>. QED
    BY <1>2, <2>2, DivMod
<1>5. groups \in Seq(Nat)
  BY <1>3, <1>4
<1>6. acc % Pow2[bits % outbits] \in Nat
  <2>1. Pow2[bits % outbits] \in Nat \ {0}
    BY <1>3, Powers
  <2>. QED
    BY <1>2, <2>1, DivMod
<1> HIDE DEF groups
<1>7. ConvertStep(st, d, inbits, outbits) = [acc |-> acc % Pow2[bits % outbits], bits |-> bits % outbits, ret |-> st.ret \o groups]
  BY DEF ConvertStep, acc, bits, groups
<1>8. st.ret \o groups \in Seq(Nat)
  BY <1>1, <1>5
<1>. QED
  BY <1>3, <1>6, <1>7, <1>8 DEF ConvertStates

(* The loop of convert() runs as written, for input of any length.         *)
LEMMA ConvertRuns ==
    ASSUME NEW inbits \in {5, 8}, NEW outbits \in {5, 8}, NEW data \in Seq(Nat)
    PROVE  /\ ConvertRun(data, inbits, outbits)[0] = [acc |-> 0, bits |-> 0, ret |-> <<>>]
           /\ \A i \in 1 .. Len(data) : ConvertRun(data, inbits, outbits)[i]
                 = ConvertStep(ConvertRun(data, inbits, outbits)[i - 1], data[i], inbits, outbits)
           /\ \A i \in 0 .. Len(data) : ConvertRun(data, inbits, outbits)[i] \in ConvertStates(outbits)
<1> DEFINE N == Len(data)
           a == [acc |-> 0, bits |-> 0, ret |-> <<>>]
           S == ConvertStates(outbits)
           Step(s, i) == ConvertStep(s, data[i], inbits, outbits)
           G == [i \in 1 .. N |-> [s \in S |-> Step(s, i)]]
           run == ConvertRun(data, inbits, outbits)
<1>1. a \in S /\ N \in Nat
  BY DEF ConvertStates
<1>2. ASSUME NEW i \in 1 .. N, NEW s \in S PROVE Step(s, i) \in S
  <2>1. data[i] \in Nat
    OBVIOUS
  <2>. QED
    BY <2>1, ConvertStepType
<1> HIDE DEF N, S
<1>3. G \in Rounds(N, S)
  BY <1>2 DEF Rounds
<1> HIDE DEF a, G
<1>4. PICK f : IsLoop(f, N, S, a, G)
  BY <1>1, <1>3, LoopDefined
<1>5. ASSUME NEW i \in 0 .. N PROVE f[i] = IF i = 0 THEN a ELSE Step(f[i - 1], i)
  <2>1. f[i] = IF i = 0 THEN a ELSE G[i][f[i - 1]]
    BY <1>1, <1>4 DEF IsLoop
  <2>2. CASE i # 0
    <3>1. i \in 1 .. N /\ f[i - 1] \in S
      BY <1>1, <1>4, <2>2 DEF IsLoop
    <3>2. G[i][f[i - 1]] = Step(f[i - 1], i)
      BY <3>1 DEF G
    <3>. QED
      BY <2>1, <2>2, <3>2
  <2>. QED
    BY <2>1, <2>2
<1> HIDE DEF Step
<1>6. f = [i \in 0 .. N |-> IF i = 0 THEN a ELSE Step(f[i - 1], i)]
  BY <1>4, <1>5 DEF IsLoop
<1> DEFINE g == CHOOSE r : r = [i \in 0 .. N |-> IF i = 0 THEN a ELSE Step(r[i - 1], i)]
<1>7. g = [i \in 0 .. N |-> IF i = 0 THEN a ELSE Step(g[i - 1], i)]
  BY <1>6
<1>8. run = g
  BY DEF ConvertRun, N, a, Step
<1> HIDE DEF g, run
<1>9. \A i \in 0 .. N : run[i] = IF i = 0 THEN a ELSE Step(run[i - 1], i)
  BY <1>7, <1>8
<1> DEFINE P == {i \in Nat : i <= N => run[i] \in S}
<1>10. P = Nat
  <2>1. 0 \in P
    BY <1>1, <1>9
  <2>2. ASSUME NEW i \in P PROVE i + 1 \in P
    <3> SUFFICES ASSUME i + 1 <= N PROVE run[i + 1] \in S
      OBVIOUS
    <3>1. i + 1 \in 1 .. N /\ run[i] \in S /\ i + 1 - 1 = i /\ i \in Nat
      BY <1>1
    <3>2. run[i + 1] = Step(run[i], i + 1)
      BY <1>1, <1>9, <3>1
    <3>. QED
      BY <1>2, <3>1, <3>2
  <2>3. P \subseteq Nat
    OBVIOUS
  <2> HIDE DEF P
  <2>. QED
    BY <2>1, <2>2, <2>3, SetInduction
<1>11. \A i \in 0 .. N : run[i] \in S
  BY <1>1, <1>10
<1>12. run[0] = a /\ \A i \in 1 .. N : run[i] = Step(run[i - 1], i)
  BY <1>1, <1>9
<1>. QED
  BY <1>11, <1>12 DEF N, a, S, Step, run

-----------------------------------------------------------------------------
(* One round of convert(), by the number of groups that it completes.      *)

State(a, b, r) == [acc |-> a, bits |-> b, ret |-> r]

Gathered(a, d, inbits) == a * Pow2[inbits] + d

Group(x, n, i, outbits) == (x \div Pow2[n - i * outbits]) % Pow2[outbits]

Rest(x, n, outbits) == x % Pow2[n % outbits]

(* A round that completes no group.                                        *)
LEMMA StepNone ==
    ASSUME NEW a, NEW b \in Nat, NEW r \in Seq(Nat), NEW d, NEW inbits \in Nat, NEW outbits \in Nat \ {0},
           (b + inbits) \div outbits = 0
    PROVE  ConvertStep(State(a, b, r), d, inbits, outbits)
              = State(Rest(Gathered(a, d, inbits), b + inbits, outbits), (b + inbits) % outbits, r)
<1> DEFINE x == Gathered(a, d, inbits)
           n == b + inbits
           groups == [i \in 1 .. n \div outbits |-> Group(x, n, i, outbits)]
<1>1. ConvertStep(State(a, b, r), d, inbits, outbits) = State(Rest(x, n, outbits), n % outbits, r \o groups)
  BY DEF ConvertStep, State, Gathered, Group, Rest
<1>2. groups = << >>
  OBVIOUS
<1>3. r \o << >> = r
  OBVIOUS
<1> HIDE DEF groups
<1>. QED
  BY <1>1, <1>2, <1>3

(* A round that completes one group.                                       *)
LEMMA StepOne ==
    ASSUME NEW a, NEW b \in Nat, NEW r \in Seq(Nat), NEW d, NEW inbits \in Nat, NEW outbits \in Nat \ {0},
           (b + inbits) \div outbits = 1
    PROVE  ConvertStep(State(a, b, r), d, inbits, outbits)
              = State(Rest(Gathered(a, d, inbits), b + inbits, outbits), (b + inbits) % outbits,
                      r \o <<Group(Gathered(a, d, inbits), b + inbits, 1, outbits)>>)
<1> DEFINE x == Gathered(a, d, inbits)
           n == b + inbits
           groups == [i \in 1 .. n \div outbits |-> Group(x, n, i, outbits)]
<1>1. ConvertStep(State(a, b, r), d, inbits, outbits) = State(Rest(x, n, outbits), n % outbits, r \o groups)
  BY DEF ConvertStep, State, Gathered, Group, Rest
<1>2. groups = <<Group(x, n, 1, outbits)>>
  OBVIOUS
<1> HIDE DEF groups
<1>. QED
  BY <1>1, <1>2

(* A round that completes two groups.                                      *)
LEMMA StepTwo ==
    ASSUME NEW a, NEW b \in Nat, NEW r \in Seq(Nat), NEW d, NEW inbits \in Nat, NEW outbits \in Nat \ {0},
           (b + inbits) \div outbits = 2
    PROVE  ConvertStep(State(a, b, r), d, inbits, outbits)
              = State(Rest(Gathered(a, d, inbits), b + inbits, outbits), (b + inbits) % outbits,
                      r \o <<Group(Gathered(a, d, inbits), b + inbits, 1, outbits),
                             Group(Gathered(a, d, inbits), b + inbits, 2, outbits)>>)
<1> DEFINE x == Gathered(a, d, inbits)
           n == b + inbits
           groups == [i \in 1 .. n \div outbits |-> Group(x, n, i, outbits)]
<1>1. ConvertStep(State(a, b, r), d, inbits, outbits) = State(Rest(x, n, outbits), n % outbits, r \o groups)
  BY DEF ConvertStep, State, Gathered, Group, Rest
<1>2. groups = <<Group(x, n, 1, outbits), Group(x, n, 2, outbits)>>
  OBVIOUS
<1> HIDE DEF groups
<1>. QED
  BY <1>1, <1>2

(* The shifts and masks of the rounds that make groups of 5 bits.          *)
LEMMA Shifts5 ==
    ASSUME NEW x
    PROVE  /\ Rest(x, 8, 5) = x % 8 /\ Group(x, 8, 1, 5) = (x \div 8) % 32
           /\ Rest(x, 11, 5) = x % 2 /\ Group(x, 11, 1, 5) = (x \div 64) % 32 /\ Group(x, 11, 2, 5) = (x \div 2) % 32
           /\ Rest(x, 9, 5) = x % 16 /\ Group(x, 9, 1, 5) = (x \div 16) % 32
           /\ Rest(x, 12, 5) = x % 4 /\ Group(x, 12, 1, 5) = (x \div 128) % 32 /\ Group(x, 12, 2, 5) = (x \div 4) % 32
           /\ Rest(x, 10, 5) = x % 1 /\ Group(x, 10, 1, 5) = (x \div 32) % 32 /\ Group(x, 10, 2, 5) = (x \div 1) % 32
<1>1. Rest(x, 8, 5) = x % 8 /\ Group(x, 8, 1, 5) = (x \div 8) % 32
  <2>1. 8 % 5 = 3 /\ 8 - 1 * 5 = 3
    OBVIOUS
  <2>. QED
    BY <2>1, Powers DEF Rest, Group
<1>2. Rest(x, 11, 5) = x % 2 /\ Group(x, 11, 1, 5) = (x \div 64) % 32 /\ Group(x, 11, 2, 5) = (x \div 2) % 32
  <2>1. 11 % 5 = 1 /\ 11 - 1 * 5 = 6 /\ 11 - 2 * 5 = 1
    OBVIOUS
  <2>. QED
    BY <2>1, Powers DEF Rest, Group
<1>3. Rest(x, 9, 5) = x % 16 /\ Group(x, 9, 1, 5) = (x \div 16) % 32
  <2>1. 9 % 5 = 4 /\ 9 - 1 * 5 = 4
    OBVIOUS
  <2>. QED
    BY <2>1, Powers DEF Rest, Group
<1>4. Rest(x, 12, 5) = x % 4 /\ Group(x, 12, 1, 5) = (x \div 128) % 32 /\ Group(x, 12, 2, 5) = (x \div 4) % 32
  <2>1. 12 % 5 = 2 /\ 12 - 1 * 5 = 7 /\ 12 - 2 * 5 = 2
    OBVIOUS
  <2>. QED
    BY <2>1, Powers DEF Rest, Group
<1>5. Rest(x, 10, 5) = x % 1 /\ Group(x, 10, 1, 5) = (x \div 32) % 32 /\ Group(x, 10, 2, 5) = (x \div 1) % 32
  <2>1. 10 % 5 = 0 /\ 10 - 1 * 5 = 5 /\ 10 - 2 * 5 = 0
    OBVIOUS
  <2>. QED
    BY <2>1, Powers DEF Rest, Group
<1>. QED
  BY <1>1, <1>2, <1>3, <1>4, <1>5

(* The shifts and masks of the rounds that make bytes.                     *)
LEMMA Shifts8 ==
    ASSUME NEW x
    PROVE  /\ Rest(x, 5, 8) = x % 32
           /\ Rest(x, 10, 8) = x % 4 /\ Group(x, 10, 1, 8) = (x \div 4) % 256
           /\ Rest(x, 7, 8) = x % 128
           /\ Rest(x, 12, 8) = x % 16 /\ Group(x, 12, 1, 8) = (x \div 16) % 256
           /\ Rest(x, 9, 8) = x % 2 /\ Group(x, 9, 1, 8) = (x \div 2) % 256
           /\ Rest(x, 6, 8) = x % 64
           /\ Rest(x, 11, 8) = x % 8 /\ Group(x, 11, 1, 8) = (x \div 8) % 256
           /\ Rest(x, 8, 8) = x % 1 /\ Group(x, 8, 1, 8) = (x \div 1) % 256
<1>1. Rest(x, 5, 8) = x % 32
  <2>1. 5 % 8 = 5
    OBVIOUS
  <2>. QED
    BY <2>1, Powers DEF Rest, Group
<1>2. Rest(x, 10, 8) = x % 4 /\ Group(x, 10, 1, 8) = (x \div 4) % 256
  <2>1. 10 % 8 = 2 /\ 10 - 1 * 8 = 2
    OBVIOUS
  <2>. QED
    BY <2>1, Powers DEF Rest, Group
<1>3. Rest(x, 7, 8) = x % 128
  <2>1. 7 % 8 = 7
    OBVIOUS
  <2>. QED
    BY <2>1, Powers DEF Rest, Group
<1>4. Rest(x, 12, 8) = x % 16 /\ Group(x, 12, 1, 8) = (x \div 16) % 256
  <2>1. 12 % 8 = 4 /\ 12 - 1 * 8 = 4
    OBVIOUS
  <2>. QED
    BY <2>1, Powers DEF Rest, Group
<1>5. Rest(x, 9, 8) = x % 2 /\ Group(x, 9, 1, 8) = (x \div 2) % 256
  <2>1. 9 % 8 = 1 /\ 9 - 1 * 8 = 1
    OBVIOUS
  <2>. QED
    BY <2>1, Powers DEF Rest, Group
<1>6. Rest(x, 6, 8) = x % 64
  <2>1. 6 % 8 = 6
    OBVIOUS
  <2>. QED
    BY <2>1, Powers DEF Rest, Group
<1>7. Rest(x, 11, 8) = x % 8 /\ Group(x, 11, 1, 8) = (x \div 8) % 256
  <2>1. 11 % 8 = 3 /\ 11 - 1 * 8 = 3
    OBVIOUS
  <2>. QED
    BY <2>1, Powers DEF Rest, Group
<1>8. Rest(x, 8, 8) = x % 1 /\ Group(x, 8, 1, 8) = (x \div 1) % 256
  <2>1. 8 % 8 = 0 /\ 8 - 1 * 8 = 0
    OBVIOUS
  <2>. QED
    BY <2>1, Powers DEF Rest, Group
<1>. QED
  BY <1>1, <1>2, <1>3, <1>4, <1>5, <1>6, <1>7, <1>8

(* 8 to 5: after 0, 3, 1, 4 and 2 bits left over. *)
LEMMA Narrow0 ==
    ASSUME NEW r \in Seq(Nat), NEW d \in Byte
    PROVE  ConvertStep(State(0, 0, r), d, 8, 5) = State(d % 8, 3, r \o <<d \div 8>>)
<1> DEFINE x == Gathered(0, d, 8)
<1>1. ConvertStep(State(0, 0, r), d, 8, 5) = State(Rest(x, 8, 5), 3, r \o <<Group(x, 8, 1, 5)>>)
  <2>1. 0 + 8 = 8 /\ (0 + 8) \div 5 = 1 /\ 8 % 5 = 3 /\ 0 \in Nat /\ 8 \in Nat /\ 5 \in Nat \ {0}
    OBVIOUS
  <2> HIDE DEF x
  <2>. QED
    BY <2>1, StepOne DEF x
<1>2. x = d
  BY Powers DEF Gathered, Byte
<1>3. Rest(x, 8, 5) = x % 8 /\ Group(x, 8, 1, 5) = (x \div 8) % 32
  BY Shifts5
<1> HIDE DEF x
<1>4. x % 8 = d % 8 /\ (x \div 8) % 32 = d \div 8
  BY <1>2 DEF Byte
<1>. QED
  BY <1>1, <1>3, <1>4

LEMMA Narrow3 ==
    ASSUME NEW r \in Seq(Nat), NEW d \in Byte, NEW a \in 0 .. 7
    PROVE  ConvertStep(State(a, 3, r), d, 8, 5) = State(d % 2, 1, r \o <<a * 4 + d \div 64, (d \div 2) % 32>>)
<1> DEFINE x == Gathered(a, d, 8)
<1>1. ConvertStep(State(a, 3, r), d, 8, 5) = State(Rest(x, 11, 5), 1, r \o <<Group(x, 11, 1, 5), Group(x, 11, 2, 5)>>)
  <2>1. 3 + 8 = 11 /\ (3 + 8) \div 5 = 2 /\ 11 % 5 = 1 /\ 3 \in Nat /\ 8 \in Nat /\ 5 \in Nat \ {0}
    OBVIOUS
  <2> HIDE DEF x
  <2>. QED
    BY <2>1, StepTwo DEF x
<1>2. x = 256 * a + d
  BY Powers DEF Gathered, Byte
<1>3. Rest(x, 11, 5) = x % 2 /\ Group(x, 11, 1, 5) = (x \div 64) % 32 /\ Group(x, 11, 2, 5) = (x \div 2) % 32
  BY Shifts5
<1> HIDE DEF x
<1>4. x % 2 = d % 2 /\ (x \div 64) % 32 = a * 4 + d \div 64 /\ (x \div 2) % 32 = (d \div 2) % 32
  BY <1>2 DEF Byte
<1>. QED
  BY <1>1, <1>3, <1>4

LEMMA Narrow1 ==
    ASSUME NEW r \in Seq(Nat), NEW d \in Byte, NEW a \in 0 .. 1
    PROVE  ConvertStep(State(a, 1, r), d, 8, 5) = State(d % 16, 4, r \o <<a * 16 + d \div 16>>)
<1> DEFINE x == Gathered(a, d, 8)
<1>1. ConvertStep(State(a, 1, r), d, 8, 5) = State(Rest(x, 9, 5), 4, r \o <<Group(x, 9, 1, 5)>>)
  <2>1. 1 + 8 = 9 /\ (1 + 8) \div 5 = 1 /\ 9 % 5 = 4 /\ 1 \in Nat /\ 8 \in Nat /\ 5 \in Nat \ {0}
    OBVIOUS
  <2> HIDE DEF x
  <2>. QED
    BY <2>1, StepOne DEF x
<1>2. x = 256 * a + d
  BY Powers DEF Gathered, Byte
<1>3. Rest(x, 9, 5) = x % 16 /\ Group(x, 9, 1, 5) = (x \div 16) % 32
  BY Shifts5
<1> HIDE DEF x
<1>4. x % 16 = d % 16 /\ (x \div 16) % 32 = a * 16 + d \div 16
  BY <1>2 DEF Byte
<1>. QED
  BY <1>1, <1>3, <1>4

Pair4(a, d) == <<a * 2 + d \div 128, (d \div 4) % 32>>

LEMMA Narrow4 ==
    ASSUME NEW r \in Seq(Nat), NEW d \in Byte, NEW a \in 0 .. 15
    PROVE  ConvertStep(State(a, 4, r), d, 8, 5) = State(d % 4, 2, r \o Pair4(a, d))
<1> DEFINE x == Gathered(a, d, 8)
<1>1. ConvertStep(State(a, 4, r), d, 8, 5) = State(Rest(x, 12, 5), 2, r \o <<Group(x, 12, 1, 5), Group(x, 12, 2, 5)>>)
  <2>1. 4 + 8 = 12 /\ (4 + 8) \div 5 = 2 /\ 12 % 5 = 2 /\ 4 \in Nat /\ 8 \in Nat /\ 5 \in Nat \ {0}
    OBVIOUS
  <2> HIDE DEF x
  <2>. QED
    BY <2>1, StepTwo DEF x
<1>2. x = 256 * a + d
  BY Powers DEF Gathered, Byte
<1>3. Rest(x, 12, 5) = x % 4 /\ Group(x, 12, 1, 5) = (x \div 128) % 32 /\ Group(x, 12, 2, 5) = (x \div 4) % 32
  BY Shifts5
<1> HIDE DEF x
<1>4. x % 4 = d % 4 /\ (x \div 128) % 32 = a * 2 + d \div 128 /\ (x \div 4) % 32 = (d \div 4) % 32
  BY <1>2 DEF Byte
<1>. QED
  BY <1>1, <1>3, <1>4 DEF Pair4

LEMMA Narrow2 ==
    ASSUME NEW r \in Seq(Nat), NEW d \in Byte, NEW a \in 0 .. 3
    PROVE  ConvertStep(State(a, 2, r), d, 8, 5) = State(0, 0, r \o <<a * 8 + d \div 32, d % 32>>)
<1> DEFINE x == Gathered(a, d, 8)
<1>1. ConvertStep(State(a, 2, r), d, 8, 5) = State(Rest(x, 10, 5), 0, r \o <<Group(x, 10, 1, 5), Group(x, 10, 2, 5)>>)
  <2>1. 2 + 8 = 10 /\ (2 + 8) \div 5 = 2 /\ 10 % 5 = 0 /\ 2 \in Nat /\ 8 \in Nat /\ 5 \in Nat \ {0}
    OBVIOUS
  <2> HIDE DEF x
  <2>. QED
    BY <2>1, StepTwo DEF x
<1>2. x = 256 * a + d
  BY Powers DEF Gathered, Byte
<1>3. Rest(x, 10, 5) = x % 1 /\ Group(x, 10, 1, 5) = (x \div 32) % 32 /\ Group(x, 10, 2, 5) = (x \div 1) % 32
  BY Shifts5
<1> HIDE DEF x
<1>4. x % 1 = 0 /\ (x \div 32) % 32 = a * 8 + d \div 32 /\ (x \div 1) % 32 = d % 32
  BY <1>2 DEF Byte
<1>. QED
  BY <1>1, <1>3, <1>4

(* 5 to 8: after 0, 5, 2, 7, 4, 1, 6 and 3 bits left over. *)
LEMMA Widen0 ==
    ASSUME NEW r \in Seq(Nat), NEW d \in Symbol
    PROVE  ConvertStep(State(0, 0, r), d, 5, 8) = State(d, 5, r)
<1> DEFINE x == Gathered(0, d, 5)
<1>1. ConvertStep(State(0, 0, r), d, 5, 8) = State(Rest(x, 5, 8), 5, r)
  <2>1. 0 + 5 = 5 /\ (0 + 5) \div 8 = 0 /\ 5 % 8 = 5 /\ 0 \in Nat /\ 5 \in Nat /\ 8 \in Nat \ {0}
    OBVIOUS
  <2> HIDE DEF x
  <2>. QED
    BY <2>1, StepNone DEF x
<1>2. x = d
  BY Powers DEF Gathered, Symbol
<1>3. Rest(x, 5, 8) = x % 32
  BY Shifts8
<1> HIDE DEF x
<1>4. x % 32 = d
  BY <1>2 DEF Symbol
<1>. QED
  BY <1>1, <1>3, <1>4

LEMMA Widen5 ==
    ASSUME NEW r \in Seq(Nat), NEW d \in Symbol, NEW a \in 0 .. 31
    PROVE  ConvertStep(State(a, 5, r), d, 5, 8) = State(d % 4, 2, r \o <<a * 8 + d \div 4>>)
<1> DEFINE x == Gathered(a, d, 5)
<1>1. ConvertStep(State(a, 5, r), d, 5, 8) = State(Rest(x, 10, 8), 2, r \o <<Group(x, 10, 1, 8)>>)
  <2>1. 5 + 5 = 10 /\ (5 + 5) \div 8 = 1 /\ 10 % 8 = 2 /\ 5 \in Nat /\ 5 \in Nat /\ 8 \in Nat \ {0}
    OBVIOUS
  <2> HIDE DEF x
  <2>. QED
    BY <2>1, StepOne DEF x
<1>2. x = 32 * a + d
  BY Powers DEF Gathered, Symbol
<1>3. Rest(x, 10, 8) = x % 4 /\ Group(x, 10, 1, 8) = (x \div 4) % 256
  BY Shifts8
<1> HIDE DEF x
<1>4. x % 4 = d % 4 /\ (x \div 4) % 256 = a * 8 + d \div 4
  BY <1>2 DEF Symbol
<1>. QED
  BY <1>1, <1>3, <1>4

LEMMA Widen2 ==
    ASSUME NEW r \in Seq(Nat), NEW d \in Symbol, NEW a \in 0 .. 3
    PROVE  ConvertStep(State(a, 2, r), d, 5, 8) = State(a * 32 + d, 7, r)
<1> DEFINE x == Gathered(a, d, 5)
<1>1. ConvertStep(State(a, 2, r), d, 5, 8) = State(Rest(x, 7, 8), 7, r)
  <2>1. 2 + 5 = 7 /\ (2 + 5) \div 8 = 0 /\ 7 % 8 = 7 /\ 2 \in Nat /\ 5 \in Nat /\ 8 \in Nat \ {0}
    OBVIOUS
  <2> HIDE DEF x
  <2>. QED
    BY <2>1, StepNone DEF x
<1>2. x = 32 * a + d
  BY Powers DEF Gathered, Symbol
<1>3. Rest(x, 7, 8) = x % 128
  BY Shifts8
<1> HIDE DEF x
<1>4. x % 128 = a * 32 + d
  BY <1>2 DEF Symbol
<1>. QED
  BY <1>1, <1>3, <1>4

LEMMA Widen7 ==
    ASSUME NEW r \in Seq(Nat), NEW d \in Symbol, NEW a \in 0 .. 127
    PROVE  ConvertStep(State(a, 7, r), d, 5, 8) = State(d % 16, 4, r \o <<a * 2 + d \div 16>>)
<1> DEFINE x == Gathered(a, d, 5)
<1>1. ConvertStep(State(a, 7, r), d, 5, 8) = State(Rest(x, 12, 8), 4, r \o <<Group(x, 12, 1, 8)>>)
  <2>1. 7 + 5 = 12 /\ (7 + 5) \div 8 = 1 /\ 12 % 8 = 4 /\ 7 \in Nat /\ 5 \in Nat /\ 8 \in Nat \ {0}
    OBVIOUS
  <2> HIDE DEF x
  <2>. QED
    BY <2>1, StepOne DEF x
<1>2. x = 32 * a + d
  BY Powers DEF Gathered, Symbol
<1>3. Rest(x, 12, 8) = x % 16 /\ Group(x, 12, 1, 8) = (x \div 16) % 256
  BY Shifts8
<1> HIDE DEF x
<1>4. x % 16 = d % 16 /\ (x \div 16) % 256 = a * 2 + d \div 16
  BY <1>2 DEF Symbol
<1>. QED
  BY <1>1, <1>3, <1>4

LEMMA Widen4 ==
    ASSUME NEW r \in Seq(Nat), NEW d \in Symbol, NEW a \in 0 .. 15
    PROVE  ConvertStep(State(a, 4, r), d, 5, 8) = State(d % 2, 1, r \o <<a * 16 + d \div 2>>)
<1> DEFINE x == Gathered(a, d, 5)
<1>1. ConvertStep(State(a, 4, r), d, 5, 8) = State(Rest(x, 9, 8), 1, r \o <<Group(x, 9, 1, 8)>>)
  <2>1. 4 + 5 = 9 /\ (4 + 5) \div 8 = 1 /\ 9 % 8 = 1 /\ 4 \in Nat /\ 5 \in Nat /\ 8 \in Nat \ {0}
    OBVIOUS
  <2> HIDE DEF x
  <2>. QED
    BY <2>1, StepOne DEF x
<1>2. x = 32 * a + d
  BY Powers DEF Gathered, Symbol
<1>3. Rest(x, 9, 8) = x % 2 /\ Group(x, 9, 1, 8) = (x \div 2) % 256
  BY Shifts8
<1> HIDE DEF x
<1>4. x % 2 = d % 2 /\ (x \div 2) % 256 = a * 16 + d \div 2
  BY <1>2 DEF Symbol
<1>. QED
  BY <1>1, <1>3, <1>4

LEMMA Widen1 ==
    ASSUME NEW r \in Seq(Nat), NEW d \in Symbol, NEW a \in 0 .. 1
    PROVE  ConvertStep(State(a, 1, r), d, 5, 8) = State(a * 32 + d, 6, r)
<1> DEFINE x == Gathered(a, d, 5)
<1>1. ConvertStep(State(a, 1, r), d, 5, 8) = State(Rest(x, 6, 8), 6, r)
  <2>1. 1 + 5 = 6 /\ (1 + 5) \div 8 = 0 /\ 6 % 8 = 6 /\ 1 \in Nat /\ 5 \in Nat /\ 8 \in Nat \ {0}
    OBVIOUS
  <2> HIDE DEF x
  <2>. QED
    BY <2>1, StepNone DEF x
<1>2. x = 32 * a + d
  BY Powers DEF Gathered, Symbol
<1>3. Rest(x, 6, 8) = x % 64
  BY Shifts8
<1> HIDE DEF x
<1>4. x % 64 = a * 32 + d
  BY <1>2 DEF Symbol
<1>. QED
  BY <1>1, <1>3, <1>4

LEMMA Widen6 ==
    ASSUME NEW r \in Seq(Nat), NEW d \in Symbol, NEW a \in 0 .. 63
    PROVE  ConvertStep(State(a, 6, r), d, 5, 8) = State(d % 8, 3, r \o <<a * 4 + d \div 8>>)
<1> DEFINE x == Gathered(a, d, 5)
<1>1. ConvertStep(State(a, 6, r), d, 5, 8) = State(Rest(x, 11, 8), 3, r \o <<Group(x, 11, 1, 8)>>)
  <2>1. 6 + 5 = 11 /\ (6 + 5) \div 8 = 1 /\ 11 % 8 = 3 /\ 6 \in Nat /\ 5 \in Nat /\ 8 \in Nat \ {0}
    OBVIOUS
  <2> HIDE DEF x
  <2>. QED
    BY <2>1, StepOne DEF x
<1>2. x = 32 * a + d
  BY Powers DEF Gathered, Symbol
<1>3. Rest(x, 11, 8) = x % 8 /\ Group(x, 11, 1, 8) = (x \div 8) % 256
  BY Shifts8
<1> HIDE DEF x
<1>4. x % 8 = d % 8 /\ (x \div 8) % 256 = a * 4 + d \div 8
  BY <1>2 DEF Symbol
<1>. QED
  BY <1>1, <1>3, <1>4

LEMMA Widen3 ==
    ASSUME NEW r \in Seq(Nat), NEW d \in Symbol, NEW a \in 0 .. 7
    PROVE  ConvertStep(State(a, 3, r), d, 5, 8) = State(0, 0, r \o <<a * 32 + d>>)
<1> DEFINE x == Gathered(a, d, 5)
<1>1. ConvertStep(State(a, 3, r), d, 5, 8) = State(Rest(x, 8, 8), 0, r \o <<Group(x, 8, 1, 8)>>)
  <2>1. 3 + 5 = 8 /\ (3 + 5) \div 8 = 1 /\ 8 % 8 = 0 /\ 3 \in Nat /\ 5 \in Nat /\ 8 \in Nat \ {0}
    OBVIOUS
  <2> HIDE DEF x
  <2>. QED
    BY <2>1, StepOne DEF x
<1>2. x = 32 * a + d
  BY Powers DEF Gathered, Symbol
<1>3. Rest(x, 8, 8) = x % 1 /\ Group(x, 8, 1, 8) = (x \div 1) % 256
  BY Shifts8
<1> HIDE DEF x
<1>4. x % 1 = 0 /\ (x \div 1) % 256 = a * 32 + d
  BY <1>2 DEF Symbol
<1>. QED
  BY <1>1, <1>3, <1>4

-----------------------------------------------------------------------------
(* Whole blocks: 5 bytes are 8 symbols.                                    *)

(* t begins with r. *)
Begins(r, t) == t \in Seq(Nat) /\ Len(r) <= Len(t) /\ \A j \in 1 .. Len(r) : t[j] = r[j]

(* What the result begins with stays: the loop only appends.               *)
LEMMA BeginsAgain == ASSUME NEW r \in Seq(Nat), NEW s, NEW t, Begins(r, s), Begins(s, t) PROVE Begins(r, t)
<1>1. Len(r) \in Nat /\ Len(s) \in Nat /\ Len(t) \in Nat
  BY DEF Begins
<1>2. ASSUME NEW j \in 1 .. Len(r) PROVE t[j] = r[j]
  <2>1. j \in 1 .. Len(s)
    BY <1>1 DEF Begins
  <2>. QED
    BY <2>1 DEF Begins
<1>. QED
  BY <1>1, <1>2 DEF Begins

(* One group is appended to the result.                                    *)
LEMMA PushOne ==
    ASSUME NEW r \in Seq(Nat), NEW x \in Nat
    PROVE  /\ r \o <<x>> \in Seq(Nat) /\ Len(r \o <<x>>) = Len(r) + 1 /\ Begins(r, r \o <<x>>)
           /\ (r \o <<x>>)[Len(r) + 1] = x
<1>1. r \o <<x>> \in Seq(Nat) /\ Len(r \o <<x>>) = Len(r) + 1
  OBVIOUS
<1>2. (\A j \in 1 .. Len(r) : (r \o <<x>>)[j] = r[j]) /\ (r \o <<x>>)[Len(r) + 1] = x
  OBVIOUS
<1>. QED
  BY <1>1, <1>2 DEF Begins

(* Two groups are appended to the result.                                  *)
LEMMA PushTwo ==
    ASSUME NEW r \in Seq(Nat), NEW x \in Nat, NEW y \in Nat
    PROVE  /\ r \o <<x, y>> \in Seq(Nat) /\ Len(r \o <<x, y>>) = Len(r) + 2 /\ Begins(r, r \o <<x, y>>)
           /\ (r \o <<x, y>>)[Len(r) + 1] = x /\ (r \o <<x, y>>)[Len(r) + 2] = y
<1>1. r \o <<x, y>> \in Seq(Nat) /\ Len(r \o <<x, y>>) = Len(r) + 2
  OBVIOUS
<1>2. \A j \in 1 .. Len(r) : (r \o <<x, y>>)[j] = r[j]
  OBVIOUS
<1>3. (r \o <<x, y>>)[Len(r) + 1] = x /\ (r \o <<x, y>>)[Len(r) + 2] = y
  OBVIOUS
<1>. QED
  BY <1>1, <1>2, <1>3 DEF Begins

LEMMA PushPush == ASSUME NEW r \in Seq(Nat), NEW x \in Nat, NEW y \in Nat PROVE Append(r \o <<x>>, y) = r \o <<x, y>>
<1> DEFINE u == r \o <<x>>
           s == Append(u, y)
           t == r \o <<x, y>>
<1>1. u \in Seq(Nat) /\ Len(u) = Len(r) + 1 /\ (\A j \in 1 .. Len(r) : u[j] = r[j]) /\ u[Len(r) + 1] = x
  BY PushOne DEF Begins
<1>2. t \in Seq(Nat) /\ Len(t) = Len(r) + 2 /\ (\A j \in 1 .. Len(r) : t[j] = r[j]) /\ t[Len(r) + 1] = x /\ t[Len(r) + 2] = y
  BY PushTwo DEF Begins
<1> HIDE DEF u, t
<1>3. s \in Seq(Nat) /\ Len(s) = Len(u) + 1 /\ (\A j \in 1 .. Len(u) : s[j] = u[j]) /\ s[Len(u) + 1] = y
  BY <1>1
<1> HIDE DEF s
<1>4. ASSUME NEW j \in 1 .. Len(s) PROVE s[j] = t[j]
  <2>1. Len(r) \in Nat /\ Len(u) = Len(r) + 1 /\ Len(s) = Len(r) + 2
    BY <1>1, <1>3
  <2>2. j \in 1 .. Len(r) \/ j = Len(r) + 1 \/ j = Len(r) + 2
    BY <2>1
  <2>3. CASE j \in 1 .. Len(r)
    <3>1. j \in 1 .. Len(u) /\ u[j] = r[j]
      BY <1>1, <2>1, <2>3
    <3>2. s[j] = u[j] /\ t[j] = r[j]
      BY <1>2, <1>3, <2>3, <3>1
    <3>. QED
      BY <3>1, <3>2
  <2>4. CASE j = Len(r) + 1
    <3>1. j \in 1 .. Len(u) /\ u[j] = x
      BY <1>1, <2>1, <2>4
    <3>2. s[j] = u[j] /\ t[j] = x
      BY <1>2, <1>3, <2>4, <3>1
    <3>. QED
      BY <3>1, <3>2
  <2>5. CASE j = Len(r) + 2
    <3>1. j = Len(u) + 1
      BY <2>1, <2>5
    <3>2. s[j] = y /\ t[j] = y
      BY <1>2, <1>3, <2>5, <3>1
    <3>. QED
      BY <3>2
  <2>. QED
    BY <2>2, <2>3, <2>4, <2>5
<1>5. Len(s) = Len(t)
  BY <1>1, <1>2, <1>3
<1>6. s = t
  BY <1>2, <1>3, <1>4, <1>5, SeqEqual
<1>. QED
  BY <1>6 DEF s, t, u

(* The symbols p + 1 to p + 8 of t are the bytes o + 1 to o + 5 of d. *)
NarrowBlock(t, p, d, o) ==
    /\ t[p + 1] = d[o + 1] \div 8
    /\ t[p + 2] = (d[o + 1] % 8) * 4 + d[o + 2] \div 64
    /\ t[p + 3] = (d[o + 2] \div 2) % 32
    /\ t[p + 4] = (d[o + 2] % 2) * 16 + d[o + 3] \div 16
    /\ t[p + 5] = (d[o + 3] % 16) * 2 + d[o + 4] \div 128
    /\ t[p + 6] = (d[o + 4] \div 4) % 32
    /\ t[p + 7] = (d[o + 4] % 4) * 8 + d[o + 5] \div 32
    /\ t[p + 8] = d[o + 5] % 32

(* The bytes o + 1 to o + 5 of u are the symbols p + 1 to p + 8 of c. *)
WidenBlock(u, o, c, p) ==
    /\ u[o + 1] = c[p + 1] * 8 + c[p + 2] \div 4
    /\ u[o + 2] = ((c[p + 2] % 4) * 32 + c[p + 3]) * 2 + c[p + 4] \div 16
    /\ u[o + 3] = (c[p + 4] % 16) * 16 + c[p + 5] \div 2
    /\ u[o + 4] = ((c[p + 5] % 2) * 32 + c[p + 6]) * 4 + c[p + 7] \div 8
    /\ u[o + 5] = (c[p + 7] % 8) * 32 + c[p + 8]

(* 5 bytes that became 8 symbols become the same 5 bytes again.            *)
LEMMA BlockBack ==
    ASSUME NEW d, NEW o \in Nat, NEW t, NEW p \in Nat, NEW u, NEW n \in Nat,
           \A k \in 1 .. 5 : d[o + k] \in Byte, NarrowBlock(t, p, d, o), WidenBlock(u, n, t, p)
    PROVE  \A k \in 1 .. 5 : u[n + k] = d[o + k]
<1> DEFINE d1 == d[o + 1]
           d2 == d[o + 2]
           d3 == d[o + 3]
           d4 == d[o + 4]
           d5 == d[o + 5]
<1>1. d1 \in Byte /\ d2 \in Byte /\ d3 \in Byte /\ d4 \in Byte /\ d5 \in Byte
  OBVIOUS
<1>2. /\ t[p + 1] = d1 \div 8 /\ t[p + 2] = (d1 % 8) * 4 + d2 \div 64 /\ t[p + 3] = (d2 \div 2) % 32
      /\ t[p + 4] = (d2 % 2) * 16 + d3 \div 16 /\ t[p + 5] = (d3 % 16) * 2 + d4 \div 128
      /\ t[p + 6] = (d4 \div 4) % 32 /\ t[p + 7] = (d4 % 4) * 8 + d5 \div 32 /\ t[p + 8] = d5 % 32
  BY DEF NarrowBlock
<1> HIDE DEF d1, d2, d3, d4, d5
<1>3. u[n + 1] = d1
  <2>1. (d1 \div 8) * 8 + ((d1 % 8) * 4 + d2 \div 64) \div 4 = d1
    BY <1>1 DEF Byte
  <2>. QED
    BY <1>2, <2>1 DEF WidenBlock
<1>4. u[n + 2] = d2
  <2>1. ((((d1 % 8) * 4 + d2 \div 64) % 4) * 32 + ((d2 \div 2) % 32)) * 2 + ((d2 % 2) * 16 + d3 \div 16) \div 16 = d2
    BY <1>1 DEF Byte
  <2>. QED
    BY <1>2, <2>1 DEF WidenBlock
<1>5. u[n + 3] = d3
  <2>1. (((d2 % 2) * 16 + d3 \div 16) % 16) * 16 + ((d3 % 16) * 2 + d4 \div 128) \div 2 = d3
    BY <1>1 DEF Byte
  <2>. QED
    BY <1>2, <2>1 DEF WidenBlock
<1>6. u[n + 4] = d4
  <2>1. ((((d3 % 16) * 2 + d4 \div 128) % 2) * 32 + ((d4 \div 4) % 32)) * 4 + ((d4 % 4) * 8 + d5 \div 32) \div 8 = d4
    BY <1>1 DEF Byte
  <2>. QED
    BY <1>2, <2>1 DEF WidenBlock
<1>7. u[n + 5] = d5
  <2>1. (((d4 % 4) * 8 + d5 \div 32) % 8) * 32 + (d5 % 32) = d5
    BY <1>1 DEF Byte
  <2>. QED
    BY <1>2, <2>1 DEF WidenBlock
<1>8. \A k \in 1 .. 5 : k \in {1, 2, 3, 4, 5}
  OBVIOUS
<1>. QED
  BY <1>3, <1>4, <1>5, <1>6, <1>7, <1>8 DEF d1, d2, d3, d4, d5

(* A block of 5 bytes, and one of 8 symbols, go through the loop. *)
LEMMA NarrowRun ==
    ASSUME NEW run, NEW d, NEW o \in Nat, NEW r \in Seq(Nat), run[o] = State(0, 0, r),
           \A k \in 1 .. 5 : d[o + k] \in Byte /\ run[o + k] = ConvertStep(run[o + k - 1], d[o + k], 8, 5)
    PROVE  \E t : run[o + 5] = State(0, 0, t) /\ Begins(r, t) /\ Len(t) = Len(r) + 8 /\ NarrowBlock(t, Len(r), d, o)
<1> DEFINE d1 == d[o + 1]
           d2 == d[o + 2]
           d3 == d[o + 3]
           d4 == d[o + 4]
           d5 == d[o + 5]
<1>0. d1 \in Byte /\ d2 \in Byte /\ d3 \in Byte /\ d4 \in Byte /\ d5 \in Byte /\ Len(r) \in Nat
  OBVIOUS
<1>1. /\ run[o + 1] = ConvertStep(run[o], d1, 8, 5)
      /\ run[o + 2] = ConvertStep(run[o + 1], d2, 8, 5)
      /\ run[o + 3] = ConvertStep(run[o + 2], d3, 8, 5)
      /\ run[o + 4] = ConvertStep(run[o + 3], d4, 8, 5)
      /\ run[o + 5] = ConvertStep(run[o + 4], d5, 8, 5)
  <2>1. o + 1 - 1 = o /\ o + 2 - 1 = o + 1 /\ o + 3 - 1 = o + 2 /\ o + 4 - 1 = o + 3 /\ o + 5 - 1 = o + 4
    OBVIOUS
  <2>. QED
    BY <2>1
<1> HIDE DEF d1, d2, d3, d4, d5
<1> DEFINE r1 == r \o <<d1 \div 8>>
<1>2. run[o + 1] = State(d1 % 8, 3, r1)
  BY <1>1, <1>0, Narrow0
<1>3. d1 \div 8 \in Nat
  BY <1>0 DEF Byte
<1>4. /\ r1 \in Seq(Nat) /\ Len(r1) = Len(r) + 1 /\ Begins(r, r1)
      /\ r1[Len(r) + 1] = d1 \div 8
  <2> DEFINE x1 == d1 \div 8
  <2>0. r \in Seq(Nat)
    OBVIOUS
  <2>1. x1 \in Nat
    BY <1>3
  <2> HIDE DEF x1
  <2> DEFINE s == r \o <<x1>>
  <2>2. /\ s \in Seq(Nat) /\ Len(s) = Len(r) + 1 /\ Begins(r, s)
        /\ s[Len(r) + 1] = x1
    BY <2>0, <2>1, PushOne
  <2>. QED
    BY <2>2 DEF x1
<1> HIDE DEF r1
<1>5. Len(r1) = Len(r) + 1 /\ r1[Len(r) + 1] = d1 \div 8
  BY <1>0, <1>4
<1> DEFINE r2 == r1 \o <<(d1 % 8) * 4 + d2 \div 64, (d2 \div 2) % 32>>
<1>6. d1 % 8 \in 0 .. 7
  BY <1>0 DEF Byte
<1>7. run[o + 2] = State(d2 % 2, 1, r2)
  <2> DEFINE a == d1 % 8
  <2>1. a \in 0 .. 7 /\ run[o + 1] = State(a, 3, r1)
    BY <1>6, <1>2
  <2> HIDE DEF a
  <2>2. a \in 0 .. 7 /\ d2 \in Byte /\ r1 \in Seq(Nat)
    BY <1>0, <2>1, <1>4
  <2>3. ConvertStep(State(a, 3, r1), d2, 8, 5) = State(d2 % 2, 1, r1 \o <<a * 4 + d2 \div 64, (d2 \div 2) % 32>>)
    BY ONLY <2>2, Narrow3, Zenon
  <2>. QED
    BY <1>1, <2>1, <2>3 DEF a
<1>8. (d1 % 8) * 4 + d2 \div 64 \in Nat /\ (d2 \div 2) % 32 \in Nat
  BY <1>0, <1>6 DEF Byte
<1>9. /\ r2 \in Seq(Nat) /\ Len(r2) = Len(r1) + 2 /\ Begins(r1, r2)
      /\ r2[Len(r1) + 1] = (d1 % 8) * 4 + d2 \div 64 /\ r2[Len(r1) + 2] = (d2 \div 2) % 32
  <2> DEFINE x1 == (d1 % 8) * 4 + d2 \div 64
             x2 == (d2 \div 2) % 32
  <2>0. r1 \in Seq(Nat)
    BY <1>4
  <2>1. x1 \in Nat /\ x2 \in Nat
    BY <1>8
  <2> HIDE DEF x1, x2
  <2> DEFINE s == r1 \o <<x1, x2>>
  <2>2. /\ s \in Seq(Nat) /\ Len(s) = Len(r1) + 2 /\ Begins(r1, s)
        /\ s[Len(r1) + 1] = x1 /\ s[Len(r1) + 2] = x2
    BY <2>0, <2>1, PushTwo
  <2>. QED
    BY <2>2 DEF x1, x2
<1> HIDE DEF r2
<1>10. Len(r2) = Len(r) + 3 /\ r2[Len(r) + 2] = (d1 % 8) * 4 + d2 \div 64 /\ r2[Len(r) + 3] = (d2 \div 2) % 32
  BY <1>0, <1>9, <1>5
<1> DEFINE r3 == r2 \o <<(d2 % 2) * 16 + d3 \div 16>>
<1>11. d2 % 2 \in 0 .. 1
  BY <1>0 DEF Byte
<1>12. run[o + 3] = State(d3 % 16, 4, r3)
  <2> DEFINE a == d2 % 2
  <2>1. a \in 0 .. 1 /\ run[o + 2] = State(a, 1, r2)
    BY <1>11, <1>7
  <2> HIDE DEF a
  <2>2. a \in 0 .. 1 /\ d3 \in Byte /\ r2 \in Seq(Nat)
    BY <1>0, <2>1, <1>9
  <2>3. ConvertStep(State(a, 1, r2), d3, 8, 5) = State(d3 % 16, 4, r2 \o <<a * 16 + d3 \div 16>>)
    BY ONLY <2>2, Narrow1, Zenon
  <2>. QED
    BY <1>1, <2>1, <2>3 DEF a
<1>13. (d2 % 2) * 16 + d3 \div 16 \in Nat
  BY <1>0, <1>11 DEF Byte
<1>14. /\ r3 \in Seq(Nat) /\ Len(r3) = Len(r2) + 1 /\ Begins(r2, r3)
      /\ r3[Len(r2) + 1] = (d2 % 2) * 16 + d3 \div 16
  <2> DEFINE x1 == (d2 % 2) * 16 + d3 \div 16
  <2>0. r2 \in Seq(Nat)
    BY <1>9
  <2>1. x1 \in Nat
    BY <1>13
  <2> HIDE DEF x1
  <2> DEFINE s == r2 \o <<x1>>
  <2>2. /\ s \in Seq(Nat) /\ Len(s) = Len(r2) + 1 /\ Begins(r2, s)
        /\ s[Len(r2) + 1] = x1
    BY <2>0, <2>1, PushOne
  <2>. QED
    BY <2>2 DEF x1
<1> HIDE DEF r3
<1>15. Len(r3) = Len(r) + 4 /\ r3[Len(r) + 4] = (d2 % 2) * 16 + d3 \div 16
  BY <1>0, <1>14, <1>10
<1> DEFINE r4 == r3 \o <<(d3 % 16) * 2 + d4 \div 128, (d4 \div 4) % 32>>
<1>16. d3 % 16 \in 0 .. 15
  BY <1>0 DEF Byte
<1>17. run[o + 4] = State(d4 % 4, 2, r4)
  <2> DEFINE a == d3 % 16
  <2>1. a \in 0 .. 15 /\ run[o + 3] = State(a, 4, r3)
    BY <1>16, <1>12
  <2> HIDE DEF a
  <2>2. a \in 0 .. 15 /\ d4 \in Byte /\ r3 \in Seq(Nat)
    BY <1>0, <2>1, <1>14
  <2>3. ConvertStep(State(a, 4, r3), d4, 8, 5) = State(d4 % 4, 2, r3 \o Pair4(a, d4))
    BY ONLY <2>2, Narrow4, Zenon
  <2>. QED
    BY <1>1, <2>1, <2>3 DEF a, Pair4
<1>18. (d3 % 16) * 2 + d4 \div 128 \in Nat /\ (d4 \div 4) % 32 \in Nat
  BY <1>0, <1>16 DEF Byte
<1>19. /\ r4 \in Seq(Nat) /\ Len(r4) = Len(r3) + 2 /\ Begins(r3, r4)
      /\ r4[Len(r3) + 1] = (d3 % 16) * 2 + d4 \div 128 /\ r4[Len(r3) + 2] = (d4 \div 4) % 32
  <2> DEFINE x1 == (d3 % 16) * 2 + d4 \div 128
             x2 == (d4 \div 4) % 32
  <2>0. r3 \in Seq(Nat)
    BY <1>14
  <2>1. x1 \in Nat /\ x2 \in Nat
    BY <1>18
  <2> HIDE DEF x1, x2
  <2> DEFINE s == r3 \o <<x1, x2>>
  <2>2. /\ s \in Seq(Nat) /\ Len(s) = Len(r3) + 2 /\ Begins(r3, s)
        /\ s[Len(r3) + 1] = x1 /\ s[Len(r3) + 2] = x2
    BY <2>0, <2>1, PushTwo
  <2>. QED
    BY <2>2 DEF x1, x2
<1> HIDE DEF r4
<1>20. Len(r4) = Len(r) + 6 /\ r4[Len(r) + 5] = (d3 % 16) * 2 + d4 \div 128 /\ r4[Len(r) + 6] = (d4 \div 4) % 32
  BY <1>0, <1>19, <1>15
<1> DEFINE r5 == r4 \o <<(d4 % 4) * 8 + d5 \div 32, d5 % 32>>
<1>21. d4 % 4 \in 0 .. 3
  BY <1>0 DEF Byte
<1>22. run[o + 5] = State(0, 0, r5)
  <2> DEFINE a == d4 % 4
  <2>1. a \in 0 .. 3 /\ run[o + 4] = State(a, 2, r4)
    BY <1>21, <1>17
  <2> HIDE DEF a
  <2>2. a \in 0 .. 3 /\ d5 \in Byte /\ r4 \in Seq(Nat)
    BY <1>0, <2>1, <1>19
  <2>3. ConvertStep(State(a, 2, r4), d5, 8, 5) = State(0, 0, r4 \o <<a * 8 + d5 \div 32, d5 % 32>>)
    BY ONLY <2>2, Narrow2, Zenon
  <2>. QED
    BY <1>1, <2>1, <2>3 DEF a
<1>23. (d4 % 4) * 8 + d5 \div 32 \in Nat /\ d5 % 32 \in Nat
  BY <1>0, <1>21 DEF Byte
<1>24. /\ r5 \in Seq(Nat) /\ Len(r5) = Len(r4) + 2 /\ Begins(r4, r5)
      /\ r5[Len(r4) + 1] = (d4 % 4) * 8 + d5 \div 32 /\ r5[Len(r4) + 2] = d5 % 32
  <2> DEFINE x1 == (d4 % 4) * 8 + d5 \div 32
             x2 == d5 % 32
  <2>0. r4 \in Seq(Nat)
    BY <1>19
  <2>1. x1 \in Nat /\ x2 \in Nat
    BY <1>23
  <2> HIDE DEF x1, x2
  <2> DEFINE s == r4 \o <<x1, x2>>
  <2>2. /\ s \in Seq(Nat) /\ Len(s) = Len(r4) + 2 /\ Begins(r4, s)
        /\ s[Len(r4) + 1] = x1 /\ s[Len(r4) + 2] = x2
    BY <2>0, <2>1, PushTwo
  <2>. QED
    BY <2>2 DEF x1, x2
<1> HIDE DEF r5
<1>25. Len(r5) = Len(r) + 8 /\ r5[Len(r) + 7] = (d4 % 4) * 8 + d5 \div 32 /\ r5[Len(r) + 8] = d5 % 32
  BY <1>0, <1>24, <1>20
<1>26. Begins(r, r5) /\ Begins(r1, r5) /\ Begins(r2, r5) /\ Begins(r3, r5) /\ Begins(r4, r5)
  <2>1. Begins(r4, r5)
    BY <1>19, <1>24, BeginsAgain
  <2>2. Begins(r3, r5)
    BY <1>14, <1>19, <2>1, BeginsAgain
  <2>3. Begins(r2, r5)
    BY <1>9, <1>14, <2>2, BeginsAgain
  <2>4. Begins(r1, r5)
    BY <1>4, <1>9, <2>3, BeginsAgain
  <2>5. Begins(r, r5)
    BY <1>4, <2>4, BeginsAgain
  <2>. QED
    BY <2>1, <2>2, <2>3, <2>4, <2>5
<1>27. r5[Len(r) + 1] = d1 \div 8
  <2>1. Len(r) + 1 \in 1 .. Len(r1)
    BY <1>0, <1>5
  <2>. QED
    BY <1>5, <1>26, <2>1 DEF Begins
<1>28. r5[Len(r) + 2] = (d1 % 8) * 4 + d2 \div 64 /\ r5[Len(r) + 3] = (d2 \div 2) % 32
  <2>1. Len(r) + 2 \in 1 .. Len(r2) /\ Len(r) + 3 \in 1 .. Len(r2)
    BY <1>0, <1>10
  <2>. QED
    BY <1>10, <1>26, <2>1 DEF Begins
<1>29. r5[Len(r) + 4] = (d2 % 2) * 16 + d3 \div 16
  <2>1. Len(r) + 4 \in 1 .. Len(r3)
    BY <1>0, <1>15
  <2>. QED
    BY <1>15, <1>26, <2>1 DEF Begins
<1>30. r5[Len(r) + 5] = (d3 % 16) * 2 + d4 \div 128 /\ r5[Len(r) + 6] = (d4 \div 4) % 32
  <2>1. Len(r) + 5 \in 1 .. Len(r4) /\ Len(r) + 6 \in 1 .. Len(r4)
    BY <1>0, <1>20
  <2>. QED
    BY <1>20, <1>26, <2>1 DEF Begins
<1>31. r5[Len(r) + 7] = (d4 % 4) * 8 + d5 \div 32 /\ r5[Len(r) + 8] = d5 % 32
  BY <1>25
<1>32. NarrowBlock(r5, Len(r), d, o)
  BY <1>27, <1>28, <1>29, <1>30, <1>31 DEF NarrowBlock, d1, d2, d3, d4, d5
<1>. QED
  BY <1>22, <1>25, <1>26, <1>32

LEMMA WidenRun ==
    ASSUME NEW run, NEW d, NEW o \in Nat, NEW r \in Seq(Nat), run[o] = State(0, 0, r),
           \A k \in 1 .. 8 : d[o + k] \in Symbol /\ run[o + k] = ConvertStep(run[o + k - 1], d[o + k], 5, 8)
    PROVE  \E t : run[o + 8] = State(0, 0, t) /\ Begins(r, t) /\ Len(t) = Len(r) + 5 /\ WidenBlock(t, Len(r), d, o)
<1> DEFINE d1 == d[o + 1]
           d2 == d[o + 2]
           d3 == d[o + 3]
           d4 == d[o + 4]
           d5 == d[o + 5]
           d6 == d[o + 6]
           d7 == d[o + 7]
           d8 == d[o + 8]
<1>0. d1 \in Symbol /\ d2 \in Symbol /\ d3 \in Symbol /\ d4 \in Symbol /\ d5 \in Symbol /\
      d6 \in Symbol /\ d7 \in Symbol /\ d8 \in Symbol /\ Len(r) \in Nat
  OBVIOUS
<1>1. /\ run[o + 1] = ConvertStep(run[o], d1, 5, 8)
      /\ run[o + 2] = ConvertStep(run[o + 1], d2, 5, 8)
      /\ run[o + 3] = ConvertStep(run[o + 2], d3, 5, 8)
      /\ run[o + 4] = ConvertStep(run[o + 3], d4, 5, 8)
      /\ run[o + 5] = ConvertStep(run[o + 4], d5, 5, 8)
      /\ run[o + 6] = ConvertStep(run[o + 5], d6, 5, 8)
      /\ run[o + 7] = ConvertStep(run[o + 6], d7, 5, 8)
      /\ run[o + 8] = ConvertStep(run[o + 7], d8, 5, 8)
  <2>1. o + 1 - 1 = o /\ o + 2 - 1 = o + 1 /\ o + 3 - 1 = o + 2 /\ o + 4 - 1 = o + 3 /\
        o + 5 - 1 = o + 4 /\ o + 6 - 1 = o + 5 /\ o + 7 - 1 = o + 6 /\ o + 8 - 1 = o + 7
    OBVIOUS
  <2>. QED
    BY <2>1
<1> HIDE DEF d1, d2, d3, d4, d5, d6, d7, d8
<1>2. run[o + 1] = State(d1, 5, r)
  BY <1>1, <1>0, Widen0
<1> DEFINE r2 == r \o <<d1 * 8 + d2 \div 4>>
<1>3. d1 \in 0 .. 31
  BY <1>0 DEF Symbol
<1>4. run[o + 2] = State(d2 % 4, 2, r2)
  <2> DEFINE a == d1
  <2>1. a \in 0 .. 31 /\ run[o + 1] = State(a, 5, r)
    BY <1>3, <1>2
  <2> HIDE DEF a
  <2>2. ConvertStep(State(a, 5, r), d2, 5, 8) = State(d2 % 4, 2, r \o <<a * 8 + d2 \div 4>>)
    BY <1>0, <2>1, Widen5
  <2>. QED
    BY <1>1, <2>1, <2>2 DEF a
<1>5. d1 * 8 + d2 \div 4 \in Nat
  BY <1>0, <1>3 DEF Symbol
<1>6. /\ r2 \in Seq(Nat) /\ Len(r2) = Len(r) + 1 /\ Begins(r, r2)
      /\ r2[Len(r) + 1] = d1 * 8 + d2 \div 4
  <2> DEFINE x1 == d1 * 8 + d2 \div 4
  <2>0. r \in Seq(Nat)
    OBVIOUS
  <2>1. x1 \in Nat
    BY <1>5
  <2> HIDE DEF x1
  <2> DEFINE s == r \o <<x1>>
  <2>2. /\ s \in Seq(Nat) /\ Len(s) = Len(r) + 1 /\ Begins(r, s)
        /\ s[Len(r) + 1] = x1
    BY <2>0, <2>1, PushOne
  <2>. QED
    BY <2>2 DEF x1
<1> HIDE DEF r2
<1>7. Len(r2) = Len(r) + 1 /\ r2[Len(r) + 1] = d1 * 8 + d2 \div 4
  BY <1>0, <1>6
<1>8. d2 % 4 \in 0 .. 3
  BY <1>0 DEF Symbol
<1>9. run[o + 3] = State((d2 % 4) * 32 + d3, 7, r2)
  <2> DEFINE a == d2 % 4
  <2>1. a \in 0 .. 3 /\ run[o + 2] = State(a, 2, r2)
    BY <1>8, <1>4
  <2> HIDE DEF a
  <2>2. a \in 0 .. 3 /\ d3 \in Symbol /\ r2 \in Seq(Nat)
    BY <1>0, <2>1, <1>6
  <2>3. ConvertStep(State(a, 2, r2), d3, 5, 8) = State(a * 32 + d3, 7, r2)
    BY ONLY <2>2, Widen2, Zenon
  <2>. QED
    BY <1>1, <2>1, <2>3 DEF a
<1> DEFINE r4 == r2 \o <<((d2 % 4) * 32 + d3) * 2 + d4 \div 16>>
<1>10. (d2 % 4) * 32 + d3 \in 0 .. 127
  BY <1>0 DEF Symbol
<1>11. run[o + 4] = State(d4 % 16, 4, r4)
  <2> DEFINE a == (d2 % 4) * 32 + d3
  <2>1. a \in 0 .. 127 /\ run[o + 3] = State(a, 7, r2)
    BY <1>10, <1>9
  <2> HIDE DEF a
  <2>2. a \in 0 .. 127 /\ d4 \in Symbol /\ r2 \in Seq(Nat)
    BY <1>0, <2>1, <1>6
  <2>3. ConvertStep(State(a, 7, r2), d4, 5, 8) = State(d4 % 16, 4, r2 \o <<a * 2 + d4 \div 16>>)
    BY ONLY <2>2, Widen7, Zenon
  <2>. QED
    BY <1>1, <2>1, <2>3 DEF a
<1>12. ((d2 % 4) * 32 + d3) * 2 + d4 \div 16 \in Nat
  BY <1>0, <1>10 DEF Symbol
<1>13. /\ r4 \in Seq(Nat) /\ Len(r4) = Len(r2) + 1 /\ Begins(r2, r4)
      /\ r4[Len(r2) + 1] = ((d2 % 4) * 32 + d3) * 2 + d4 \div 16
  <2> DEFINE x1 == ((d2 % 4) * 32 + d3) * 2 + d4 \div 16
  <2>0. r2 \in Seq(Nat)
    BY <1>6
  <2>1. x1 \in Nat
    BY <1>12
  <2> HIDE DEF x1
  <2> DEFINE s == r2 \o <<x1>>
  <2>2. /\ s \in Seq(Nat) /\ Len(s) = Len(r2) + 1 /\ Begins(r2, s)
        /\ s[Len(r2) + 1] = x1
    BY <2>0, <2>1, PushOne
  <2>. QED
    BY <2>2 DEF x1
<1> HIDE DEF r4
<1>14. Len(r4) = Len(r) + 2 /\ r4[Len(r) + 2] = ((d2 % 4) * 32 + d3) * 2 + d4 \div 16
  BY <1>0, <1>13, <1>7
<1> DEFINE r5 == r4 \o <<(d4 % 16) * 16 + d5 \div 2>>
<1>15. d4 % 16 \in 0 .. 15
  BY <1>0 DEF Symbol
<1>16. run[o + 5] = State(d5 % 2, 1, r5)
  <2> DEFINE a == d4 % 16
  <2>1. a \in 0 .. 15 /\ run[o + 4] = State(a, 4, r4)
    BY <1>15, <1>11
  <2> HIDE DEF a
  <2>2. a \in 0 .. 15 /\ d5 \in Symbol /\ r4 \in Seq(Nat)
    BY <1>0, <2>1, <1>13
  <2>3. ConvertStep(State(a, 4, r4), d5, 5, 8) = State(d5 % 2, 1, r4 \o <<a * 16 + d5 \div 2>>)
    BY ONLY <2>2, Widen4, Zenon
  <2>. QED
    BY <1>1, <2>1, <2>3 DEF a
<1>17. (d4 % 16) * 16 + d5 \div 2 \in Nat
  BY <1>0, <1>15 DEF Symbol
<1>18. /\ r5 \in Seq(Nat) /\ Len(r5) = Len(r4) + 1 /\ Begins(r4, r5)
      /\ r5[Len(r4) + 1] = (d4 % 16) * 16 + d5 \div 2
  <2> DEFINE x1 == (d4 % 16) * 16 + d5 \div 2
  <2>0. r4 \in Seq(Nat)
    BY <1>13
  <2>1. x1 \in Nat
    BY <1>17
  <2> HIDE DEF x1
  <2> DEFINE s == r4 \o <<x1>>
  <2>2. /\ s \in Seq(Nat) /\ Len(s) = Len(r4) + 1 /\ Begins(r4, s)
        /\ s[Len(r4) + 1] = x1
    BY <2>0, <2>1, PushOne
  <2>. QED
    BY <2>2 DEF x1
<1> HIDE DEF r5
<1>19. Len(r5) = Len(r) + 3 /\ r5[Len(r) + 3] = (d4 % 16) * 16 + d5 \div 2
  BY <1>0, <1>18, <1>14
<1>20. d5 % 2 \in 0 .. 1
  BY <1>0 DEF Symbol
<1>21. run[o + 6] = State((d5 % 2) * 32 + d6, 6, r5)
  <2> DEFINE a == d5 % 2
  <2>1. a \in 0 .. 1 /\ run[o + 5] = State(a, 1, r5)
    BY <1>20, <1>16
  <2> HIDE DEF a
  <2>2. a \in 0 .. 1 /\ d6 \in Symbol /\ r5 \in Seq(Nat)
    BY <1>0, <2>1, <1>18
  <2>3. ConvertStep(State(a, 1, r5), d6, 5, 8) = State(a * 32 + d6, 6, r5)
    BY ONLY <2>2, Widen1, Zenon
  <2>. QED
    BY <1>1, <2>1, <2>3 DEF a
<1> DEFINE r7 == r5 \o <<((d5 % 2) * 32 + d6) * 4 + d7 \div 8>>
<1>22. (d5 % 2) * 32 + d6 \in 0 .. 63
  BY <1>0 DEF Symbol
<1>23. run[o + 7] = State(d7 % 8, 3, r7)
  <2> DEFINE a == (d5 % 2) * 32 + d6
  <2>1. a \in 0 .. 63 /\ run[o + 6] = State(a, 6, r5)
    BY <1>22, <1>21
  <2> HIDE DEF a
  <2>2. a \in 0 .. 63 /\ d7 \in Symbol /\ r5 \in Seq(Nat)
    BY <1>0, <2>1, <1>18
  <2>3. ConvertStep(State(a, 6, r5), d7, 5, 8) = State(d7 % 8, 3, r5 \o <<a * 4 + d7 \div 8>>)
    BY ONLY <2>2, Widen6, Zenon
  <2>. QED
    BY <1>1, <2>1, <2>3 DEF a
<1>24. ((d5 % 2) * 32 + d6) * 4 + d7 \div 8 \in Nat
  BY <1>0, <1>22 DEF Symbol
<1>25. /\ r7 \in Seq(Nat) /\ Len(r7) = Len(r5) + 1 /\ Begins(r5, r7)
      /\ r7[Len(r5) + 1] = ((d5 % 2) * 32 + d6) * 4 + d7 \div 8
  <2> DEFINE x1 == ((d5 % 2) * 32 + d6) * 4 + d7 \div 8
  <2>0. r5 \in Seq(Nat)
    BY <1>18
  <2>1. x1 \in Nat
    BY <1>24
  <2> HIDE DEF x1
  <2> DEFINE s == r5 \o <<x1>>
  <2>2. /\ s \in Seq(Nat) /\ Len(s) = Len(r5) + 1 /\ Begins(r5, s)
        /\ s[Len(r5) + 1] = x1
    BY <2>0, <2>1, PushOne
  <2>. QED
    BY <2>2 DEF x1
<1> HIDE DEF r7
<1>26. Len(r7) = Len(r) + 4 /\ r7[Len(r) + 4] = ((d5 % 2) * 32 + d6) * 4 + d7 \div 8
  BY <1>0, <1>25, <1>19
<1> DEFINE r8 == r7 \o <<(d7 % 8) * 32 + d8>>
<1>27. d7 % 8 \in 0 .. 7
  BY <1>0 DEF Symbol
<1>28. run[o + 8] = State(0, 0, r8)
  <2> DEFINE a == d7 % 8
  <2>1. a \in 0 .. 7 /\ run[o + 7] = State(a, 3, r7)
    BY <1>27, <1>23
  <2> HIDE DEF a
  <2>2. a \in 0 .. 7 /\ d8 \in Symbol /\ r7 \in Seq(Nat)
    BY <1>0, <2>1, <1>25
  <2>3. ConvertStep(State(a, 3, r7), d8, 5, 8) = State(0, 0, r7 \o <<a * 32 + d8>>)
    BY ONLY <2>2, Widen3, Zenon
  <2>. QED
    BY <1>1, <2>1, <2>3 DEF a
<1>29. (d7 % 8) * 32 + d8 \in Nat
  BY <1>0, <1>27 DEF Symbol
<1>30. /\ r8 \in Seq(Nat) /\ Len(r8) = Len(r7) + 1 /\ Begins(r7, r8)
      /\ r8[Len(r7) + 1] = (d7 % 8) * 32 + d8
  <2> DEFINE x1 == (d7 % 8) * 32 + d8
  <2>0. r7 \in Seq(Nat)
    BY <1>25
  <2>1. x1 \in Nat
    BY <1>29
  <2> HIDE DEF x1
  <2> DEFINE s == r7 \o <<x1>>
  <2>2. /\ s \in Seq(Nat) /\ Len(s) = Len(r7) + 1 /\ Begins(r7, s)
        /\ s[Len(r7) + 1] = x1
    BY <2>0, <2>1, PushOne
  <2>. QED
    BY <2>2 DEF x1
<1> HIDE DEF r8
<1>31. Len(r8) = Len(r) + 5 /\ r8[Len(r) + 5] = (d7 % 8) * 32 + d8
  BY <1>0, <1>30, <1>26
<1>32. Begins(r, r8) /\ Begins(r2, r8) /\ Begins(r4, r8) /\ Begins(r5, r8) /\ Begins(r7, r8)
  <2>1. Begins(r7, r8)
    BY <1>25, <1>30, BeginsAgain
  <2>2. Begins(r5, r8)
    BY <1>18, <1>25, <2>1, BeginsAgain
  <2>3. Begins(r4, r8)
    BY <1>13, <1>18, <2>2, BeginsAgain
  <2>4. Begins(r2, r8)
    BY <1>6, <1>13, <2>3, BeginsAgain
  <2>5. Begins(r, r8)
    BY <1>6, <2>4, BeginsAgain
  <2>. QED
    BY <2>1, <2>2, <2>3, <2>4, <2>5
<1>33. r8[Len(r) + 1] = d1 * 8 + d2 \div 4
  <2>1. Len(r) + 1 \in 1 .. Len(r2)
    BY <1>0, <1>7
  <2>. QED
    BY <1>7, <1>32, <2>1 DEF Begins
<1>34. r8[Len(r) + 2] = ((d2 % 4) * 32 + d3) * 2 + d4 \div 16
  <2>1. Len(r) + 2 \in 1 .. Len(r4)
    BY <1>0, <1>14
  <2>. QED
    BY <1>14, <1>32, <2>1 DEF Begins
<1>35. r8[Len(r) + 3] = (d4 % 16) * 16 + d5 \div 2
  <2>1. Len(r) + 3 \in 1 .. Len(r5)
    BY <1>0, <1>19
  <2>. QED
    BY <1>19, <1>32, <2>1 DEF Begins
<1>36. r8[Len(r) + 4] = ((d5 % 2) * 32 + d6) * 4 + d7 \div 8
  <2>1. Len(r) + 4 \in 1 .. Len(r7)
    BY <1>0, <1>26
  <2>. QED
    BY <1>26, <1>32, <2>1 DEF Begins
<1>37. r8[Len(r) + 5] = (d7 % 8) * 32 + d8
  BY <1>31
<1>38. WidenBlock(r8, Len(r), d, o)
  BY <1>33, <1>34, <1>35, <1>36, <1>37 DEF WidenBlock, d1, d2, d3, d4, d5, d6, d7, d8
<1>. QED
  BY <1>28, <1>31, <1>32, <1>38

(* A block of symbols stays in a result that grows.                        *)
LEMMA NarrowKept ==
    ASSUME NEW r \in Seq(Nat), NEW t, Begins(r, t), NEW p \in Nat, p + 8 <= Len(r), NEW d, NEW o, NarrowBlock(r, p, d, o)
    PROVE  NarrowBlock(t, p, d, o)
<1>1. \A k \in 1 .. 8 : p + k \in 1 .. Len(r)
  OBVIOUS
<1>2. p + 1 \in 1 .. Len(r) /\ p + 2 \in 1 .. Len(r) /\ p + 3 \in 1 .. Len(r) /\
      p + 4 \in 1 .. Len(r) /\ p + 5 \in 1 .. Len(r) /\ p + 6 \in 1 .. Len(r) /\
      p + 7 \in 1 .. Len(r) /\ p + 8 \in 1 .. Len(r)
  BY <1>1
<1>3. t[p + 1] = r[p + 1] /\ t[p + 2] = r[p + 2] /\ t[p + 3] = r[p + 3] /\ t[p + 4] = r[p + 4] /\
      t[p + 5] = r[p + 5] /\ t[p + 6] = r[p + 6] /\ t[p + 7] = r[p + 7] /\ t[p + 8] = r[p + 8]
  BY <1>2 DEF Begins
<1>. QED
  BY <1>3 DEF NarrowBlock

NarrowTo(run, d, q, t) ==
    /\ run[5 * q] = State(0, 0, t) /\ t \in Seq(Nat) /\ Len(t) = 8 * q
    /\ \A b \in 0 .. q - 1 : NarrowBlock(t, 8 * b, d, 5 * b)

(* The next 5 bytes make the next block of 8 symbols.                      *)
LEMMA NarrowNext ==
    ASSUME NEW run, NEW d, NEW q \in Nat, NEW r, NarrowTo(run, d, q, r),
           \A k \in 1 .. 5 : /\ d[5 * q + k] \in Byte
                              /\ run[5 * q + k] = ConvertStep(run[5 * q + k - 1], d[5 * q + k], 8, 5)
    PROVE  \E t : NarrowTo(run, d, q + 1, t)
<1>1. 5 * q \in Nat /\ run[5 * q] = State(0, 0, r) /\ r \in Seq(Nat) /\ Len(r) = 8 * q
  BY DEF NarrowTo
<1> DEFINE o == 5 * q
<1>2. \A k \in 1 .. 5 : d[o + k] \in Byte /\ run[o + k] = ConvertStep(run[o + k - 1], d[o + k], 8, 5)
  OBVIOUS
<1>3. o \in Nat /\ run[o] = State(0, 0, r)
  BY <1>1
<1> HIDE DEF o
<1>4. PICK t : run[o + 5] = State(0, 0, t) /\ Begins(r, t) /\ Len(t) = Len(r) + 8 /\ NarrowBlock(t, Len(r), d, o)
  BY <1>1, <1>2, <1>3, NarrowRun
<1>5. 5 * (q + 1) = o + 5 /\ t \in Seq(Nat) /\ Len(t) = 8 * (q + 1)
  BY <1>1, <1>4 DEF o, Begins
<1>6. ASSUME NEW b \in 0 .. q PROVE NarrowBlock(t, 8 * b, d, 5 * b)
  <2>1. CASE b = q
    BY <1>1, <1>4, <2>1 DEF o
  <2>2. CASE b # q
    <3>1. b \in 0 .. q - 1 /\ 8 * b \in Nat /\ 8 * b + 8 <= Len(r)
      BY <1>1, <2>2
    <3>2. NarrowBlock(r, 8 * b, d, 5 * b)
      BY <3>1 DEF NarrowTo
    <3> DEFINE p == 8 * b
    <3>3. p \in Nat /\ p + 8 <= Len(r) /\ NarrowBlock(r, p, d, 5 * b)
      BY <3>1, <3>2
    <3> HIDE DEF p
    <3>4. NarrowBlock(t, p, d, 5 * b)
      BY <1>1, <1>4, <3>3, NarrowKept
    <3>. QED
      BY <3>4 DEF p
  <2>. QED
    BY <2>1, <2>2
<1>7. \A b \in 0 .. (q + 1) - 1 : NarrowBlock(t, 8 * b, d, 5 * b)
  BY <1>6
<1>8. NarrowTo(run, d, q + 1, t)
  BY <1>4, <1>5, <1>7 DEF NarrowTo
<1>. QED
  BY <1>8

(* A block of bytes stays in a result that grows.                          *)
LEMMA WidenKept ==
    ASSUME NEW r \in Seq(Nat), NEW t, Begins(r, t), NEW p \in Nat, p + 5 <= Len(r), NEW d, NEW o, WidenBlock(r, p, d, o)
    PROVE  WidenBlock(t, p, d, o)
<1>1. \A k \in 1 .. 5 : p + k \in 1 .. Len(r)
  OBVIOUS
<1>2. p + 1 \in 1 .. Len(r) /\ p + 2 \in 1 .. Len(r) /\ p + 3 \in 1 .. Len(r) /\
      p + 4 \in 1 .. Len(r) /\ p + 5 \in 1 .. Len(r)
  BY <1>1
<1>3. t[p + 1] = r[p + 1] /\ t[p + 2] = r[p + 2] /\ t[p + 3] = r[p + 3] /\ t[p + 4] = r[p + 4] /\ t[p + 5] = r[p + 5]
  BY <1>2 DEF Begins
<1>. QED
  BY <1>3 DEF WidenBlock

WidenTo(run, d, q, t) ==
    /\ run[8 * q] = State(0, 0, t) /\ t \in Seq(Nat) /\ Len(t) = 5 * q
    /\ \A b \in 0 .. q - 1 : WidenBlock(t, 5 * b, d, 8 * b)

(* The next 8 symbols make the next block of 5 bytes.                      *)
LEMMA WidenNext ==
    ASSUME NEW run, NEW d, NEW q \in Nat, NEW r, WidenTo(run, d, q, r),
           \A k \in 1 .. 8 : /\ d[8 * q + k] \in Symbol
                              /\ run[8 * q + k] = ConvertStep(run[8 * q + k - 1], d[8 * q + k], 5, 8)
    PROVE  \E t : WidenTo(run, d, q + 1, t)
<1>1. 8 * q \in Nat /\ run[8 * q] = State(0, 0, r) /\ r \in Seq(Nat) /\ Len(r) = 5 * q
  BY DEF WidenTo
<1> DEFINE o == 8 * q
<1>2. \A k \in 1 .. 8 : d[o + k] \in Symbol /\ run[o + k] = ConvertStep(run[o + k - 1], d[o + k], 5, 8)
  OBVIOUS
<1>3. o \in Nat /\ run[o] = State(0, 0, r)
  BY <1>1
<1> HIDE DEF o
<1>4. PICK t : run[o + 8] = State(0, 0, t) /\ Begins(r, t) /\ Len(t) = Len(r) + 5 /\ WidenBlock(t, Len(r), d, o)
  BY <1>1, <1>2, <1>3, WidenRun
<1>5. 8 * (q + 1) = o + 8 /\ t \in Seq(Nat) /\ Len(t) = 5 * (q + 1)
  BY <1>1, <1>4 DEF o, Begins
<1>6. ASSUME NEW b \in 0 .. q PROVE WidenBlock(t, 5 * b, d, 8 * b)
  <2>1. CASE b = q
    BY <1>1, <1>4, <2>1 DEF o
  <2>2. CASE b # q
    <3>1. b \in 0 .. q - 1 /\ 5 * b \in Nat /\ 5 * b + 5 <= Len(r)
      BY <1>1, <2>2
    <3>2. WidenBlock(r, 5 * b, d, 8 * b)
      BY <3>1 DEF WidenTo
    <3> DEFINE p == 5 * b
    <3>3. p \in Nat /\ p + 5 <= Len(r) /\ WidenBlock(r, p, d, 8 * b)
      BY <3>1, <3>2
    <3> HIDE DEF p
    <3>4. WidenBlock(t, p, d, 8 * b)
      BY <1>1, <1>4, <3>3, WidenKept
    <3>. QED
      BY <3>4 DEF p
  <2>. QED
    BY <2>1, <2>2
<1>7. \A b \in 0 .. (q + 1) - 1 : WidenBlock(t, 5 * b, d, 8 * b)
  BY <1>6
<1>8. WidenTo(run, d, q + 1, t)
  BY <1>4, <1>5, <1>7 DEF WidenTo
<1>. QED
  BY <1>8

(* d is a sequence of n groups of bits. *)
Groups(d, n, S) == d \in Seq(Nat) /\ Len(d) = n /\ \A i \in 1 .. n : d[i] \in S

(* 21 bytes become 34 symbols: 4 blocks, and the last byte with two zeros. *)
LEMMA NarrowAll ==
    ASSUME NEW d, Groups(d, 21, Byte)
    PROVE  /\ convert(d, 8, 5) \in Seq(Nat) /\ Len(convert(d, 8, 5)) = 34
           /\ \A b \in 0 .. 3 : NarrowBlock(convert(d, 8, 5), 8 * b, d, 5 * b)
           /\ convert(d, 8, 5)[33] = d[21] \div 8 /\ convert(d, 8, 5)[34] = (d[21] % 8) * 4
<1> DEFINE run == ConvertRun(d, 8, 5)
<1>1. d \in Seq(Nat) /\ \A i \in 1 .. 21 : d[i] \in Byte
  BY DEF Groups
<1>0. 21 = Len(d)
  BY DEF Groups
<1>2. run[0] = State(0, 0, << >>) /\ \A i \in 1 .. 21 : run[i] = ConvertStep(run[i - 1], d[i], 8, 5)
  BY <1>0, <1>1, ConvertRuns DEF State
<1>3. convert(d, 8, 5) = ConvertResult(run[21], 8, 5)
  BY <1>0, ConvertEnd
<1> HIDE DEF run
<1>4. ASSUME NEW q \in 0 .. 3
      PROVE  \A k \in 1 .. 5 : d[5 * q + k] \in Byte /\ run[5 * q + k] = ConvertStep(run[5 * q + k - 1], d[5 * q + k], 8, 5)
  <2> TAKE k \in 1 .. 5
  <2> DEFINE i == 5 * q + k
  <2>1. i \in 1 .. 21
    OBVIOUS
  <2> HIDE DEF i
  <2>2. d[i] \in Byte /\ run[i] = ConvertStep(run[i - 1], d[i], 8, 5)
    BY <1>1, <1>2, <2>1
  <2>. QED
    BY <2>2 DEF i
<1>5. NarrowTo(run, d, 0, << >>)
  BY <1>2 DEF NarrowTo
<1>6. ASSUME NEW q \in 0 .. 3, \E t : NarrowTo(run, d, q, t) PROVE \E t : NarrowTo(run, d, q + 1, t)
  BY <1>4, <1>6, NarrowNext
<1>7. \E t : NarrowTo(run, d, 1, t)
  BY <1>5, <1>6
<1>8. \E t : NarrowTo(run, d, 2, t)
  BY <1>6, <1>7
<1>9. PICK r : NarrowTo(run, d, 4, r)
  <2>1. \E t : NarrowTo(run, d, 3, t)
    BY <1>6, <1>8
  <2>. QED
    BY <1>6, <2>1
<1> DEFINE x == d[21] \div 8
           y == (d[21] % 8) * 4
<1>10. x \in Nat /\ y \in Nat /\ d[21] \in Byte
  <2>1. d[21] \in Byte
    BY <1>1
  <2>. QED
    BY <2>1 DEF Byte
<1>11. run[20] = State(0, 0, r) /\ r \in Seq(Nat) /\ Len(r) = 32 /\ \A b \in 0 .. 3 : NarrowBlock(r, 8 * b, d, 5 * b)
  BY <1>9 DEF NarrowTo
<1>12. run[21] = State(d[21] % 8, 3, r \o <<x>>)
  <2>1. run[21] = ConvertStep(run[20], d[21], 8, 5)
    BY <1>2
  <2>. QED
    BY <1>10, <1>11, <2>1, Narrow0
<1>13. convert(d, 8, 5) = Append(r \o <<x>>, y)
  <2>1. run[21].bits = 3 /\ run[21].acc = d[21] % 8 /\ run[21].ret = r \o <<x>>
    BY <1>12 DEF State
  <2>2. Pow2[5 - 3] = 4
    BY Powers
  <2> HIDE DEF x
  <2>. QED
    BY <1>3, <2>1, <2>2 DEF ConvertResult
<1> HIDE DEF x, y
<1> DEFINE t == r \o <<x, y>>
<1>14. convert(d, 8, 5) = t
  <2>1. x \in Nat /\ y \in Nat /\ r \in Seq(Nat)
    BY <1>10, <1>11
  <2>. QED
    BY <1>13, <2>1, PushPush
<1>15. t \in Seq(Nat) /\ Len(t) = 34 /\ Begins(r, t) /\ t[33] = x /\ t[34] = y
  <2>1. x \in Nat /\ y \in Nat /\ r \in Seq(Nat)
    BY <1>10, <1>11
  <2>2. t \in Seq(Nat) /\ Len(t) = Len(r) + 2 /\ Begins(r, t) /\ t[Len(r) + 1] = x /\ t[Len(r) + 2] = y
    BY <2>1, PushTwo
  <2> HIDE DEF t
  <2>3. Len(r) = 32
    BY <1>11
  <2>. QED
    BY <2>2, <2>3
<1> HIDE DEF t
<1>16. ASSUME NEW b \in 0 .. 3 PROVE NarrowBlock(t, 8 * b, d, 5 * b)
  <2> DEFINE p == 8 * b
  <2>1. p \in Nat /\ p + 8 <= Len(r) /\ NarrowBlock(r, p, d, 5 * b)
    BY <1>11
  <2> HIDE DEF p
  <2>2. NarrowBlock(t, p, d, 5 * b)
    BY <1>11, <1>15, <2>1, NarrowKept
  <2>. QED
    BY <2>2 DEF p
<1>. QED
  BY <1>14, <1>15, <1>16 DEF x, y

(* 34 symbols become 21 bytes: 4 blocks, and the last byte; 2 bits drop.   *)
LEMMA WidenAll ==
    ASSUME NEW d, Groups(d, 34, Symbol)
    PROVE  /\ convert(d, 5, 8) \in Seq(Nat) /\ Len(convert(d, 5, 8)) = 21
           /\ \A b \in 0 .. 3 : WidenBlock(convert(d, 5, 8), 5 * b, d, 8 * b)
           /\ convert(d, 5, 8)[21] = d[33] * 8 + d[34] \div 4
<1> DEFINE run == ConvertRun(d, 5, 8)
<1>1. d \in Seq(Nat) /\ \A i \in 1 .. 34 : d[i] \in Symbol
  BY DEF Groups
<1>0. 34 = Len(d)
  BY DEF Groups
<1>2. run[0] = State(0, 0, << >>) /\ \A i \in 1 .. 34 : run[i] = ConvertStep(run[i - 1], d[i], 5, 8)
  BY <1>0, <1>1, ConvertRuns DEF State
<1>3. convert(d, 5, 8) = ConvertResult(run[34], 5, 8)
  BY <1>0, ConvertEnd
<1> HIDE DEF run
<1>4. ASSUME NEW q \in 0 .. 3
      PROVE  \A k \in 1 .. 8 : d[8 * q + k] \in Symbol /\ run[8 * q + k] = ConvertStep(run[8 * q + k - 1], d[8 * q + k], 5, 8)
  <2> TAKE k \in 1 .. 8
  <2> DEFINE i == 8 * q + k
  <2>1. i \in 1 .. 34
    OBVIOUS
  <2> HIDE DEF i
  <2>2. d[i] \in Symbol /\ run[i] = ConvertStep(run[i - 1], d[i], 5, 8)
    BY <1>1, <1>2, <2>1
  <2>. QED
    BY <2>2 DEF i
<1>5. WidenTo(run, d, 0, << >>)
  BY <1>2 DEF WidenTo
<1>6. ASSUME NEW q \in 0 .. 3, \E t : WidenTo(run, d, q, t) PROVE \E t : WidenTo(run, d, q + 1, t)
  BY <1>4, <1>6, WidenNext
<1>7. \E t : WidenTo(run, d, 1, t)
  BY <1>5, <1>6
<1>8. \E t : WidenTo(run, d, 2, t)
  BY <1>6, <1>7
<1>9. PICK r : WidenTo(run, d, 4, r)
  <2>1. \E t : WidenTo(run, d, 3, t)
    BY <1>6, <1>8
  <2>. QED
    BY <1>6, <2>1
<1> DEFINE x == d[33] * 8 + d[34] \div 4
<1>10. d[33] \in Symbol /\ d[34] \in Symbol /\ d[33] \in 0 .. 31
  BY <1>1 DEF Symbol
<1>11. run[32] = State(0, 0, r) /\ r \in Seq(Nat) /\ Len(r) = 20 /\ \A b \in 0 .. 3 : WidenBlock(r, 5 * b, d, 8 * b)
  BY <1>9 DEF WidenTo
<1>12. run[33] = State(d[33], 5, r)
  <2>1. run[33] = ConvertStep(run[32], d[33], 5, 8)
    BY <1>2
  <2>. QED
    BY <1>10, <1>11, <2>1, Widen0
<1>13. run[34] = State(d[34] % 4, 2, r \o <<x>>)
  <2>1. run[34] = ConvertStep(run[33], d[34], 5, 8)
    BY <1>2
  <2> DEFINE a == d[33]
             b == d[34]
  <2>2. a \in 0 .. 31 /\ b \in Symbol /\ r \in Seq(Nat)
    BY <1>10, <1>11
  <2> HIDE DEF a, b
  <2>3. ConvertStep(State(a, 5, r), b, 5, 8) = State(b % 4, 2, r \o <<a * 8 + b \div 4>>)
    BY ONLY <2>2, Widen5, Zenon
  <2>. QED
    BY <1>12, <2>1, <2>3 DEF a, b
<1>14. x \in Nat
  BY <1>10 DEF Symbol
<1> HIDE DEF x
<1> DEFINE t == r \o <<x>>
<1>15. convert(d, 5, 8) = t
  <2>1. run[34].ret = t
    BY <1>13 DEF State
  <2>. QED
    BY <1>3, <2>1 DEF ConvertResult
<1>16. t \in Seq(Nat) /\ Len(t) = 21 /\ Begins(r, t) /\ t[21] = x
  <2>1. r \in Seq(Nat) /\ Len(r) = 20
    BY <1>11
  <2>2. t \in Seq(Nat) /\ Len(t) = Len(r) + 1 /\ Begins(r, t) /\ t[Len(r) + 1] = x
    BY <1>14, <2>1, PushOne
  <2> HIDE DEF t
  <2>. QED
    BY <2>1, <2>2
<1> HIDE DEF t
<1>17. ASSUME NEW b \in 0 .. 3 PROVE WidenBlock(t, 5 * b, d, 8 * b)
  <2> DEFINE p == 5 * b
  <2>1. p \in Nat /\ p + 5 <= Len(r) /\ WidenBlock(r, p, d, 8 * b)
    BY <1>11
  <2> HIDE DEF p
  <2>2. WidenBlock(t, p, d, 8 * b)
    BY <1>11, <1>16, <2>1, WidenKept
  <2>. QED
    BY <2>2 DEF p
<1>. QED
  BY <1>15, <1>16, <1>17 DEF x

-----------------------------------------------------------------------------
(* What convert() makes of an address, and that it is undone.              *)

(* A block that is made of bytes consists of symbols.                      *)
LEMMA NarrowSymbols ==
    ASSUME NEW t, NEW p \in Nat, NEW d, NEW o \in Nat, NarrowBlock(t, p, d, o), \A k \in 1 .. 5 : d[o + k] \in Byte
    PROVE  \A k \in 1 .. 8 : t[p + k] \in Symbol
<1> DEFINE d1 == d[o + 1]
           d2 == d[o + 2]
           d3 == d[o + 3]
           d4 == d[o + 4]
           d5 == d[o + 5]
<1>1. d1 \in Byte /\ d2 \in Byte /\ d3 \in Byte /\ d4 \in Byte /\ d5 \in Byte
  OBVIOUS
<1>2. /\ t[p + 1] = d1 \div 8 /\ t[p + 2] = (d1 % 8) * 4 + d2 \div 64 /\ t[p + 3] = (d2 \div 2) % 32
      /\ t[p + 4] = (d2 % 2) * 16 + d3 \div 16 /\ t[p + 5] = (d3 % 16) * 2 + d4 \div 128
      /\ t[p + 6] = (d4 \div 4) % 32 /\ t[p + 7] = (d4 % 4) * 8 + d5 \div 32 /\ t[p + 8] = d5 % 32
  BY DEF NarrowBlock
<1> HIDE DEF d1, d2, d3, d4, d5
<1>3. d1 \div 8 \in Symbol /\ (d1 % 8) * 4 + d2 \div 64 \in Symbol /\ (d2 \div 2) % 32 \in Symbol
  BY <1>1 DEF Byte, Symbol
<1>4. (d2 % 2) * 16 + d3 \div 16 \in Symbol /\ (d3 % 16) * 2 + d4 \div 128 \in Symbol /\ (d4 \div 4) % 32 \in Symbol
  BY <1>1 DEF Byte, Symbol
<1>5. (d4 % 4) * 8 + d5 \div 32 \in Symbol /\ d5 % 32 \in Symbol
  BY <1>1 DEF Byte, Symbol
<1>6. \A k \in 1 .. 8 : k \in {1, 2, 3, 4, 5, 6, 7, 8}
  OBVIOUS
<1>. QED
  BY <1>2, <1>3, <1>4, <1>5, <1>6

(* A block that is made of symbols consists of bytes.                      *)
LEMMA WidenBytes ==
    ASSUME NEW u, NEW o \in Nat, NEW c, NEW p \in Nat, WidenBlock(u, o, c, p), \A k \in 1 .. 8 : c[p + k] \in Symbol
    PROVE  \A k \in 1 .. 5 : u[o + k] \in Byte
<1> DEFINE c1 == c[p + 1]
           c2 == c[p + 2]
           c3 == c[p + 3]
           c4 == c[p + 4]
           c5 == c[p + 5]
           c6 == c[p + 6]
           c7 == c[p + 7]
           c8 == c[p + 8]
<1>1. c1 \in Symbol /\ c2 \in Symbol /\ c3 \in Symbol /\ c4 \in Symbol /\ c5 \in Symbol /\
      c6 \in Symbol /\ c7 \in Symbol /\ c8 \in Symbol
  OBVIOUS
<1>2. /\ u[o + 1] = c1 * 8 + c2 \div 4 /\ u[o + 2] = ((c2 % 4) * 32 + c3) * 2 + c4 \div 16
      /\ u[o + 3] = (c4 % 16) * 16 + c5 \div 2 /\ u[o + 4] = ((c5 % 2) * 32 + c6) * 4 + c7 \div 8
      /\ u[o + 5] = (c7 % 8) * 32 + c8
  BY DEF WidenBlock
<1> HIDE DEF c1, c2, c3, c4, c5, c6, c7, c8
<1>3. c1 * 8 + c2 \div 4 \in Byte /\ ((c2 % 4) * 32 + c3) * 2 + c4 \div 16 \in Byte /\
      (c4 % 16) * 16 + c5 \div 2 \in Byte
  BY <1>1 DEF Byte, Symbol
<1>4. ((c5 % 2) * 32 + c6) * 4 + c7 \div 8 \in Byte /\ (c7 % 8) * 32 + c8 \in Byte
  BY <1>1 DEF Byte, Symbol
<1>5. \A k \in 1 .. 5 : k \in {1, 2, 3, 4, 5}
  OBVIOUS
<1>. QED
  BY <1>2, <1>3, <1>4, <1>5

(* Every place is one of a block, or one of the last. *)
LEMMA Places8 == ASSUME NEW i \in 1 .. 32 PROVE \E b \in 0 .. 3, k \in 1 .. 8 : i = 8 * b + k
<1> DEFINE b == (i - 1) \div 8
           k == ((i - 1) % 8) + 1
<1>1. b \in 0 .. 3 /\ k \in 1 .. 8 /\ i = 8 * b + k
  OBVIOUS
<1>. QED
  BY <1>1

LEMMA Places5 == ASSUME NEW i \in 1 .. 20 PROVE \E b \in 0 .. 3, k \in 1 .. 5 : i = 5 * b + k
<1> DEFINE b == (i - 1) \div 5
           k == ((i - 1) % 5) + 1
<1>1. b \in 0 .. 3 /\ k \in 1 .. 5 /\ i = 5 * b + k
  OBVIOUS
<1>. QED
  BY <1>1

(* 21 bytes become 34 symbols.                                             *)
LEMMA NarrowGroups == ASSUME NEW d, Groups(d, 21, Byte) PROVE Groups(convert(d, 8, 5), 34, Symbol)
<1> DEFINE t == convert(d, 8, 5)
<1>1. /\ t \in Seq(Nat) /\ Len(t) = 34 /\ \A b \in 0 .. 3 : NarrowBlock(t, 8 * b, d, 5 * b)
      /\ t[33] = d[21] \div 8 /\ t[34] = (d[21] % 8) * 4
  BY NarrowAll
<1> HIDE DEF t
<1>2. \A i \in 1 .. 21 : d[i] \in Byte
  BY DEF Groups
<1>3. ASSUME NEW b \in 0 .. 3 PROVE \A k \in 1 .. 8 : t[8 * b + k] \in Symbol
  <2> DEFINE o == 5 * b
             p == 8 * b
  <2>1. o \in Nat /\ p \in Nat /\ \A k \in 1 .. 5 : o + k \in 1 .. 21
    OBVIOUS
  <2>2. NarrowBlock(t, p, d, o)
    BY <1>1
  <2> HIDE DEF o, p
  <2>3. \A k \in 1 .. 5 : d[o + k] \in Byte
    BY <1>2, <2>1
  <2>4. \A k \in 1 .. 8 : t[p + k] \in Symbol
    BY <2>1, <2>2, <2>3, NarrowSymbols
  <2>. QED
    BY <2>4 DEF p
<1>4. t[33] \in Symbol /\ t[34] \in Symbol
  <2>1. d[21] \in Byte
    BY <1>2
  <2>2. d[21] \div 8 \in Symbol /\ (d[21] % 8) * 4 \in Symbol
    BY <2>1 DEF Byte, Symbol
  <2>. QED
    BY <1>1, <2>2
<1>5. ASSUME NEW i \in 1 .. 34 PROVE t[i] \in Symbol
  <2>1. i \in 1 .. 32 \/ i = 33 \/ i = 34
    OBVIOUS
  <2>2. CASE i \in 1 .. 32
    <3>1. PICK b \in 0 .. 3, k \in 1 .. 8 : i = 8 * b + k
      BY <2>2, Places8
    <3>. QED
      BY <1>3, <3>1
  <2>. QED
    BY <1>4, <2>1, <2>2
<1>. QED
  BY <1>1, <1>5 DEF Groups, t

(* 34 symbols become 21 bytes.                                             *)
LEMMA WidenGroups == ASSUME NEW d, Groups(d, 34, Symbol) PROVE Groups(convert(d, 5, 8), 21, Byte)
<1> DEFINE t == convert(d, 5, 8)
<1>1. /\ t \in Seq(Nat) /\ Len(t) = 21 /\ \A b \in 0 .. 3 : WidenBlock(t, 5 * b, d, 8 * b)
      /\ t[21] = d[33] * 8 + d[34] \div 4
  BY WidenAll
<1> HIDE DEF t
<1>2. \A i \in 1 .. 34 : d[i] \in Symbol
  BY DEF Groups
<1>3. ASSUME NEW b \in 0 .. 3 PROVE \A k \in 1 .. 5 : t[5 * b + k] \in Byte
  <2> DEFINE o == 5 * b
             p == 8 * b
  <2>1. o \in Nat /\ p \in Nat /\ \A k \in 1 .. 8 : p + k \in 1 .. 34
    OBVIOUS
  <2>2. WidenBlock(t, o, d, p)
    BY <1>1
  <2> HIDE DEF o, p
  <2>3. \A k \in 1 .. 8 : d[p + k] \in Symbol
    BY <1>2, <2>1
  <2>4. \A k \in 1 .. 5 : t[o + k] \in Byte
    BY <2>1, <2>2, <2>3, WidenBytes
  <2>. QED
    BY <2>4 DEF o
<1>4. t[21] \in Byte
  <2>1. d[33] \in Symbol /\ d[34] \in Symbol
    BY <1>2
  <2>2. d[33] * 8 + d[34] \div 4 \in Byte
    BY <2>1 DEF Byte, Symbol
  <2>. QED
    BY <1>1, <2>2
<1>5. ASSUME NEW i \in 1 .. 21 PROVE t[i] \in Byte
  <2>1. i \in 1 .. 20 \/ i = 21
    OBVIOUS
  <2>2. CASE i \in 1 .. 20
    <3>1. PICK b \in 0 .. 3, k \in 1 .. 5 : i = 5 * b + k
      BY <2>2, Places5
    <3>. QED
      BY <1>3, <3>1
  <2>. QED
    BY <1>4, <2>1, <2>2
<1>. QED
  BY <1>1, <1>5 DEF Groups, t

(* 8 to 5 and back: the two zeros that fill the last symbol are what the   *)
(* way back drops.                                                         *)
LEMMA ConvertBack == ASSUME NEW d, Groups(d, 21, Byte) PROVE convert(convert(d, 8, 5), 5, 8) = d
<1> DEFINE t == convert(d, 8, 5)
           u == convert(t, 5, 8)
<1>1. /\ \A b \in 0 .. 3 : NarrowBlock(t, 8 * b, d, 5 * b)
      /\ t[33] = d[21] \div 8 /\ t[34] = (d[21] % 8) * 4
  BY NarrowAll
<1>2. Groups(t, 34, Symbol)
  BY NarrowGroups
<1> HIDE DEF t
<1>3. /\ u \in Seq(Nat) /\ Len(u) = 21 /\ \A b \in 0 .. 3 : WidenBlock(u, 5 * b, t, 8 * b)
      /\ u[21] = t[33] * 8 + t[34] \div 4
  BY <1>2, WidenAll
<1> HIDE DEF u
<1>4. d \in Seq(Nat) /\ Len(d) = 21 /\ \A i \in 1 .. 21 : d[i] \in Byte
  BY DEF Groups
<1>5. ASSUME NEW b \in 0 .. 3 PROVE \A k \in 1 .. 5 : u[5 * b + k] = d[5 * b + k]
  <2> DEFINE o == 5 * b
             p == 8 * b
  <2>1. o \in Nat /\ p \in Nat /\ \A k \in 1 .. 5 : o + k \in 1 .. 21
    OBVIOUS
  <2>2. NarrowBlock(t, p, d, o) /\ WidenBlock(u, o, t, p)
    BY <1>1, <1>3
  <2> HIDE DEF o, p
  <2>3. \A k \in 1 .. 5 : d[o + k] \in Byte
    BY <1>4, <2>1
  <2>4. \A k \in 1 .. 5 : u[o + k] = d[o + k]
    BY <2>1, <2>2, <2>3, BlockBack
  <2>. QED
    BY <2>4 DEF o
<1>6. u[21] = d[21]
  <2>1. d[21] \in Byte
    BY <1>4
  <2>2. (d[21] \div 8) * 8 + ((d[21] % 8) * 4) \div 4 = d[21]
    BY <2>1 DEF Byte
  <2>. QED
    BY <1>1, <1>3, <2>2
<1>7. ASSUME NEW i \in 1 .. 21 PROVE u[i] = d[i]
  <2>1. i \in 1 .. 20 \/ i = 21
    OBVIOUS
  <2>2. CASE i \in 1 .. 20
    <3>1. PICK b \in 0 .. 3, k \in 1 .. 5 : i = 5 * b + k
      BY <2>2, Places5
    <3>. QED
      BY <1>5, <3>1
  <2>. QED
    BY <1>6, <2>1, <2>2
<1>8. u = d
  BY <1>3, <1>4, <1>7, SeqEqual
<1>. QED
  BY <1>8 DEF t, u

-----------------------------------------------------------------------------
(* Sequences of a known length.                                            *)

(* Tuples of a fixed length, as sequences and as functions.                *)
LEMMA SeqOfFcn == ASSUME NEW S, NEW n \in Nat, NEW f \in [1 .. n -> S] PROVE f \in Seq(S) /\ Len(f) = n
OBVIOUS

LEMMA FcnOfSeq == ASSUME NEW S, NEW n, NEW s \in Seq(S), Len(s) = n PROVE s \in [1 .. n -> S]
BY LenProperties

(* The version byte is put before the address and taken off again.         *)
LEMMA TailOf ==
    ASSUME NEW S, NEW n \in Nat, NEW s \in Seq(S), Len(s) = n + 1
    PROVE  Tail(s) \in Seq(S) /\ Len(Tail(s)) = n /\ \A i \in 1 .. n : Tail(s)[i] = s[i + 1]
<1>1. s # << >>
  OBVIOUS
<1>2. Tail(s) \in Seq(S) /\ Len(Tail(s)) = Len(s) - 1 /\ \A i \in 1 .. Len(Tail(s)) : Tail(s)[i] = s[i + 1]
  BY <1>1, HeadTailProperties
<1>3. Len(s) - 1 = n
  OBVIOUS
<1>. QED
  BY <1>2, <1>3

LEMMA ConsOf ==
    ASSUME NEW S, NEW n \in Nat, NEW x \in S, NEW s \in Seq(S), Len(s) = n
    PROVE  /\ <<x>> \o s \in Seq(S) /\ Len(<<x>> \o s) = n + 1 /\ (<<x>> \o s)[1] = x
           /\ \A i \in 1 .. n : (<<x>> \o s)[i + 1] = s[i]
OBVIOUS

LEMMA TailOfCons == ASSUME NEW S, NEW x \in S, NEW s \in Seq(S) PROVE Tail(<<x>> \o s) = s
<1> DEFINE d == <<x>> \o s
           n == Len(s)
<1>1. n \in Nat
  OBVIOUS
<1>2. d \in Seq(S) /\ Len(d) = n + 1 /\ \A i \in 1 .. n : d[i + 1] = s[i]
  BY <1>1, ConsOf
<1> HIDE DEF d
<1>3. Tail(d) \in Seq(S) /\ Len(Tail(d)) = n /\ \A i \in 1 .. n : Tail(d)[i] = d[i + 1]
  BY <1>1, <1>2, TailOf
<1>4. \A i \in 1 .. Len(Tail(d)) : Tail(d)[i] = s[i]
  BY <1>2, <1>3
<1>5. Tail(d) = s
  BY <1>3, <1>4, SeqEqual
<1>. QED
  BY <1>5 DEF d

LEMMA GroupsSeq == ASSUME NEW n \in Nat, NEW S, S \subseteq Nat, NEW s PROVE Groups(s, n, S) <=> s \in [1 .. n -> S]
<1>1. ASSUME Groups(s, n, S) PROVE s \in [1 .. n -> S]
  <2>1. s \in Seq(Nat) /\ Len(s) = n /\ \A i \in 1 .. n : s[i] \in S
    BY <1>1 DEF Groups
  <2>2. s \in [1 .. n -> Nat]
    BY <2>1, FcnOfSeq
  <2>. QED
    BY <2>1, <2>2
<1>2. ASSUME s \in [1 .. n -> S] PROVE Groups(s, n, S)
  <2>1. s \in [1 .. n -> Nat]
    BY <1>2
  <2>2. s \in Seq(Nat) /\ Len(s) = n
    BY <2>1, SeqOfFcn
  <2>. QED
    BY <1>2, <2>2 DEF Groups
<1>. QED
  BY <1>1, <1>2

LEMMA Ranges == Byte \subseteq Nat /\ Symbol \subseteq Nat /\ Symbol \subseteq Byte
BY DEF Byte, Symbol

LEMMA TailFcn == ASSUME NEW S, NEW n \in Nat, NEW s \in [1 .. n + 1 -> S] PROVE Tail(s) \in [1 .. n -> S]
<1>1. s \in Seq(S) /\ Len(s) = n + 1
  BY SeqOfFcn
<1>2. Tail(s) \in Seq(S) /\ Len(Tail(s)) = n
  BY <1>1, TailOf
<1>. QED
  BY <1>2, FcnOfSeq

(* What NewFromHex gives to convert() is 21 bytes.                         *)
LEMMA VersionAdded ==
    ASSUME NEW hex, Groups(hex, 20, Byte)
    PROVE  Groups(<<VersionByte>> \o hex, 21, Byte) /\ Tail(<<VersionByte>> \o hex) = hex
<1> DEFINE n == 20
           m == n + 1
           x == VersionByte
           d == <<x>> \o hex
<1>1. x \in Byte /\ n \in Nat /\ m \in Nat /\ m = 21 /\ Groups(hex, n, Byte)
  BY DEF VersionByte, Byte
<1> HIDE DEF n, x
<1>2. hex \in [1 .. n -> Byte]
  BY <1>1, GroupsSeq, Ranges
<1>3. hex \in Seq(Byte) /\ Len(hex) = n
  BY <1>1, <1>2, SeqOfFcn
<1>4. d \in Seq(Byte) /\ Len(d) = m
  BY <1>1, <1>3, ConsOf
<1>5. Tail(d) = hex
  BY <1>1, <1>3, TailOfCons
<1> HIDE DEF d, m
<1>6. d \in [1 .. m -> Byte]
  BY <1>4, FcnOfSeq
<1>7. Groups(d, m, Byte)
  BY <1>1, <1>6, GroupsSeq, Ranges
<1>. QED
  BY <1>1, <1>5, <1>7 DEF d, x

(* The body of an address and the bytes that setCache reads back from it. *)
LEMMA BodyOfBytes ==
    ASSUME NEW hex \in [1 .. 20 -> Byte]
    PROVE  /\ convert(<<VersionByte>> \o hex, 8, 5) \in [1 .. 34 -> Symbol]
           /\ Tail(convert(convert(<<VersionByte>> \o hex, 8, 5), 5, 8)) = hex
<1> DEFINE d == <<VersionByte>> \o hex
<1>1. Groups(d, 21, Byte) /\ Tail(d) = hex
  <2>1. 20 \in Nat
    OBVIOUS
  <2>2. Groups(hex, 20, Byte)
    BY <2>1, GroupsSeq, Ranges
  <2>. QED
    BY <2>2, VersionAdded
<1> HIDE DEF d
<1>2. Groups(convert(d, 8, 5), 34, Symbol) /\ convert(convert(d, 8, 5), 5, 8) = d
  BY <1>1, NarrowGroups, ConvertBack
<1>3. 34 \in Nat
  OBVIOUS
<1>4. convert(d, 8, 5) \in [1 .. 34 -> Symbol]
  BY <1>2, <1>3, GroupsSeq, Ranges
<1>. QED
  BY <1>1, <1>2, <1>4 DEF d

(* The bytes setCache() keeps of any body are 20.                          *)
LEMMA BytesOfBody == ASSUME NEW body \in [1 .. 34 -> Symbol] PROVE Tail(convert(body, 5, 8)) \in [1 .. 20 -> Byte]
<1> DEFINE d == convert(body, 5, 8)
<1>1. Groups(body, 34, Symbol)
  <2>1. 34 \in Nat
    OBVIOUS
  <2>. QED
    BY <2>1, GroupsSeq, Ranges
<1>2. Groups(d, 21, Byte)
  BY <1>1, WidenGroups
<1> HIDE DEF d
<1>3. 20 \in Nat /\ 21 \in Nat /\ 20 + 1 = 21
  OBVIOUS
<1>4. d \in [1 .. 21 -> Byte]
  BY <1>2, <1>3, GroupsSeq, Ranges
<1>5. d \in [1 .. 20 + 1 -> Byte]
  BY <1>4
<1>6. Tail(d) \in [1 .. 20 -> Byte]
  BY <1>3, <1>5, TailFcn
<1>. QED
  BY <1>6 DEF d

LEMMA ZerosAreBytes == Zeros(20) \in [1 .. 20 -> Byte]
BY DEF Zeros, Byte

-----------------------------------------------------------------------------
(* The checksum is 8 symbols.                                              *)

Tuples == [1 .. 8 -> Symbol]

LEMMA BitXorType == ASSUME NEW a, NEW b, NEW k \in 0 .. 4 PROVE BitXor(a, b, k) \in {0, Pow2[k]}
BY DEF BitXor

(* The exclusive or of two symbols is a symbol.                            *)
LEMMA XorType == ASSUME NEW a \in Symbol, NEW b \in Symbol PROVE Xor[a][b] \in Symbol
<1> DEFINE x0 == BitXor(a, b, 0)
           x1 == BitXor(a, b, 1)
           x2 == BitXor(a, b, 2)
           x3 == BitXor(a, b, 3)
           x4 == BitXor(a, b, 4)
<1>1. x0 \in {0, 1} /\ x1 \in {0, 2} /\ x2 \in {0, 4} /\ x3 \in {0, 8} /\ x4 \in {0, 16}
  <2>1. x0 \in {0, Pow2[0]} /\ x1 \in {0, Pow2[1]} /\ x2 \in {0, Pow2[2]} /\ x3 \in {0, Pow2[3]} /\
        x4 \in {0, Pow2[4]}
    BY BitXorType
  <2> HIDE DEF x0, x1, x2, x3, x4
  <2>. QED
    BY <2>1, Powers
<1>2. Xor[a][b] = x0 + x1 + x2 + x3 + x4
  BY DEF Xor
<1> HIDE DEF x0, x1, x2, x3, x4
<1>3. x0 + x1 + x2 + x3 + x4 \in 0 .. 31
  BY <1>1
<1>. QED
  BY <1>2, <1>3 DEF Symbol

LEMMA XorTupleType == ASSUME NEW s \in Tuples, NEW t \in Tuples PROVE XorTuple(s, t) \in Tuples
<1>1. ASSUME NEW i \in 1 .. 8 PROVE Xor[s[i]][t[i]] \in Symbol
  BY XorType DEF Tuples
<1>. QED
  BY <1>1 DEF XorTuple, Tuples

(* The five constants of polymod() have 40 bits.                           *)
LEMMA GeneratorsType == \A k \in 1 .. 5 : Generators[k] \in Tuples
<1>1. Generators[1] \in Tuples
  <2>1. Generators[1] = <<19, 3, 25, 11, 25, 3, 19, 1>>
    BY DEF Generators
  <2>2. <<19, 3, 25, 11, 25, 3, 19, 1>> \in Tuples
    BY DEF Tuples, Symbol
  <2>. QED
    BY <2>1, <2>2
<1>2. Generators[2] \in Tuples
  <2>1. Generators[2] = <<15, 6, 27, 22, 27, 6, 15, 2>>
    BY DEF Generators
  <2>2. <<15, 6, 27, 22, 27, 6, 15, 2>> \in Tuples
    BY DEF Tuples, Symbol
  <2>. QED
    BY <2>1, <2>2
<1>3. Generators[3] \in Tuples
  <2>1. Generators[3] = <<30, 12, 31, 5, 31, 12, 30, 4>>
    BY DEF Generators
  <2>2. <<30, 12, 31, 5, 31, 12, 30, 4>> \in Tuples
    BY DEF Tuples, Symbol
  <2>. QED
    BY <2>1, <2>2
<1>4. Generators[4] \in Tuples
  <2>1. Generators[4] = <<21, 24, 23, 10, 23, 24, 21, 8>>
    BY DEF Generators
  <2>2. <<21, 24, 23, 10, 23, 24, 21, 8>> \in Tuples
    BY DEF Tuples, Symbol
  <2>. QED
    BY <2>1, <2>2
<1>5. Generators[5] \in Tuples
  <2>1. Generators[5] = <<3, 25, 7, 20, 7, 25, 3, 16>>
    BY DEF Generators
  <2>2. <<3, 25, 7, 20, 7, 25, 3, 16>> \in Tuples
    BY DEF Tuples, Symbol
  <2>. QED
    BY <2>1, <2>2
<1>6. \A k \in 1 .. 5 : k \in {1, 2, 3, 4, 5}
  OBVIOUS
<1>. QED
  BY <1>1, <1>2, <1>3, <1>4, <1>5, <1>6

(* What the five conditional lines of polymod() add has 40 bits.           *)
LEMMA FeedbackType == ASSUME NEW c \in Symbol PROVE Feedback[c] \in Tuples
<1> DEFINE a == <<0, 0, 0, 0, 0, 0, 0, 0>>
           S == Tuples
           Step(s, k) == IF (c \div Pow2[k - 1]) % 2 = 1 THEN XorTuple(s, Generators[k]) ELSE s
           G == [i \in 1 .. 5 |-> [s \in S |-> Step(s, i)]]
           N == 5
<1>1. a \in S /\ N \in Nat
  BY DEF Tuples, Symbol
<1>2. ASSUME NEW i \in 1 .. N, NEW s \in S PROVE Step(s, i) \in S
  BY GeneratorsType, XorTupleType
<1> HIDE DEF S, Step
<1>3. G \in Rounds(N, S)
  BY <1>2 DEF Rounds
<1> HIDE DEF G, N, a
<1>4. PICK f : IsLoop(f, N, S, a, G)
  BY <1>1, <1>3, LoopDefined
<1>5. ASSUME NEW i \in 0 .. N PROVE f[i] = IF i = 0 THEN a ELSE Step(f[i - 1], i)
  <2>1. f[i] = IF i = 0 THEN a ELSE G[i][f[i - 1]]
    BY <1>1, <1>4 DEF IsLoop
  <2>2. CASE i # 0
    <3>1. i \in 1 .. N /\ f[i - 1] \in S
      BY <1>1, <1>4, <2>2 DEF IsLoop
    <3>2. G[i][f[i - 1]] = Step(f[i - 1], i)
      BY <3>1 DEF G, N
    <3>. QED
      BY <2>1, <2>2, <3>2
  <2>. QED
    BY <2>1, <2>2
<1>6. f = [i \in 0 .. N |-> IF i = 0 THEN a ELSE Step(f[i - 1], i)]
  BY <1>4, <1>5 DEF IsLoop
<1> DEFINE g == CHOOSE r : r = [i \in 0 .. N |-> IF i = 0 THEN a ELSE Step(r[i - 1], i)]
<1>7. g = [i \in 0 .. N |-> IF i = 0 THEN a ELSE Step(g[i - 1], i)]
  BY <1>6
<1>8. Feedback[c] = g[N]
  BY DEF Feedback, N, a, Step
<1> HIDE DEF g
<1>9. \A i \in 0 .. N : g[i] = IF i = 0 THEN a ELSE Step(g[i - 1], i)
  BY <1>7
<1>10. g[0] \in S
  BY <1>1, <1>9
<1>11. ASSUME NEW i \in 1 .. 5, g[i - 1] \in S PROVE g[i] \in S
  BY <1>2, <1>9, <1>11 DEF N
<1>12. g[1] \in S /\ g[2] \in S
  <2>1. g[1] \in S
    BY <1>10, <1>11
  <2>. QED
    BY <1>11, <2>1
<1>13. g[3] \in S /\ g[4] \in S
  <2>1. g[3] \in S
    BY <1>11, <1>12
  <2>. QED
    BY <1>11, <2>1
<1>14. g[5] \in S
  BY <1>11, <1>13
<1>. QED
  BY <1>8, <1>14 DEF N, S

LEMMA PolymodStepType == ASSUME NEW c \in Tuples, NEW d \in Symbol PROVE PolymodStep(c, d) \in Tuples
<1> DEFINE f == Feedback[c[1]]
<1>1. \A i \in 1 .. 8 : c[i] \in Symbol
  BY DEF Tuples
<1>2. f \in Tuples
  BY <1>1, FeedbackType
<1> HIDE DEF f
<1>3. \A i \in 1 .. 8 : f[i] \in Symbol
  BY <1>2 DEF Tuples
<1>4. /\ Xor[c[2]][f[1]] \in Symbol /\ Xor[c[3]][f[2]] \in Symbol /\ Xor[c[4]][f[3]] \in Symbol
      /\ Xor[c[5]][f[4]] \in Symbol /\ Xor[c[6]][f[5]] \in Symbol /\ Xor[c[7]][f[6]] \in Symbol
      /\ Xor[c[8]][f[7]] \in Symbol /\ Xor[d][f[8]] \in Symbol
  BY <1>1, <1>3, XorType
<1>5. PolymodStep(c, d) = <<Xor[c[2]][f[1]], Xor[c[3]][f[2]], Xor[c[4]][f[3]], Xor[c[5]][f[4]],
                            Xor[c[6]][f[5]], Xor[c[7]][f[6]], Xor[c[8]][f[7]], Xor[d][f[8]]>>
  BY DEF PolymodStep, f
<1>. QED
  BY <1>4, <1>5 DEF Tuples

PolymodRun(v) ==
    LET c[i \in 0 .. Len(v)] ==
            IF i = 0 THEN <<0, 0, 0, 0, 0, 0, 0, 1>> ELSE PolymodStep(c[i - 1], v[i])
    IN c

LEMMA PolymodEnd == ASSUME NEW v PROVE polymod(v) = [PolymodRun(v)[Len(v)] EXCEPT ![8] = Xor[PolymodRun(v)[Len(v)][8]][1]]
BY DEF polymod, PolymodRun

(* The checksum polymod() computes has 40 bits, for input of any length.   *)
LEMMA PolymodType == ASSUME NEW v \in Seq(Symbol) PROVE polymod(v) \in Tuples
<1> DEFINE a == <<0, 0, 0, 0, 0, 0, 0, 1>>
           S == Tuples
           Step(s, k) == PolymodStep(s, v[k])
           N == Len(v)
           G == [i \in 1 .. N |-> [s \in S |-> Step(s, i)]]
<1>1. a \in S /\ N \in Nat
  <2>1. a \in S
    BY DEF Tuples, Symbol
  <2>2. N \in Nat
    BY LenProperties
  <2>. QED
    BY <2>1, <2>2
<1>2. ASSUME NEW i \in 1 .. N, NEW s \in S PROVE Step(s, i) \in S
  <2>1. v[i] \in Symbol
    BY ElementOfSeq
  <2>. QED
    BY <2>1, PolymodStepType
<1> HIDE DEF S, Step, N
<1>3. G \in Rounds(N, S)
  BY <1>2 DEF Rounds
<1> HIDE DEF G, a
<1>4. PICK f : IsLoop(f, N, S, a, G)
  BY <1>1, <1>3, LoopDefined
<1>5. ASSUME NEW i \in 0 .. N PROVE f[i] = IF i = 0 THEN a ELSE Step(f[i - 1], i)
  <2>1. f[i] = IF i = 0 THEN a ELSE G[i][f[i - 1]]
    BY <1>1, <1>4 DEF IsLoop
  <2>2. CASE i # 0
    <3>1. i \in 1 .. N /\ f[i - 1] \in S
      BY <1>1, <1>4, <2>2 DEF IsLoop
    <3>2. G[i][f[i - 1]] = Step(f[i - 1], i)
      BY <3>1 DEF G
    <3>. QED
      BY <2>1, <2>2, <3>2
  <2>. QED
    BY <2>1, <2>2
<1>6. f = [i \in 0 .. N |-> IF i = 0 THEN a ELSE Step(f[i - 1], i)]
  BY <1>4, <1>5 DEF IsLoop
<1> DEFINE g == CHOOSE r : r = [i \in 0 .. N |-> IF i = 0 THEN a ELSE Step(r[i - 1], i)]
<1>7. g = [i \in 0 .. N |-> IF i = 0 THEN a ELSE Step(g[i - 1], i)]
  BY <1>6
<1>8. PolymodRun(v) = g
  BY DEF PolymodRun, N, a, Step
<1> HIDE DEF g
<1>9. \A i \in 0 .. N : g[i] = IF i = 0 THEN a ELSE Step(g[i - 1], i)
  BY <1>7
<1> DEFINE P == {i \in Nat : i <= N => g[i] \in S}
<1>10. P = Nat
  <2>1. 0 \in P
    BY <1>1, <1>9
  <2>2. ASSUME NEW i \in P PROVE i + 1 \in P
    <3> SUFFICES ASSUME i + 1 <= N PROVE g[i + 1] \in S
      OBVIOUS
    <3>1. i + 1 \in 1 .. N /\ g[i] \in S /\ i + 1 - 1 = i /\ i \in Nat
      BY <1>1
    <3>2. g[i + 1] = Step(g[i], i + 1)
      BY <1>1, <1>9, <3>1
    <3>. QED
      BY <1>2, <3>1, <3>2
  <2>3. P \subseteq Nat
    OBVIOUS
  <2> HIDE DEF P
  <2>. QED
    BY <2>1, <2>2, <2>3, SetInduction
<1>11. g[N] \in S
  BY <1>1, <1>10
<1> DEFINE e == g[N]
<1>12. polymod(v) = [e EXCEPT ![8] = Xor[e[8]][1]]
  BY <1>8, PolymodEnd DEF N
<1>13. e \in Tuples /\ e[8] \in Symbol /\ 1 \in Symbol
  BY <1>11 DEF S, Tuples, Symbol
<1> HIDE DEF e
<1>14. Xor[e[8]][1] \in Symbol
  BY <1>13, XorType
<1>. QED
  BY <1>12, <1>13, <1>14 DEF Tuples

-----------------------------------------------------------------------------
(* Networks.                                                               *)

Digit == 0 .. 9

(* The name of a network is made of digits.                                *)
LEMMA DecimalType == \A n \in Nat : Decimal[n] \in Seq(Digit)
<1> DEFINE S == Seq(Digit)
           A == [n \in Nat |-> IF n < 10 THEN <<n>> ELSE << >>]
           G == [n \in Nat |-> [s \in S |-> Append(s, n % 10)]]
           h == [n \in Nat |-> n \div 10]
           m == 10
<1>1. ASSUME NEW n \in Nat, n < 10 PROVE <<n>> \in S
  <2>1. n \in Digit
    BY <1>1 DEF Digit
  <2>. QED
    BY <2>1
<1>2. ASSUME NEW n \in Nat, NEW s \in S PROVE Append(s, n % 10) \in S
  <2>1. n % 10 \in Digit
    BY DEF Digit
  <2> DEFINE e == n % 10
  <2> HIDE DEF e
  <2>2. Append(s, e) \in S
    BY <2>1, AppendProperties DEF e
  <2>. QED
    BY <2>2 DEF e
<1>3. << >> \in S
  OBVIOUS
<1>4. ASSUME NEW n \in Nat, n >= 10 PROVE n \div 10 \in Nat /\ n \div 10 < n
  BY <1>4
<1>5. \A n \in Nat : n \div 10 \in Nat
  OBVIOUS
<1> HIDE DEF S
<1>6. Descends(S, m, A, G, h) /\ m \in Nat
  <2>1. A \in [Nat -> S]
    BY <1>1, <1>3
  <2>2. G \in [Nat -> [S -> S]]
    BY <1>2
  <2>3. h \in [Nat -> Nat] /\ \A n \in Nat : n >= m => h[n] < n
    BY <1>4, <1>5
  <2>. QED
    BY <2>1, <2>2, <2>3 DEF Descends
<1> HIDE DEF A, G, h, m
<1>7. PICK f : IsDescent(f, S, m, A, G, h)
  BY <1>6, DescentDefined
<1>8. ASSUME NEW n \in Nat PROVE f[n] = IF n < 10 THEN <<n>> ELSE Append(f[n \div 10], n % 10)
  <2>1. f[n] = IF n < 10 THEN A[n] ELSE G[n][f[h[n]]]
    BY <1>7 DEF IsDescent, m
  <2>2. h[n] = n \div 10 /\ n \div 10 \in Nat
    BY <1>5 DEF h
  <2>3. f[n \div 10] \in S
    BY <1>7, <2>2 DEF IsDescent
  <2>4. G[n][f[n \div 10]] = Append(f[n \div 10], n % 10)
    BY <2>3 DEF G
  <2>5. n < 10 => A[n] = <<n>>
    BY DEF A
  <2>. QED
    BY <2>1, <2>2, <2>4, <2>5
<1>9. f = [n \in Nat |-> IF n < 10 THEN <<n>> ELSE Append(f[n \div 10], n % 10)]
  BY <1>7, <1>8 DEF IsDescent
<1>10. Decimal = [n \in Nat |-> IF n < 10 THEN <<n>> ELSE Append(Decimal[n \div 10], n % 10)]
  BY <1>9 DEF Decimal
<1>11. ASSUME NEW n \in Nat PROVE Decimal[n] = IF n < 10 THEN <<n>> ELSE Append(Decimal[n \div 10], n % 10)
  <2>1. ASSUME NEW g, g = [k \in Nat |-> IF k < 10 THEN <<k>> ELSE Append(g[k \div 10], k % 10)]
        PROVE  g[n] = IF n < 10 THEN <<n>> ELSE Append(g[n \div 10], n % 10)
    BY <2>1
  <2>. QED
    BY <1>10, <2>1
<1> DEFINE T == {n \in Nat : Decimal[n] \notin S}
<1>12. T = {}
  <2>1. SUFFICES ASSUME T # {} PROVE FALSE
    OBVIOUS
  <2>2. T \subseteq Nat
    OBVIOUS
  <2>3. PICK n \in T : \A k \in T : n <= k
    <3> HIDE DEF T
    <3>. QED
      BY <2>1, <2>2, LeastNat
  <2>4. n \in Nat /\ Decimal[n] \notin S
    OBVIOUS
  <2>5. CASE n < 10
    BY <1>1, <1>11, <2>4, <2>5
  <2>6. CASE n >= 10
    <3>1. n \div 10 \in Nat /\ n \div 10 < n
      BY <1>4, <2>4, <2>6
    <3>2. n \div 10 \notin T
      <4> DEFINE k == n \div 10
      <4>1. k \in Nat /\ k < n
        BY <3>1
      <4> HIDE DEF k, T
      <4>2. k \notin T
        BY <2>3, <2>4, <4>1
      <4>. QED
        BY <4>2 DEF k
    <3>3. Decimal[n \div 10] \in S
      BY <3>1, <3>2
    <3>4. Decimal[n] = Append(Decimal[n \div 10], n % 10)
      <4>1. ~(n < 10)
        BY <2>4, <2>6
      <4>2. Decimal[n] = IF n < 10 THEN <<n>> ELSE Append(Decimal[n \div 10], n % 10)
        BY <1>11, <2>4
      <4>. QED
        BY <4>1, <4>2
    <3>. QED
      BY <1>2, <2>4, <3>3, <3>4
  <2>. QED
    BY <2>4, <2>5, <2>6
<1>. QED
  BY <1>12 DEF S

Nets == {NetworkType(id) : id \in NetworkIDs \cup {1}}

(* The network prefix that goes into the checksum consists of symbols.     *)
LEMMA Low5BitsType == ASSUME NEW nt \in Nets PROVE Low5Bits(nt) \in Seq(Symbol)
<1>1. PICK id \in NetworkIDs \cup {1} : nt = NetworkType(id)
  BY DEF Nets
<1>2. id \in Nat
  BY AddressAssumption
<1>3. CASE id = 1029
  <2>1. nt.kind = "cfx"
    BY <1>1, <1>3 DEF NetworkType, Mainnet
  <2>2. Low5Bits(nt) = <<3, 6, 24>>
    BY <2>1 DEF Low5Bits
  <2>3. 3 \in Symbol /\ 6 \in Symbol /\ 24 \in Symbol
    BY DEF Symbol
  <2>. QED
    BY <2>2, <2>3
<1>4. CASE id = 1
  <2>1. nt.kind = "cfxtest"
    BY <1>1, <1>4 DEF NetworkType, Testnet
  <2>2. Low5Bits(nt) = <<3, 6, 24, 20, 5, 19, 20>>
    BY <2>1 DEF Low5Bits
  <2>3. 3 \in Symbol /\ 6 \in Symbol /\ 24 \in Symbol /\ 20 \in Symbol /\ 5 \in Symbol /\ 19 \in Symbol
    BY DEF Symbol
  <2>. QED
    BY <2>2, <2>3
<1>5. CASE id # 1029 /\ id # 1
  <2>1. nt = [kind |-> "net", digits |-> Decimal[id]]
    BY <1>1, <1>5 DEF NetworkType
  <2> DEFINE s == Decimal[id]
             t == [i \in DOMAIN s |-> s[i] + 16]
  <2>2. nt.kind = "net" /\ nt.digits = s
    BY <2>1
  <2>3. Low5Bits(nt) = <<14, 5, 20>> \o t
    BY <2>2 DEF Low5Bits
  <2>4. s \in Seq(Digit)
    BY <1>2, DecimalType
  <2> HIDE DEF s
  <2>5. Len(s) \in Nat /\ DOMAIN s = 1 .. Len(s) /\ \A i \in 1 .. Len(s) : s[i] \in Digit
    BY <2>4, LenProperties, ElementOfSeq
  <2>6. \A i \in 1 .. Len(s) : s[i] + 16 \in Symbol
    <3>1. \A x \in Digit : x + 16 \in Symbol
      BY DEF Digit, Symbol
    <3>. QED
      BY <2>5, <3>1
  <2>7. t \in [1 .. Len(s) -> Symbol]
    BY <2>5, <2>6
  <2>8. t \in Seq(Symbol)
    BY <2>5, <2>7, SeqOfFcn
  <2> HIDE DEF t
  <2>9. <<14, 5, 20>> \in Seq(Symbol)
    <3>1. 14 \in Symbol /\ 5 \in Symbol /\ 20 \in Symbol
      BY DEF Symbol
    <3>. QED
      BY <3>1
  <2>10. <<14, 5, 20>> \o t \in Seq(Symbol)
    BY <2>8, <2>9, ConcatProperties
  <2>. QED
    BY <2>3, <2>10
<1>. QED
  BY <1>3, <1>4, <1>5

(* The checksum of an address on any network is 8 symbols.                 *)
LEMMA ChecksumType ==
    ASSUME NEW nt \in Nets, NEW body \in [1 .. 34 -> Symbol]
    PROVE  CalcChecksum(nt, body) \in Tuples
<1> DEFINE l == Low5Bits(nt)
           z == Zeros(8)
<1>1. l \in Seq(Symbol)
  BY Low5BitsType
<1>2. body \in Seq(Symbol)
  <2>1. 34 \in Nat
    OBVIOUS
  <2>. QED
    BY <2>1, SeqOfFcn
<1>3. 0 \in Symbol
  BY DEF Symbol
<1>4. <<0>> \in Seq(Symbol)
  BY <1>3
<1>5. z \in [1 .. 8 -> Symbol]
  BY <1>3 DEF Zeros
<1> HIDE DEF l, z
<1>6. z \in Seq(Symbol)
  <2>1. 8 \in Nat
    OBVIOUS
  <2>. QED
    BY <1>5, <2>1, SeqOfFcn
<1>7. l \o <<0>> \in Seq(Symbol)
  BY <1>1, <1>4, ConcatProperties
<1>8. l \o <<0>> \o body \in Seq(Symbol)
  BY <1>2, <1>7, ConcatProperties
<1>9. l \o <<0>> \o body \o z \in Seq(Symbol)
  BY <1>6, <1>8, ConcatProperties
<1>10. CalcChecksum(nt, body) = polymod(l \o <<0>> \o body \o z)
  BY DEF CalcChecksum, l, z
<1>. QED
  BY <1>9, <1>10, PolymodType

-----------------------------------------------------------------------------
(* Objects, texts and the journey of a text.                               *)

Types == {"null", "builtin", "user", "contract", "invalid"}

Caches(nt, body) == setCache(nt, CalcAddressType(Tail(convert(body, 5, 8))), body, CalcChecksum(nt, body))

(* An object that is complete: 34 symbols, 8 of the checksum and 20 bytes, *)
(* which are what its network and its body say.                            *)
Whole(a) ==
    /\ a.body \in [1 .. 34 -> Symbol] /\ a.checksum \in Tuples /\ a.hex \in [1 .. 20 -> Byte]
    /\ a = Caches(a.net, a.body)

(* Every object consists of symbols and bytes, and a valid one is whole.   *)
GoodAddress(a) ==
    /\ a.net \in Nets /\ a.type \in Types
    /\ a.body \in Seq(Symbol) /\ a.checksum \in Seq(Symbol) /\ a.hex \in Seq(Byte)
    /\ IsValid(a) => Whole(a)

Labels == Types \cup {""}

Chars == Symbol \cup {Foreign}

GoodText(t) == t \in [net : Nets, label : Labels, chars : Seq(Chars)]

LEMMA TypeType == ASSUME NEW hex PROVE CalcAddressType(hex) \in Types
BY DEF CalcAddressType, Types

(* setCache() makes an object whose caches agree with its network and body. *)
LEMMA GoodCaches == ASSUME NEW nt \in Nets, NEW body \in [1 .. 34 -> Symbol] PROVE GoodAddress(Caches(nt, body))
<1> DEFINE a == Caches(nt, body)
           hex == Tail(convert(body, 5, 8))
           type == CalcAddressType(hex)
           sum == CalcChecksum(nt, body)
<1>1. hex \in [1 .. 20 -> Byte] /\ type \in Types /\ sum \in Tuples
  BY BytesOfBody, TypeType, ChecksumType
<1>2. a = [net |-> nt, type |-> type, body |-> body, checksum |-> sum, hex |-> hex, networkID |-> ToNetworkID(nt)]
  BY DEF Caches, setCache
<1> HIDE DEF hex, type, sum
<1>3. a.net = nt /\ a.type = type /\ a.body = body /\ a.checksum = sum /\ a.hex = hex
  BY <1>2
<1>4. a = Caches(a.net, a.body)
  BY <1>3
<1> HIDE DEF a
<1>5. body \in Seq(Symbol) /\ sum \in Seq(Symbol) /\ hex \in Seq(Byte)
  <2> DEFINE l == 34
             m == 8
             n == 20
  <2>1. l \in Nat /\ m \in Nat /\ n \in Nat /\ body \in [1 .. l -> Symbol] /\ sum \in [1 .. m -> Symbol] /\ hex \in [1 .. n -> Byte]
    BY <1>1 DEF Tuples
  <2> HIDE DEF l, m, n
  <2>. QED
    BY <2>1, SeqOfFcn
<1>6. Whole(a)
  BY <1>1, <1>3, <1>4 DEF Whole
<1>. QED
  BY <1>1, <1>3, <1>5, <1>6 DEF GoodAddress, a

(* NewFromHex() makes such an object of any 20 bytes.                      *)
LEMMA GoodNew ==
    ASSUME NEW hex \in [1 .. 20 -> Byte], NEW id \in NetworkIDs \cup {1}
    PROVE  GoodAddress(NewFromBytes(hex, id))
<1> DEFINE body == convert(<<VersionByte>> \o hex, 8, 5)
           nt == NetworkType(id)
<1>1. body \in [1 .. 34 -> Symbol] /\ Tail(convert(body, 5, 8)) = hex
  BY BodyOfBytes
<1>2. nt \in Nets
  BY DEF Nets
<1>3. NewFromBytes(hex, id) = setCache(nt, CalcAddressType(hex), body, CalcChecksum(nt, body))
  BY DEF NewFromBytes
<1> HIDE DEF body, nt
<1>4. NewFromBytes(hex, id) = Caches(nt, body)
  BY <1>1, <1>3 DEF Caches
<1>. QED
  BY <1>1, <1>2, <1>4, GoodCaches

(* So do the default constructor and InvaildAddress(), but for the type.   *)
LEMMA GoodNull == GoodAddress(NullAddress) /\ GoodAddress([NullAddress EXCEPT !.type = "invalid"])
<1>1. GoodAddress(NullAddress)
  BY ZerosAreBytes, GoodNew DEF NullAddress
<1> DEFINE a == NullAddress
           b == [a EXCEPT !.type = "invalid"]
<1>2. DOMAIN a = {"net", "type", "body", "checksum", "hex", "networkID"}
  BY DEF NullAddress, NewFromBytes, setCache
<1>3. b = [a EXCEPT !.type = "invalid"]
  OBVIOUS
<1> HIDE DEF a, b
<1>4. b.net = a.net /\ b.type = "invalid" /\ b.body = a.body /\ b.checksum = a.checksum /\ b.hex = a.hex
  BY <1>2, <1>3
<1>5. ~IsValid(b) /\ b.type \in Types
  BY <1>4 DEF IsValid, Types
<1>6. GoodAddress(a)
  BY <1>1 DEF a
<1>7. GoodAddress(b)
  BY <1>4, <1>5, <1>6 DEF GoodAddress
<1>. QED
  BY <1>1, <1>7 DEF a, b

(* The object of a text that is refused is not valid, whatever is in it.   *)
LEMMA GoodRefused ==
    ASSUME NEW nt \in Nets, NEW body \in Seq(Symbol), NEW sum \in Seq(Symbol)
    PROVE  GoodAddress(Refused(nt, body, sum))
<1> DEFINE a == Refused(nt, body, sum)
<1>1. a.net = nt /\ a.type = "invalid" /\ a.body = body /\ a.checksum = sum /\ a.hex = << >>
  BY DEF Refused
<1> HIDE DEF a
<1>2. ~IsValid(a) /\ a.type \in Types
  BY <1>1 DEF IsValid, Types
<1>3. << >> \in Seq(Byte)
  BY EmptySeq
<1>. QED
  BY <1>1, <1>2, <1>3 DEF GoodAddress, a

(* The two parts of a text. *)
LEMMA TwoParts ==
    ASSUME NEW S, NEW m \in Nat \ {0}, NEW n \in Nat \ {0},
           NEW b \in Seq(S), NEW c \in Seq(S), Len(b) = m, Len(c) = n
    PROVE  /\ b \o c \in Seq(S) /\ Len(b \o c) = m + n
           /\ SubSeq(b \o c, 1, m) = b /\ SubSeq(b \o c, m + 1, m + n) = c
<1>1. b \in Seq(S) /\ Len(b) = m /\ c \in Seq(S) /\ Len(c) = n
  OBVIOUS
<1>2. b \o c \in Seq(S) /\ Len(b \o c) = m + n
  BY <1>1, ConcatProperties
<1>3. SubSeq(b \o c, 1, m) = b
  <2>1. SubSeq(b \o c, 1, Len(b)) = SubSeq(b, 1, Len(b))
    <3>1. 1 \in 1 .. Len(b) /\ Len(b) \in 1 .. Len(b)
      BY <1>1
    <3>. QED
      BY <1>1, <3>1, SubSeqOfConcat1
  <2>2. SubSeq(b, 1, Len(b)) = b
    BY <1>1, SubSeqFull
  <2>. QED
    BY <1>1, <2>1, <2>2
<1>4. SubSeq(b \o c, m + 1, m + n) = c
  <2> DEFINE p == m + 1
             q == m + n
  <2>1. p \in Len(b) + 1 .. Len(b) + Len(c) /\ q \in Len(b) + 1 .. Len(b) + Len(c) /\ p - Len(b) = 1 /\
        q - Len(b) = Len(c)
    BY <1>1
  <2> HIDE DEF p, q
  <2>2. SubSeq(b \o c, p, q) = SubSeq(c, p - Len(b), q - Len(b))
    BY <1>1, <2>1, SubSeqOfConcat2
  <2>3. SubSeq(c, 1, Len(c)) = c
    BY <1>1, SubSeqFull
  <2>. QED
    BY <2>1, <2>2, <2>3 DEF p, q
<1>. QED
  BY <1>2, <1>3, <1>4

(* Records of a text. *)
TextOf(x, y, z) == [net |-> x, label |-> y, chars |-> z]

(* The members of a text.                                                  *)
LEMMA TextFields ==
    ASSUME NEW x, NEW y, NEW z
    PROVE  TextOf(x, y, z).net = x /\ TextOf(x, y, z).label = y /\ TextOf(x, y, z).chars = z
BY DEF TextOf

LEMMA TextIn ==
    ASSUME NEW A, NEW B, NEW C, NEW x \in A, NEW y \in B, NEW z \in C
    PROVE  TextOf(x, y, z) \in [net : A, label : B, chars : C]
BY DEF TextOf

LabelsOf(a) == {"", a.type}

CharsOf(a) == a.body \o a.checksum

(* A text is made of the characters of the body, then of the checksum.     *)
LEMMA ShownGood ==
    ASSUME NEW a, GoodAddress(a), NEW l \in LabelsOf(a)
    PROVE  GoodText(TextOf(a.net, l, CharsOf(a)))
<1> DEFINE s == CharsOf(a)
           b == a.body
           c == a.checksum
           x == a.net
<1>1. b \in Seq(Chars) /\ c \in Seq(Chars)
  BY DEF GoodAddress, Chars
<1>2. s = b \o c
  BY DEF CharsOf
<1>3. x \in Nets /\ l \in Labels
  BY DEF GoodAddress, Labels, LabelsOf
<1> HIDE DEF b, c, s, x
<1>4. s \in Seq(Chars)
  BY <1>1, <1>2, ConcatProperties
<1>5. TextOf(x, l, s) \in [net : Nets, label : Labels, chars : Seq(Chars)]
  BY <1>3, <1>4, TextIn
<1>. QED
  BY <1>5 DEF GoodText, s, x

(* That of a whole object has 42: 34 of the body and 8 of the checksum.    *)
LEMMA ShownParts ==
    ASSUME NEW a, Whole(a)
    PROVE  /\ Len(CharsOf(a)) = 42
           /\ SubSeq(CharsOf(a), 1, 34) = a.body /\ SubSeq(CharsOf(a), 35, 42) = a.checksum
<1> DEFINE s == CharsOf(a)
           b == a.body
           c == a.checksum
           m == 34
           n == 8
<1>1. b \in [1 .. m -> Symbol] /\ c \in [1 .. n -> Symbol]
  BY DEF Whole, Tuples
<1>n. m \in Nat \ {0} /\ n \in Nat \ {0}
  OBVIOUS
<1>2. m + n = 42 /\ m + 1 = 35 /\ m = 34
  OBVIOUS
<1>3. s = b \o c
  BY DEF CharsOf
<1> HIDE DEF b, c, m, n, s
<1>q. b \in Seq(Symbol) /\ c \in Seq(Symbol) /\ Len(b) = m /\ Len(c) = n
  BY <1>1, <1>n, SeqOfFcn
<1>t. b \o c \in Seq(Symbol) /\ Len(b \o c) = m + n /\ SubSeq(b \o c, 1, m) = b /\ SubSeq(b \o c, m + 1, m + n) = c
  BY <1>q, <1>n, TwoParts
<1>4. Len(s) = m + n /\ SubSeq(s, 1, m) = b /\ SubSeq(s, m + 1, m + n) = c
  BY <1>t, <1>3
<1>5. Len(s) = 42 /\ SubSeq(s, 1, 34) = b /\ SubSeq(s, 35, 42) = c
  BY <1>2, <1>4
<1>. QED
  BY <1>5 DEF b, c, s

(* Both forms of the text have these characters, and differ in the label.  *)
LEMMA ShownAs ==
    ASSUME NEW a, NEW v \in BOOLEAN
    PROVE  \E l \in LabelsOf(a) : Base32(a, v) = TextOf(a.net, l, CharsOf(a))
<1>1. CASE v = TRUE
  BY <1>1 DEF Base32, TextOf, LabelsOf, CharsOf
<1>2. CASE v = FALSE
  BY <1>2 DEF Base32, TextOf, LabelsOf, CharsOf
<1>. QED
  BY <1>1, <1>2

(* What GetBase32Address() and GetVerboseBase32Address() return.           *)
LEMMA Shown ==
    ASSUME NEW a, GoodAddress(a), NEW v \in BOOLEAN
    PROVE  /\ GoodText(Base32(a, v)) /\ Base32(a, v).net = a.net /\ Base32(a, v).label \in LabelsOf(a)
           /\ Base32(a, v).chars = CharsOf(a)
<1>1. PICK l \in LabelsOf(a) : Base32(a, v) = TextOf(a.net, l, CharsOf(a))
  BY ShownAs
<1> DEFINE s == CharsOf(a)
           t == Base32(a, v)
           x == a.net
<1>2. GoodText(TextOf(a.net, l, s))
  BY ShownGood
<1>3. t = TextOf(x, l, s)
  BY <1>1
<1> HIDE DEF s, t, x
<1>4. t.net = x /\ t.label = l /\ t.chars = s
  BY <1>3, TextFields
<1>. QED
  BY <1>2, <1>3, <1>4 DEF s, t, x

(* Body() of a text finds the symbols again, or index 0.                   *)
LEMMA IndicesOfSymbols == ASSUME NEW n, NEW s \in [1 .. n -> Symbol] PROVE Indices(s) = s
<1>1. \A x \in Symbol : x # Foreign
  BY DEF Symbol, Foreign
<1>. QED
  BY <1>1 DEF Indices

LEMMA IndicesType == ASSUME NEW n, NEW s \in [1 .. n -> Chars] PROVE Indices(s) \in [1 .. n -> Symbol]
<1>1. 0 \in Symbol
  BY DEF Symbol
<1>2. \A x \in Chars : x # Foreign => x \in Symbol
  BY DEF Chars
<1>3. \A i \in 1 .. n : (IF s[i] = Foreign THEN 0 ELSE s[i]) \in Symbol
  BY <1>1, <1>2
<1>. QED
  BY <1>3 DEF Indices

(* A text made from a valid address is read as that address. *)
LEMMA ShownAndRead ==
    ASSUME NEW a, GoodAddress(a), IsValid(a), NEW v \in BOOLEAN
    PROVE  NewFromBase32(Base32(a, v)) = a
<1> DEFINE t == Base32(a, v)
           n == Len(t.chars)
           body == Indices(SubSeq(t.chars, 1, n - 8))
           type == CalcAddressType(Tail(convert(body, 5, 8)))
           sum == CalcChecksum(t.net, body)
<1>w. Whole(a)
  BY DEF GoodAddress
<1>s. t.net = a.net /\ t.label \in LabelsOf(a) /\ t.chars = CharsOf(a)
  BY Shown
<1>1. /\ t.net = a.net /\ t.label \in LabelsOf(a) /\ n = 42
      /\ SubSeq(t.chars, 1, 34) = a.body /\ SubSeq(t.chars, 35, 42) = a.checksum
  BY <1>w, <1>s, ShownParts
<1>2. Matches(t) /\ Labelled(t, type) /\ Summed(t, sum) => NewFromBase32(t) = setCache(t.net, type, body, sum)
  BY DEF NewFromBase32
<1>3. /\ Matches(t) <=> n = 42 /\ t.label # "invalid"
      /\ Labelled(t, type) <=> t.label \in {"", type}
      /\ Summed(t, sum) <=> SubSeq(t.chars, n - 7, n) = sum
  BY DEF Matches, Labelled, Summed
<1> HIDE DEF t, n
<1>4. n - 8 = 34 /\ n - 7 = 35
  <2>1. n = 42
    BY <1>1
  <2>. QED
    BY <2>1
<1>5. body = a.body
  <2>1. a.body \in [1 .. 34 -> Symbol]
    BY <1>w DEF Whole
  <2>2. Indices(a.body) = a.body
    BY <2>1, IndicesOfSymbols
  <2>. QED
    BY <1>1, <1>4, <2>2
<1> HIDE DEF body
<1>6. sum = CalcChecksum(a.net, a.body) /\ type = CalcAddressType(Tail(convert(a.body, 5, 8)))
  BY <1>1, <1>5
<1> HIDE DEF type, sum
<1>7. a = setCache(a.net, type, a.body, sum)
  BY <1>6, <1>w DEF Whole, Caches
<1>8. a.type = type /\ a.checksum = sum
  BY <1>7 DEF setCache
<1>9. Labelled(t, type) /\ Summed(t, sum)
  BY <1>1, <1>3, <1>4, <1>8 DEF LabelsOf
<1>10. t.label # "invalid"
  BY <1>1 DEF IsValid, LabelsOf
<1>11. Matches(t)
  BY <1>1, <1>3, <1>10
<1>. QED
  BY <1>1, <1>2, <1>5, <1>7, <1>9, <1>11 DEF t

(* A text of 42 characters has 34 of a body.                               *)
LEMMA BodyOfText ==
    ASSUME NEW c \in Seq(Chars), Len(c) = 42
    PROVE  Indices(SubSeq(c, 1, Len(c) - 8)) \in [1 .. 34 -> Symbol]
<1> DEFINE m == 34
<1>1. m \in Int /\ 1 \in Int /\ 1 <= m /\ m - 1 + 1 = m /\ Len(c) - 8 = m /\ m = 34 /\ m < Len(c)
  OBVIOUS
<1> DEFINE n == Len(c)
<1> HIDE DEF m, n
<1>f. c \in [1 .. n -> Chars] /\ n \in Int /\ m < n
  <2>1. n \in Nat /\ Len(c) = n
    BY LenProperties DEF n
  <2>2. m < n
    BY <1>1 DEF n
  <2>3. c \in [1 .. n -> Chars]
    BY <2>1, FcnOfSeq
  <2>. QED
    BY <2>1, <2>2, <2>3
<1>2. \A i \in 1 .. m : c[i] \in Chars
  <2>1. m \in Int
    BY <1>1
  <2>2. \A i \in 1 .. m : i \in 1 .. n
    BY ONLY <1>f, <2>1
  <2>. QED
    BY ONLY <1>f, <2>2
<1>3. SubSeq(c, 1, m) \in Seq(Chars) /\ Len(SubSeq(c, 1, m)) = m
  BY <1>1, <1>2, SubSeqProperties
<1>4. SubSeq(c, 1, m) \in [1 .. m -> Chars]
  BY <1>3, FcnOfSeq
<1>5. Indices(SubSeq(c, 1, m)) \in [1 .. m -> Symbol]
  BY <1>4, IndicesType
<1>. QED
  BY <1>1, <1>5

(* Whatever text is parsed, the object is refused or its caches agree.     *)
LEMMA Read == ASSUME NEW t, GoodText(t) PROVE GoodAddress(NewFromBase32(t))
<1> DEFINE c == t.chars
           body == Indices(SubSeq(c, 1, Len(c) - 8))
           type == CalcAddressType(Tail(convert(body, 5, 8)))
           sum == CalcChecksum(t.net, body)
<1>1. c \in Seq(Chars) /\ t.net \in Nets
  BY DEF GoodText
<1>2. Testnet \in Nets
  <2>1. NetworkType(1) = Testnet
    BY DEF NetworkType
  <2>. QED
    BY <2>1 DEF Nets
<1>3. NewFromBase32(t) =
        IF ~Matches(t) THEN Refused(Testnet, <<>>, <<>>)
        ELSE IF ~Labelled(t, type) THEN Refused(t.net, body, <<>>)
        ELSE IF ~Summed(t, sum) THEN Refused(t.net, body, sum)
        ELSE Caches(t.net, body)
  BY DEF NewFromBase32, Caches
<1>4. Matches(t) => Len(c) = 42
  BY DEF Matches
<1>5. << >> \in Seq(Symbol)
  BY EmptySeq
<1> HIDE DEF c, type
<1>6. CASE ~Matches(t)
  BY <1>2, <1>3, <1>5, <1>6, GoodRefused
<1>7. CASE Matches(t)
  <2>1. body \in [1 .. 34 -> Symbol]
    BY <1>1, <1>4, <1>7, BodyOfText
  <2> HIDE DEF body
  <2>2. sum \in Tuples
    BY <1>1, <2>1, ChecksumType
  <2> HIDE DEF sum
  <2>3. body \in Seq(Symbol) /\ sum \in Seq(Symbol)
    <3> DEFINE l == 34
               m == 8
    <3>1. l \in Nat /\ m \in Nat /\ body \in [1 .. l -> Symbol] /\ sum \in [1 .. m -> Symbol]
      BY <2>1, <2>2 DEF Tuples
    <3> HIDE DEF l, m
    <3>. QED
      BY <3>1, SeqOfFcn
  <2>4. GoodAddress(Caches(t.net, body))
    BY <1>1, <2>1, GoodCaches
  <2>5. GoodAddress(Refused(t.net, body, <<>>)) /\ GoodAddress(Refused(t.net, body, sum))
    BY <1>1, <1>5, <2>3, GoodRefused
  <2>. QED
    BY <1>3, <1>7, <2>4, <2>5
<1>. QED
  BY <1>6, <1>7

-----------------------------------------------------------------------------
(* The inductive invariant: both objects are whole if they are valid, the  *)
(* text is one, and while nothing is mistyped it is the text of origin,    *)
(* which is what a parsed object was read from.                            *)
JourneyInv ==
    /\ GoodAddress(addr) /\ GoodAddress(origin) /\ GoodText(text)
    /\ typos \subseteq 0 .. 42
    /\ stage = "text" /\ typos = {} => \E v \in BOOLEAN : text = Base32(origin, v)
    /\ RoundTrip

(* The invariant holds at first.                                           *)
LEMMA JourneyStarts == AddressInit => JourneyInv
<1> SUFFICES ASSUME AddressInit PROVE JourneyInv
  OBVIOUS
<1>1. GoodAddress(addr) /\ GoodAddress(origin)
  BY GoodNull DEF AddressInit
<1>2. GoodText(text)
  BY GoodNull, Shown DEF AddressInit
<1>. QED
  BY <1>1, <1>2 DEF AddressInit, JourneyInv, RoundTrip

(* Every operation, and every mistake of the typist, keeps it.             *)
LEMMA JourneyGoesOn == JourneyInv /\ [AddressNext]_addressVars => JourneyInv'
<1> SUFFICES ASSUME JourneyInv, [AddressNext]_addressVars PROVE JourneyInv'
  OBVIOUS
<1>0. /\ GoodAddress(addr) /\ GoodAddress(origin) /\ GoodText(text) /\ typos \subseteq 0 .. 42
      /\ stage = "text" /\ typos = {} => \E v \in BOOLEAN : text = Base32(origin, v)
  BY DEF JourneyInv
<1>1. ASSUME NEW hex \in HexAddresses, NEW id \in NetworkIDs, NewFromHex(hex, id) PROVE JourneyInv'
  <2>1. hex \in [1 .. 20 -> Byte]
    BY AddressAssumption
  <2>2. GoodAddress(addr)'
    BY <1>1, <2>1, GoodNew DEF NewFromHex
  <2>. QED
    BY <1>0, <1>1, <2>2 DEF JourneyInv, NewFromHex, RoundTrip
<1>7. ASSUME InvaildAddress PROVE JourneyInv'
  <2>1. GoodAddress(addr)'
    BY <1>7, GoodNull DEF InvaildAddress
  <2>. QED
    BY <1>0, <1>7, <2>1 DEF JourneyInv, InvaildAddress, RoundTrip
<1>2. ASSUME NEW verbose \in BOOLEAN, ShowBase32(verbose) PROVE JourneyInv'
  <2>1. text' = Base32(addr, verbose) /\ origin' = addr /\ addr' = addr /\ typos' = {} /\ stage' = "text"
    BY <1>2 DEF ShowBase32
  <2>2. GoodText(text)'
    BY <1>0, <2>1, Shown
  <2>. QED
    BY <1>0, <2>1, <2>2 DEF JourneyInv, RoundTrip
<1>3. ASSUME NEW i \in 1 .. 42, NEW c \in TypoSymbols, Mistype(i, c) PROVE JourneyInv'
  <2>1. /\ text' = [text EXCEPT !.chars[i] = c] /\ typos' = typos \cup {i} /\ stage = "text"
        /\ i \in DOMAIN text.chars
        /\ addr' = addr /\ stage' = stage /\ origin' = origin
    BY <1>3 DEF Mistype
  <2>2. c \in Chars
    BY AddressAssumption DEF Chars
  <2>3. text \in [net : Nets, label : Labels, chars : Seq(Chars)]
    BY <1>0 DEF GoodText
  <2>4. GoodText(text)'
    <3> DEFINE s == text.chars
               u == [s EXCEPT ![i] = c]
               x == text.net
               y == text.label
    <3>1. s \in Seq(Chars) /\ i \in 1 .. Len(s) /\ x \in Nets /\ y \in Labels
      BY <2>1, <2>3
    <3>2. u \in Seq(Chars)
      BY <2>2, <3>1, ExceptSeq
    <3>3. text' = TextOf(x, y, u)
      BY <2>1, <2>3 DEF TextOf
    <3> HIDE DEF s, u, x, y
    <3>4. TextOf(x, y, u) \in [net : Nets, label : Labels, chars : Seq(Chars)]
      BY <3>1, <3>2, TextIn
    <3>. QED
      BY <3>3, <3>4 DEF GoodText
  <2>5. i \in 0 .. 42 /\ typos' # {} /\ typos' \subseteq 0 .. 42
    BY <1>0, <2>1
  <2>. QED
    BY <1>0, <2>1, <2>4, <2>5 DEF JourneyInv, RoundTrip
<1>4. ASSUME NEW id \in NetworkIDs, MistakeNetwork(id) PROVE JourneyInv'
  <2>1. /\ text' = [text EXCEPT !.net = NetworkType(id)] /\ typos' = {0}
        /\ addr' = addr /\ stage' = stage /\ origin' = origin
    BY <1>4 DEF MistakeNetwork
  <2>2. NetworkType(id) \in Nets
    BY DEF Nets
  <2>3. text \in [net : Nets, label : Labels, chars : Seq(Chars)]
    BY <1>0 DEF GoodText
  <2>4. GoodText(text)'
    BY <2>1, <2>2, <2>3 DEF GoodText
  <2>5. typos' # {} /\ typos' \subseteq 0 .. 42
    BY <2>1
  <2>. QED
    BY <1>0, <2>1, <2>4, <2>5 DEF JourneyInv, RoundTrip
<1>5. ASSUME Parse PROVE JourneyInv'
  <2>1. stage = "text" /\ addr' = NewFromBase32(text) /\ stage' = "parsed" /\ text' = text /\
        origin' = origin /\ typos' = typos
    BY <1>5 DEF Parse
  <2>2. GoodAddress(addr)'
    BY <1>0, <2>1, Read
  <2>3. typos = {} /\ IsValid(origin) => addr' = origin
    BY <1>0, <2>1, ShownAndRead
  <2>4. RoundTrip'
    BY <2>1, <2>3 DEF RoundTrip
  <2>. QED
    BY <1>0, <2>1, <2>2, <2>4 DEF JourneyInv
<1>6. ASSUME UNCHANGED addressVars PROVE JourneyInv'
  BY <1>0, <1>6 DEF JourneyInv, addressVars, RoundTrip
<1>. QED
  BY <1>1, <1>2, <1>3, <1>4, <1>5, <1>6, <1>7 DEF AddressNext

(* It implies the properties.                                              *)
LEMMA JourneyImplies == JourneyInv => AddressTypeOK /\ RoundTrip
<1> SUFFICES ASSUME JourneyInv PROVE AddressTypeOK
  BY DEF JourneyInv
<1>1. text \in [net : Nets, label : Labels, chars : Seq(Chars)]
  BY DEF JourneyInv, GoodText
<1>2. addr.body \in Seq(Symbol) /\ addr.checksum \in Seq(Symbol) /\ addr.hex \in Seq(Byte)
  BY DEF JourneyInv, GoodAddress
<1>3. ASSUME IsValid(addr) PROVE Len(addr.body) = 34 /\ Len(addr.checksum) = 8 /\ Len(addr.hex) = 20
  <2> DEFINE b == addr.body
             d == addr.checksum
             h == addr.hex
             k == 34
             l == 8
             m == 20
  <2>1. b \in [1 .. k -> Symbol] /\ d \in [1 .. l -> Symbol] /\ h \in [1 .. m -> Byte]
    BY <1>3 DEF JourneyInv, GoodAddress, Whole, Tuples
  <2>2. k \in Nat /\ l \in Nat /\ m \in Nat
    OBVIOUS
  <2> HIDE DEF b, d, h, k, l, m
  <2>3. Len(b) = k /\ Len(d) = l /\ Len(h) = m
    BY <2>1, <2>2, SeqOfFcn
  <2>. QED
    BY <2>3 DEF b, d, h, k, l, m
<1> DEFINE c == text.chars
<1>4. c \in Seq(Chars)
  BY <1>1
<1> HIDE DEF c
<1>6. text = TextOf(text.net, text.label, c) /\ text.net \in Nets /\ text.label \in Labels
  BY <1>1 DEF c, TextOf
<1>7. text \in Texts
  <2>1. Texts = [net : Nets, label : {"", "null", "builtin", "user", "contract", "invalid"}, chars : Seq(Chars)]
    BY Zenon DEF Texts, Nets, Chars
  <2>2. text.label \in {"", "null", "builtin", "user", "contract", "invalid"}
    BY <1>6 DEF Labels, Types
  <2> DEFINE x == text.net
             y == text.label
  <2>3. x \in Nets /\ y \in {"", "null", "builtin", "user", "contract", "invalid"} /\ text = TextOf(x, y, c)
    BY <1>6, <2>2
  <2> HIDE DEF x, y
  <2>4. TextOf(x, y, c) \in [net : Nets, label : {"", "null", "builtin", "user", "contract", "invalid"}, chars : Seq(Chars)]
    BY <1>4, <2>3, TextIn
  <2>. QED
    BY <2>1, <2>3, <2>4
<1>8. typos \subseteq 0 .. 42
  BY DEF JourneyInv
<1>. QED
  BY <1>2, <1>3, <1>7, <1>8 DEF AddressTypeOK

(* An object that IsValid() accepts has the 20 bytes toEthCommonAddr()     *)
(* reads, the 34 symbols and the checksum of its text, for every address,  *)
(* network and mistyping; an object of a refused text, which has no bytes, *)
(* is never taken for valid, and neither convert() of lib.cpp nor Body()   *)
(* makes a group that is out of range.                                     *)
THEOREM AddressTypeCorrect == AddressSpec => []AddressTypeOK
<1>1. JourneyInv => AddressTypeOK
  BY JourneyImplies
<1>. QED
  BY JourneyStarts, JourneyGoesOn, <1>1, PTL DEF AddressSpec

(* A valid address that is shown in either form and parsed again is the    *)
(* same object, for every address of 20 bytes and every network.           *)
THEOREM RoundTripAlways == AddressSpec => []RoundTrip
<1>1. JourneyInv => RoundTrip
  BY JourneyImplies
<1>. QED
  BY JourneyStarts, JourneyGoesOn, <1>1, PTL DEF AddressSpec
====
