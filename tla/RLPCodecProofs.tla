--------------------------- MODULE RLPCodecProofs --------------------------
(* Proofs about RLPCodec: the list stack of RLPStream counts right, for    *)
(* every nesting of lists and every number of raw items.                   *)
EXTENDS RLPCodec, RecursionLemmas, SequenceTheorems

-----------------------------------------------------------------------------
(* Sequences of whatever they are sequences of. *)

IsSeq(s) == \E T : s \in Seq(T)

LEMMA SeqBasics == ASSUME NEW s, IsSeq(s) PROVE Len(s) \in Nat /\ DOMAIN s = 1 .. Len(s)
BY DEF IsSeq

LEMMA SeqEmpty == IsSeq(<<>>) /\ Len(<<>>) = 0
<1>1. <<>> \in Seq({})
  OBVIOUS
<1>. QED
  BY <1>1 DEF IsSeq

LEMMA SeqOne == ASSUME NEW x PROVE IsSeq(<<x>>) /\ Len(<<x>>) = 1 /\ <<x>>[1] = x
<1>1. <<x>> \in Seq({x})
  OBVIOUS
<1>. QED
  BY <1>1 DEF IsSeq

LEMMA SeqPushed ==
    ASSUME NEW s, IsSeq(s), NEW x
    PROVE  /\ IsSeq(Append(s, x)) /\ Len(Append(s, x)) = Len(s) + 1
           /\ \A k \in 1 .. Len(s) : Append(s, x)[k] = s[k]
           /\ Append(s, x)[Len(s) + 1] = x
<1>1. PICK T : s \in Seq(T)
  BY DEF IsSeq
<1> DEFINE U == T \cup {x}
<1>2. s \in Seq(U) /\ x \in U
  BY <1>1
<1> HIDE DEF U
<1>3. Append(s, x) \in Seq(U)
  BY <1>2
<1>4. Len(Append(s, x)) = Len(s) + 1 /\ \A k \in 1 .. Len(s) : Append(s, x)[k] = s[k]
  BY <1>2, AppendProperties
<1>5. Append(s, x)[Len(s) + 1] = x
  BY <1>2, AppendProperties
<1>. QED
  BY <1>3, <1>4, <1>5 DEF IsSeq

LEMMA SeqJoined ==
    ASSUME NEW s, IsSeq(s), NEW t, IsSeq(t)
    PROVE  IsSeq(s \o t) /\ Len(s \o t) = Len(s) + Len(t)
<1>1. PICK T : s \in Seq(T)
  BY DEF IsSeq
<1>2. PICK V : t \in Seq(V)
  BY DEF IsSeq
<1> DEFINE U == T \cup V
<1>3. s \in Seq(U) /\ t \in Seq(U)
  BY <1>1, <1>2
<1> HIDE DEF U
<1>4. s \o t \in Seq(U) /\ Len(s \o t) = Len(s) + Len(t)
  BY <1>3, ConcatProperties
<1>. QED
  BY <1>4 DEF IsSeq

LEMMA SeqChanged ==
    ASSUME NEW s, IsSeq(s), NEW i \in 1 .. Len(s), NEW x
    PROVE  /\ IsSeq([s EXCEPT ![i] = x]) /\ Len([s EXCEPT ![i] = x]) = Len(s)
           /\ [s EXCEPT ![i] = x][i] = x
           /\ \A k \in 1 .. Len(s) : k # i => [s EXCEPT ![i] = x][k] = s[k]
<1>1. PICK T : s \in Seq(T)
  BY DEF IsSeq
<1> DEFINE U == T \cup {x}
           r == [s EXCEPT ![i] = x]
<1>2. s \in Seq(U) /\ x \in U
  BY <1>1
<1> HIDE DEF U
<1>3. r \in Seq(U) /\ Len(r) = Len(s)
  BY <1>2
<1>4. r[i] = x /\ \A k \in 1 .. Len(s) : k # i => r[k] = s[k]
  BY <1>2
<1>. QED
  BY <1>3, <1>4 DEF IsSeq

LEMMA SeqFront ==
    ASSUME NEW s, IsSeq(s), Len(s) > 0
    PROVE  /\ IsSeq(Front(s)) /\ Len(Front(s)) = Len(s) - 1
           /\ \A k \in 1 .. Len(s) - 1 : Front(s)[k] = s[k]
<1>1. PICK T : s \in Seq(T)
  BY DEF IsSeq
<1> DEFINE n == Len(s) - 1
<1>n. n \in Nat /\ \A k \in 1 .. n : s[k] \in T
  BY <1>1
<1>f. Front(s) = SubSeq(s, 1, n)
  BY DEF Front
<1> HIDE DEF n
<1>2. Front(s) \in Seq(T) /\ Len(Front(s)) = n
  <2>1. SubSeq(s, 1, n) \in Seq(T) /\ Len(SubSeq(s, 1, n)) = IF 1 <= n THEN n - 1 + 1 ELSE 0
    BY <1>n, SubSeqProperties
  <2>. QED
    BY <1>n, <1>f, <2>1
<1>3. \A k \in 1 .. n : Front(s)[k] = s[k]
  <2>1. \A k \in 1 .. n - 1 + 1 : SubSeq(s, 1, n)[k] = s[1 + k - 1]
    BY <1>n, SubSeqProperties
  <2>. QED
    BY <1>n, <1>f, <2>1
<1>. QED
  BY <1>2, <1>3 DEF IsSeq, n

-----------------------------------------------------------------------------
(* The list stack, the lists of the history, and the c items that have     *)
(* been added to the innermost list and not yet been noted.                *)

Entry(e) == e.left \in Nat \ {0} /\ e = [left |-> e.left, start |-> e.start]

Level(e) == e.size \in Nat /\ IsSeq(e.items) /\ e = [size |-> e.size, items |-> e.items]

ToCome(e) == e.size - Len(e.items)

Counts(stack, ls, c) ==
    /\ IsSeq(stack) /\ IsSeq(ls) /\ c \in Nat /\ Len(ls) = Len(stack) + 1
    /\ \A k \in 1 .. Len(ls) : Level(ls[k])
    /\ \A k \in 1 .. Len(stack) : Entry(stack[k])
    /\ \A k \in 1 .. Len(stack) - 1 : stack[k].left = ToCome(ls[k + 1])
    /\ Len(stack) > 0 =>
          stack[Len(stack)].left = ToCome(ls[Len(ls)]) + c /\ stack[Len(stack)].left >= c

(* Items are added to the innermost list. *)
LEMMA AddedTo ==
    ASSUME NEW ls, IsSeq(ls), Len(ls) > 0, \A k \in 1 .. Len(ls) : Level(ls[k]), NEW xs, IsSeq(xs)
    PROVE  /\ IsSeq(AddTo(ls, xs)) /\ Len(AddTo(ls, xs)) = Len(ls)
           /\ \A k \in 1 .. Len(ls) : Level(AddTo(ls, xs)[k])
           /\ \A k \in 1 .. Len(ls) - 1 : AddTo(ls, xs)[k] = ls[k]
           /\ ToCome(AddTo(ls, xs)[Len(ls)]) = ToCome(ls[Len(ls)]) - Len(xs)
<1> DEFINE n == Len(ls)
           top == ls[n]
           new == [size |-> top.size, items |-> top.items \o xs]
<1>1. n \in 1 .. Len(ls) /\ n \in Nat
  BY SeqBasics
<1>2. Level(top)
  BY <1>1
<1>3. AddTo(ls, xs) = [ls EXCEPT ![n] = new]
  <2>1. AddTo(ls, xs) = [ls EXCEPT ![n] = [top EXCEPT !.items = top.items \o xs]]
    <3>1. DOMAIN ls = 1 .. Len(ls)
      BY SeqBasics
    <3>. QED
      BY <1>1, <3>1 DEF AddTo
  <2>2. [top EXCEPT !.items = top.items \o xs] = new
    <3> DEFINE a == top.size
               b == top.items
               y == top.items \o xs
    <3>1. top = [size |-> a, items |-> b]
      BY <1>2 DEF Level
    <3> HIDE DEF a, b, y, top
    <3>2. [[size |-> a, items |-> b] EXCEPT !.items = y] = [size |-> a, items |-> y]
      OBVIOUS
    <3>3. [top EXCEPT !.items = y] = [size |-> a, items |-> y]
      BY <3>1, <3>2
    <3>. QED
      BY <3>3 DEF a, y
  <2>. QED
    BY <2>1, <2>2
<1>4. IsSeq(top.items \o xs) /\ Len(top.items \o xs) = Len(top.items) + Len(xs) /\ Len(top.items) \in Nat /\ Len(xs) \in Nat
  BY <1>2, SeqJoined, SeqBasics DEF Level
<1>5. Level(new) /\ ToCome(new) = ToCome(top) - Len(xs)
  BY <1>2, <1>4 DEF Level, ToCome
<1> HIDE DEF new, n
<1> DEFINE r == [ls EXCEPT ![n] = new]
<1>6. IsSeq(r) /\ Len(r) = Len(ls) /\ r[n] = new /\ \A k \in 1 .. Len(ls) : k # n => r[k] = ls[k]
  BY <1>1, SeqChanged
<1> HIDE DEF r
<1>7. \A k \in 1 .. Len(ls) : Level(r[k])
  BY <1>5, <1>6
<1>8. \A k \in 1 .. n - 1 : r[k] = ls[k]
  BY <1>1, <1>6 DEF n
<1>. QED
  BY <1>3, <1>5, <1>6, <1>7, <1>8 DEF r, n

(* The items of an append, before they are noted. *)
LEMMA AddedFirst ==
    ASSUME NEW stack, NEW ls, Counts(stack, ls, 0), NEW xs, IsSeq(xs),
           Len(stack) > 0 => stack[Len(stack)].left >= Len(xs)
    PROVE  Counts(stack, AddTo(ls, xs), Len(xs))
<1> DEFINE r == AddTo(ls, xs)
<1>1. IsSeq(ls) /\ Len(ls) > 0 /\ (\A k \in 1 .. Len(ls) : Level(ls[k])) /\ Len(stack) \in Nat /\ Len(xs) \in Nat
  BY SeqBasics DEF Counts
<1>2. /\ IsSeq(r) /\ Len(r) = Len(ls) /\ \A k \in 1 .. Len(ls) : Level(r[k])
      /\ \A k \in 1 .. Len(ls) - 1 : r[k] = ls[k]
      /\ ToCome(r[Len(ls)]) = ToCome(ls[Len(ls)]) - Len(xs)
  BY <1>1, AddedTo
<1> HIDE DEF r
<1>3. \A k \in 1 .. Len(stack) - 1 : stack[k].left = ToCome(r[k + 1])
  BY <1>1, <1>2 DEF Counts
<1>4. ToCome(ls[Len(ls)]) \in Int
  <2>1. Level(ls[Len(ls)])
    BY <1>1, SeqBasics
  <2>. QED
    BY <2>1, SeqBasics DEF Level, ToCome
<1>5. Len(stack) > 0 => stack[Len(stack)].left = ToCome(r[Len(r)]) + Len(xs) /\ stack[Len(stack)].left >= Len(xs)
  BY <1>1, <1>2, <1>4 DEF Counts
<1>. QED
  BY <1>1, <1>2, <1>3, <1>5 DEF Counts, r

-----------------------------------------------------------------------------
(* A round of noteAppended, and one of the history. *)

Noting(o, s, c) == [out |-> o, stack |-> s, count |-> c]

NoteStep(st) == IF st.count = 0 THEN st ELSE NoteRound(st)

LevelStep(ls) == IF Full(ls) THEN AddTo(Front(ls), <<ListItem(Last(ls).items)>>) ELSE ls

(* The innermost list has items to come: both stop. *)
LEMMA RoundOpen ==
    ASSUME NEW o, NEW s, NEW ls, NEW c \in Nat \ {0}, Counts(s, ls, c), Len(s) > 0, s[Len(s)].left > c
    PROVE  /\ LevelStep(ls) = ls
           /\ \E t : NoteStep(Noting(o, s, c)) = Noting(o, t, 0) /\ Counts(t, ls, 0)
<1> DEFINE n == Len(s)
           e == s[n]
           new == [left |-> e.left - c, start |-> e.start]
           t == [s EXCEPT ![n] = new]
<1>1. n \in Nat /\ n \in 1 .. Len(s) /\ Len(ls) = n + 1 /\ DOMAIN s = 1 .. n
  BY SeqBasics DEF Counts
<1>2. Entry(e) /\ Level(ls[Len(ls)])
  BY <1>1 DEF Counts
<1>3. e.left = ToCome(ls[Len(ls)]) + c /\ e.left > c /\ e.left \in Nat
  BY <1>1, <1>2 DEF Counts, Entry
<1>4. ~Full(ls)
  BY <1>2, <1>3, SeqBasics DEF Full, Last, ToCome, Level
<1>5. NoteStep(Noting(o, s, c)) = Noting(o, t, 0)
  <2>1. NoteStep(Noting(o, s, c)) = Noting(o, [s EXCEPT ![n].left = e.left - c], 0)
    BY <1>3 DEF NoteStep, NoteRound, Noting, Last
  <2>3. [s EXCEPT ![n].left = e.left - c] = t
    <3> DEFINE a == e.left
               p == e.start
               v == e.left - c
    <3>1. [s EXCEPT ![n].left = v] = [s EXCEPT ![n] = [e EXCEPT !.left = v]]
      BY <1>1
    <3>2. e = [left |-> a, start |-> p]
      BY <1>2 DEF Entry
    <3> HIDE DEF a, p, v, e
    <3>3. [[left |-> a, start |-> p] EXCEPT !.left = v] = [left |-> v, start |-> p]
      OBVIOUS
    <3>4. [e EXCEPT !.left = v] = [left |-> v, start |-> p]
      BY <3>2, <3>3
    <3>. QED
      BY <3>1, <3>4 DEF v, p, t
  <2>. QED
    BY <2>1, <2>3
<1>6. Entry(new) /\ new.left = ToCome(ls[Len(ls)])
  <2>1. ToCome(ls[Len(ls)]) \in Int
    BY <1>2, SeqBasics DEF Level, ToCome
  <2>. QED
    BY <1>3, <2>1 DEF Entry
<1> HIDE DEF new, n
<1>7. IsSeq(t) /\ Len(t) = Len(s) /\ t[n] = new /\ \A k \in 1 .. Len(s) : k # n => t[k] = s[k]
  <2>1. IsSeq(s)
    BY DEF Counts
  <2>2. n \in 1 .. Len(s)
    BY <1>1
  <2>. QED
    BY <2>1, <2>2, SeqChanged
<1> HIDE DEF t
<1>8. Counts(t, ls, 0)
  <2>1. IsSeq(ls) /\ Len(ls) = Len(t) + 1 /\ \A k \in 1 .. Len(ls) : Level(ls[k])
    BY <1>7 DEF Counts
  <2>2. \A k \in 1 .. Len(t) : Entry(t[k])
    BY <1>6, <1>7 DEF Counts
  <2>3. \A k \in 1 .. Len(t) - 1 : t[k].left = ToCome(ls[k + 1])
    <3> TAKE k \in 1 .. Len(t) - 1
    <3>m. Len(t) = Len(s) /\ Len(s) \in Nat
      BY <1>1, <1>7 DEF n
    <3>1. k \in 1 .. Len(s) - 1 /\ k \in 1 .. Len(s) /\ k # n
      BY <3>m DEF n
    <3>2. t[k] = s[k]
      BY <1>7, <3>1
    <3>3. s[k].left = ToCome(ls[k + 1])
      BY <3>1 DEF Counts
    <3>. QED
      BY <3>2, <3>3
  <2>4. t[Len(t)].left = ToCome(ls[Len(ls)]) + 0 /\ t[Len(t)].left >= 0
    BY <1>6, <1>7 DEF n, Entry
  <2>. QED
    BY <1>7, <2>1, <2>2, <2>3, <2>4 DEF Counts
<1>. QED
  BY <1>4, <1>5, <1>8 DEF LevelStep

(* It is complete: it is closed, and one item of the list around it.       *)
LEMMA RoundClosed ==
    ASSUME NEW o, NEW s, NEW ls, NEW c \in Nat \ {0}, Counts(s, ls, c), Len(s) > 0, ~(s[Len(s)].left > c)
    PROVE  \E p : NoteStep(Noting(o, s, c)) = Noting(p, Front(s), 1) /\ Counts(Front(s), LevelStep(ls), 1)
<1> DEFINE n == Len(s)
           m == Len(ls)
           item == ListItem(Last(ls).items)
           t == Front(s)
           f == Front(ls)
           r == AddTo(f, <<item>>)
<1>1. n \in Nat /\ n > 0 /\ m = n + 1 /\ IsSeq(s) /\ IsSeq(ls)
  BY SeqBasics DEF Counts
<1>2. Entry(s[n]) /\ Level(ls[m])
  BY <1>1 DEF Counts
<1>3. ToCome(ls[m]) = 0
  <2>1. s[n].left = ToCome(ls[m]) + c /\ s[n].left >= c /\ ~(s[n].left > c) /\ s[n].left \in Nat
    BY <1>1, <1>2 DEF Counts, Entry
  <2>2. ToCome(ls[m]) \in Int
    BY <1>2, SeqBasics DEF Level, ToCome
  <2>. QED
    BY <2>1, <2>2
<1>4. LevelStep(ls) = r
  <2>1. Len(ls[m].items) = ls[m].size
    BY <1>2, <1>3, SeqBasics DEF Level, ToCome
  <2>. QED
    BY <1>1, <2>1 DEF LevelStep, Full, Last
<1>5. \E p : NoteStep(Noting(o, s, c)) = Noting(p, t, 1)
  BY DEF NoteStep, NoteRound, Noting, Last
<1>6. IsSeq(t) /\ Len(t) = n - 1 /\ \A k \in 1 .. n - 1 : t[k] = s[k]
  BY <1>1, SeqFront
<1>7. IsSeq(f) /\ Len(f) = n /\ \A k \in 1 .. n : f[k] = ls[k]
  <2>1. Len(ls) > 0
    BY <1>1
  <2>2. IsSeq(f) /\ Len(f) = Len(ls) - 1 /\ \A k \in 1 .. Len(ls) - 1 : f[k] = ls[k]
    BY <1>1, <2>1, SeqFront
  <2>3. Len(ls) - 1 = n
    BY <1>1
  <2>. QED
    BY <2>2, <2>3
<1> HIDE DEF t, f
<1>8. \A k \in 1 .. n : Level(f[k])
  BY <1>1, <1>7 DEF Counts
<1>9. IsSeq(<<item>>) /\ Len(<<item>>) = 1
  BY SeqOne
<1> HIDE DEF item
<1>10. /\ IsSeq(r) /\ Len(r) = n /\ \A k \in 1 .. n : Level(r[k])
       /\ \A k \in 1 .. n - 1 : r[k] = f[k]
       /\ ToCome(r[n]) = ToCome(f[n]) - 1
  <2>1. Len(f) > 0 /\ \A k \in 1 .. Len(f) : Level(f[k])
    BY <1>1, <1>7, <1>8
  <2> DEFINE xs == <<item>>
  <2> HIDE DEF xs
  <2>2. /\ IsSeq(AddTo(f, xs)) /\ Len(AddTo(f, xs)) = Len(f)
        /\ \A k \in 1 .. Len(f) : Level(AddTo(f, xs)[k])
        /\ \A k \in 1 .. Len(f) - 1 : AddTo(f, xs)[k] = f[k]
        /\ ToCome(AddTo(f, xs)[Len(f)]) = ToCome(f[Len(f)]) - Len(xs)
    <3>1. IsSeq(xs) /\ IsSeq(f)
      BY <1>7, <1>9 DEF xs
    <3>. QED
      BY <2>1, <3>1, AddedTo
  <2>3. Len(f) = n /\ Len(xs) = 1
    BY <1>7, <1>9 DEF xs
  <2>. QED
    BY <2>2, <2>3 DEF xs
<1> HIDE DEF r
<1>11. Counts(t, r, 1)
  <2>1. \A k \in 1 .. n - 1 : t[k].left = ToCome(ls[k + 1]) /\ Entry(t[k])
    BY <1>1, <1>6 DEF Counts
  <2>2. \A k \in 1 .. n - 2 : t[k].left = ToCome(r[k + 1])
    <3> TAKE k \in 1 .. n - 2
    <3>1. k \in 1 .. n - 1 /\ k + 1 \in 1 .. n - 1 /\ k + 1 \in 1 .. n
      BY <1>1
    <3>2. r[k + 1] = ls[k + 1]
      BY <1>7, <1>10, <3>1
    <3>. QED
      BY <2>1, <3>1, <3>2
  <2>3. n - 1 > 0 => t[n - 1].left = ToCome(r[n]) + 1 /\ t[n - 1].left >= 1
    <3> SUFFICES ASSUME n - 1 > 0 PROVE t[n - 1].left = ToCome(r[n]) + 1 /\ t[n - 1].left >= 1
      OBVIOUS
    <3>1. n - 1 \in 1 .. n - 1 /\ n - 1 + 1 = n /\ n \in 1 .. n
      BY <1>1
    <3>2. t[n - 1].left = ToCome(ls[n]) /\ Entry(t[n - 1])
      BY <2>1, <3>1
    <3>3. f[n] = ls[n] /\ Level(f[n])
      BY <1>7, <1>8, <3>1
    <3>4. ToCome(f[n]) \in Int
      BY <3>3, SeqBasics DEF Level, ToCome
    <3>5. ToCome(r[n]) = ToCome(f[n]) - 1
      BY <1>10
    <3>6. t[n - 1].left \in Nat \ {0}
      BY <3>2 DEF Entry
    <3> HIDE DEF n
    <3>. QED
      BY <3>2, <3>3, <3>4, <3>5, <3>6
  <2>4. Len(t) = n - 1 /\ Len(r) = Len(t) + 1 /\ IsSeq(t) /\ IsSeq(r) /\ n - 1 - 1 = n - 2
    BY <1>1, <1>6, <1>10
  <2>5. (\A k \in 1 .. Len(r) : Level(r[k])) /\ (\A k \in 1 .. Len(t) : Entry(t[k]))
    BY <1>10, <2>1, <2>4
  <2>6. \A k \in 1 .. Len(t) - 1 : t[k].left = ToCome(r[k + 1])
    BY <2>2, <2>4
  <2>7. Len(t) > 0 => t[Len(t)].left = ToCome(r[Len(r)]) + 1 /\ t[Len(t)].left >= 1
    <3>1. Len(r) = n
      BY <1>10
    <3>. QED
      BY <2>3, <2>4, <3>1
  <2>. QED
    BY <2>4, <2>5, <2>6, <2>7 DEF Counts
<1>. QED
  BY <1>4, <1>5, <1>11 DEF t

-----------------------------------------------------------------------------
(* The two loops, of noteAppended and of the history. *)

NoteRuns(out, stack, count) ==
    LET st[n \in 0 .. Len(stack)] ==
            IF n = 0 THEN [out |-> out, stack |-> stack, count |-> count]
            ELSE IF st[n - 1].count = 0 THEN st[n - 1] ELSE NoteRound(st[n - 1])
    IN st

LevelRuns(items) ==
    LET l[n \in 0 .. Len(levels)] ==
            IF n = 0 THEN AddTo(levels, items)
            ELSE IF Full(l[n - 1]) THEN AddTo(Front(l[n - 1]), <<ListItem(Last(l[n - 1]).items)>>)
            ELSE l[n - 1]
    IN l

LEMMA NoteEnd ==
    ASSUME NEW out, NEW stack, NEW count
    PROVE  noteAppended(out, stack, count) = NoteRuns(out, stack, count)[Len(stack)]
BY DEF noteAppended, NoteRuns

LEMMA LevelEnd == ASSUME NEW items PROVE Added(items) = LevelRuns(items)[Len(levels)]
BY DEF Added, LevelRuns

(* The loop of noteAppended runs as written, for a stack of any depth.     *)
LEMMA NoteLoop ==
    ASSUME NEW out, NEW stack, NEW count, Len(stack) \in Nat
    PROVE  \A n \in 0 .. Len(stack) : NoteRuns(out, stack, count)[n] =
              IF n = 0 THEN Noting(out, stack, count) ELSE NoteStep(NoteRuns(out, stack, count)[n - 1])
<1> DEFINE N == Len(stack)
           a == Noting(out, stack, count)
           IsRun(m, f) == f = [n \in 0 .. m |-> IF n = 0 THEN a ELSE NoteStep(f[n - 1])]
           P == {m \in Nat : \E f : IsRun(m, f)}
<1> HIDE DEF a
<1>1. 0 \in P
  <2>1. IsRun(0, [n \in 0 .. 0 |-> a])
    OBVIOUS
  <2>. QED
    BY <2>1
<1>2. ASSUME NEW m \in P PROVE m + 1 \in P
  <2>1. m \in Nat
    OBVIOUS
  <2>2. PICK f : IsRun(m, f)
    OBVIOUS
  <2> DEFINE g == [n \in 0 .. m + 1 |-> IF n = m + 1 THEN NoteStep(f[m]) ELSE f[n]]
  <2>3. ASSUME NEW n \in 0 .. m + 1 PROVE g[n] = IF n = 0 THEN a ELSE NoteStep(g[n - 1])
    <3>1. CASE n = m + 1
      <4>1. g[n] = NoteStep(f[m]) /\ g[n - 1] = f[m] /\ n # 0
        BY <2>1, <3>1
      <4>. QED
        BY <4>1
    <3>2. CASE n # m + 1
      <4>1. n \in 0 .. m /\ g[n] = f[n] /\ (n # 0 => g[n - 1] = f[n - 1])
        BY <2>1, <3>2
      <4>2. f[n] = IF n = 0 THEN a ELSE NoteStep(f[n - 1])
        BY <2>2, <4>1
      <4>. QED
        BY <4>1, <4>2
    <3>. QED
      BY <3>1, <3>2
  <2>4. IsRun(m + 1, g)
    BY <2>3
  <2> HIDE DEF g, IsRun
  <2>. QED
    BY <2>1, <2>4
<1>3. P = Nat
  <2>1. P \subseteq Nat
    OBVIOUS
  <2> HIDE DEF P
  <2>. QED
    BY <1>1, <1>2, <2>1, SetInduction
<1>4. PICK f : IsRun(N, f)
  <2>1. N \in P
    BY <1>3
  <2>. QED
    BY <2>1
<1> DEFINE g == CHOOSE r : IsRun(N, r)
<1>5. IsRun(N, g)
  <2> HIDE DEF IsRun
  <2>. QED
    BY <1>4
<1>6. NoteRuns(out, stack, count) = g
  BY DEF NoteRuns, a, Noting, NoteStep
<1> HIDE DEF g
<1>7. \A n \in 0 .. N : g[n] = IF n = 0 THEN a ELSE NoteStep(g[n - 1])
  BY <1>5
<1>. QED
  BY <1>6, <1>7 DEF a

(* So does the history's. *)
LEMMA LevelLoop ==
    ASSUME NEW items, Len(levels) \in Nat
    PROVE  \A n \in 0 .. Len(levels) : LevelRuns(items)[n] =
              IF n = 0 THEN AddTo(levels, items) ELSE LevelStep(LevelRuns(items)[n - 1])
<1> DEFINE N == Len(levels)
           a == AddTo(levels, items)
           IsRun(m, f) == f = [n \in 0 .. m |-> IF n = 0 THEN a ELSE LevelStep(f[n - 1])]
           P == {m \in Nat : \E f : IsRun(m, f)}
<1> HIDE DEF a
<1>1. 0 \in P
  <2>1. IsRun(0, [n \in 0 .. 0 |-> a])
    OBVIOUS
  <2>. QED
    BY <2>1
<1>2. ASSUME NEW m \in P PROVE m + 1 \in P
  <2>1. m \in Nat
    OBVIOUS
  <2>2. PICK f : IsRun(m, f)
    OBVIOUS
  <2> DEFINE g == [n \in 0 .. m + 1 |-> IF n = m + 1 THEN LevelStep(f[m]) ELSE f[n]]
  <2>3. ASSUME NEW n \in 0 .. m + 1 PROVE g[n] = IF n = 0 THEN a ELSE LevelStep(g[n - 1])
    <3>1. CASE n = m + 1
      <4>1. g[n] = LevelStep(f[m]) /\ g[n - 1] = f[m] /\ n # 0
        BY <2>1, <3>1
      <4>. QED
        BY <4>1
    <3>2. CASE n # m + 1
      <4>1. n \in 0 .. m /\ g[n] = f[n] /\ (n # 0 => g[n - 1] = f[n - 1])
        BY <2>1, <3>2
      <4>2. f[n] = IF n = 0 THEN a ELSE LevelStep(f[n - 1])
        BY <2>2, <4>1
      <4>. QED
        BY <4>1, <4>2
    <3>. QED
      BY <3>1, <3>2
  <2>4. IsRun(m + 1, g)
    BY <2>3
  <2> HIDE DEF g, IsRun
  <2>. QED
    BY <2>1, <2>4
<1>3. P = Nat
  <2>1. P \subseteq Nat
    OBVIOUS
  <2> HIDE DEF P
  <2>. QED
    BY <1>1, <1>2, <2>1, SetInduction
<1>4. PICK f : IsRun(N, f)
  <2>1. N \in P
    BY <1>3
  <2>. QED
    BY <2>1
<1> DEFINE g == CHOOSE r : IsRun(N, r)
<1>5. IsRun(N, g)
  <2> HIDE DEF IsRun
  <2>. QED
    BY <1>4
<1>6. LevelRuns(items) = g
  BY DEF LevelRuns, a, LevelStep
<1> HIDE DEF g
<1>7. \A n \in 0 .. N : g[n] = IF n = 0 THEN a ELSE LevelStep(g[n - 1])
  BY <1>5
<1>. QED
  BY <1>6, <1>7 DEF a

(* Nothing is left to be noted: the history's loop is at its end, too.     *)
LEMMA RoundIdle ==
    ASSUME NEW s, NEW ls, NEW c, Counts(s, ls, c), c = 0 \/ Len(s) = 0
    PROVE  LevelStep(ls) = ls /\ Counts(s, ls, 0)
<1>1. Len(s) \in Nat /\ Len(ls) = Len(s) + 1
  BY SeqBasics DEF Counts
<1>2. CASE Len(s) = 0
  <2>1. ~Full(ls)
    BY <1>1, <1>2 DEF Full
  <2>2. Counts(s, ls, 0)
    BY <1>1, <1>2 DEF Counts
  <2>. QED
    BY <2>1, <2>2 DEF LevelStep
<1>3. CASE Len(s) # 0
  <2>1. c = 0 /\ Len(s) > 0 /\ Len(s) \in 1 .. Len(s) /\ Len(ls) \in 1 .. Len(ls)
    BY <1>1, <1>3
  <2>2. Entry(s[Len(s)]) /\ Level(ls[Len(ls)]) /\ s[Len(s)].left = ToCome(ls[Len(ls)]) + 0
    BY <2>1 DEF Counts
  <2>3. s[Len(s)].left \in Nat \ {0} /\ Len(ls[Len(ls)].items) \in Nat /\ ls[Len(ls)].size \in Nat
    BY <2>2, SeqBasics DEF Entry, Level
  <2>4. Len(ls[Len(ls)].items) # ls[Len(ls)].size
    BY <2>2, <2>3 DEF ToCome
  <2>5. ~Full(ls)
    BY <2>4 DEF Full, Last
  <2>. QED
    BY <2>1, <2>5 DEF LevelStep
<1>. QED
  BY <1>2, <1>3

Lockstep(st, ls, n) ==
    \E o, s, c : st = Noting(o, s, c) /\ Counts(s, ls, c) /\ (c = 0 \/ Len(s) = n)

(* Round by round the two loops stay together. *)
LEMMA RoundTogether ==
    ASSUME NEW st, NEW ls, NEW n \in Nat \ {0}, Lockstep(st, ls, n)
    PROVE  Lockstep(NoteStep(st), LevelStep(ls), n - 1)
<1>1. PICK o, s, c : st = Noting(o, s, c) /\ Counts(s, ls, c) /\ (c = 0 \/ Len(s) = n)
  BY DEF Lockstep
<1>2. CASE c = 0
  <2>1. NoteStep(st) = st
    BY <1>1, <1>2 DEF NoteStep, Noting
  <2>2. LevelStep(ls) = ls
    BY <1>1, <1>2, RoundIdle
  <2>. QED
    BY <1>1, <1>2, <2>1, <2>2 DEF Lockstep
<1>3. CASE c # 0
  <2>1. c \in Nat \ {0} /\ Len(s) = n /\ Len(s) > 0 /\ Counts(s, ls, c)
    BY <1>1, <1>3 DEF Counts
  <2>2. CASE s[Len(s)].left > c
    <3>1. LevelStep(ls) = ls
      BY <2>1, <2>2, RoundOpen
    <3>2. PICK t : NoteStep(Noting(o, s, c)) = Noting(o, t, 0) /\ Counts(t, ls, 0)
      BY <2>1, <2>2, RoundOpen
    <3>. QED
      BY <1>1, <3>1, <3>2 DEF Lockstep
  <2>3. CASE ~(s[Len(s)].left > c)
    <3>1. PICK p : NoteStep(Noting(o, s, c)) = Noting(p, Front(s), 1) /\ Counts(Front(s), LevelStep(ls), 1)
      BY <2>1, <2>3, RoundClosed
    <3>2. Len(Front(s)) = n - 1
      <4>1. IsSeq(s)
        BY <2>1 DEF Counts
      <4>. QED
        BY <2>1, <4>1, SeqFront
    <3>. QED
      BY <1>1, <3>1, <3>2 DEF Lockstep
  <2>. QED
    BY <2>2, <2>3
<1>. QED
  BY <1>2, <1>3

(* What every append ends in keeps the count. *)
LEMMA Noted ==
    ASSUME Counts(m_listStack, levels, 0), NEW out, NEW xs, IsSeq(xs),
           Len(m_listStack) > 0 => m_listStack[Len(m_listStack)].left >= Len(xs)
    PROVE  Counts(noteAppended(out, m_listStack, Len(xs)).stack, Added(xs), 0)
<1> DEFINE N == Len(m_listStack)
           st == NoteRuns(out, m_listStack, Len(xs))
           l == LevelRuns(xs)
           P == {n \in Nat : n <= N => Lockstep(st[n], l[n], N - n)}
<1>1. N \in Nat /\ Len(levels) = N + 1
  BY SeqBasics DEF Counts
<1>2. \A n \in 0 .. N : st[n] = IF n = 0 THEN Noting(out, m_listStack, Len(xs)) ELSE NoteStep(st[n - 1])
  BY <1>1, NoteLoop
<1>3. \A n \in 0 .. N + 1 : l[n] = IF n = 0 THEN AddTo(levels, xs) ELSE LevelStep(l[n - 1])
  <2>1. Len(levels) \in Nat
    BY <1>1
  <2>2. \A n \in 0 .. Len(levels) : l[n] = IF n = 0 THEN AddTo(levels, xs) ELSE LevelStep(l[n - 1])
    BY <2>1, LevelLoop
  <2>. QED
    BY <1>1, <2>2
<1>4. Counts(m_listStack, AddTo(levels, xs), Len(xs))
  BY AddedFirst
<1> HIDE DEF st, l
<1>5. 0 \in P
  <2>1. st[0] = Noting(out, m_listStack, Len(xs)) /\ l[0] = AddTo(levels, xs) /\ N - 0 = N
    BY <1>1, <1>2, <1>3
  <2>2. Lockstep(st[0], l[0], N)
    BY <1>4, <2>1 DEF Lockstep
  <2> HIDE DEF N
  <2>. QED
    BY <2>1, <2>2
<1> HIDE DEF N
<1>6. ASSUME NEW n \in P PROVE n + 1 \in P
  <2>1. SUFFICES ASSUME n + 1 <= N PROVE Lockstep(st[n + 1], l[n + 1], N - (n + 1))
    OBVIOUS
  <2>2. n \in Nat /\ n <= N /\ n + 1 \in 0 .. N /\ n + 1 \in 0 .. N + 1 /\ n + 1 # 0 /\ n + 1 - 1 = n
    BY <1>1, <2>1
  <2>3. Lockstep(st[n], l[n], N - n)
    BY <2>2
  <2> HIDE DEF P
  <2>4. st[n + 1] = NoteStep(st[n]) /\ l[n + 1] = LevelStep(l[n])
    BY <1>2, <1>3, <2>2
  <2>5. N - n \in Nat \ {0} /\ N - (n + 1) = N - n - 1
    BY <1>1, <2>1, <2>2
  <2>. QED
    BY <2>3, <2>4, <2>5, RoundTogether
<1>7. Lockstep(st[N], l[N], 0)
  <2>1. P \subseteq Nat
    OBVIOUS
  <2>2. P = Nat
    <3> HIDE DEF P
    <3>. QED
      BY <1>5, <1>6, <2>1, SetInduction
  <2>3. Lockstep(st[N], l[N], N - N) /\ N - N = 0
    BY <1>1, <2>2
  <2>. QED
    BY <2>3
<1>8. PICK o, s, c : st[N] = Noting(o, s, c) /\ Counts(s, l[N], c) /\ (c = 0 \/ Len(s) = 0)
  BY <1>7 DEF Lockstep
<1>9. LevelStep(l[N]) = l[N] /\ Counts(s, l[N], 0)
  BY <1>8, RoundIdle
<1>10. l[N + 1] = l[N]
  <2> DEFINE M == N + 1
  <2>1. M \in 0 .. N + 1 /\ M # 0 /\ M - 1 = N
    BY <1>1
  <2> HIDE DEF M, P
  <2>2. l[M] = LevelStep(l[M - 1])
    BY <1>3, <2>1
  <2>. QED
    BY <1>9, <2>1, <2>2 DEF M
<1>11. noteAppended(out, m_listStack, Len(xs)) = st[N] /\ Added(xs) = l[N + 1]
  BY <1>1, NoteEnd, LevelEnd DEF N, st, l
<1>12. st[N].stack = s
  BY <1>8 DEF Noting
<1>. QED
  BY <1>9, <1>10, <1>11, <1>12

-----------------------------------------------------------------------------
(* The invariant: the count of every open list, and the raw items are a    *)
(* sequence.                                                               *)
CountInv == Counts(m_listStack, levels, 0) /\ IsSeq(savedItems)

LEMMA NoLevelsCount == Counts(<<>>, NoLevels, 0)
<1> DEFINE e == [size |-> 0, items |-> <<>>]
<1>1. Level(e)
  BY SeqEmpty DEF Level
<1>2. NoLevels = <<e>>
  BY DEF NoLevels
<1> HIDE DEF e
<1>3. IsSeq(NoLevels) /\ Len(NoLevels) = 1 /\ NoLevels[1] = e
  BY <1>2, SeqOne
<1>. QED
  BY <1>1, <1>3, SeqEmpty DEF Counts

LEMMA CountStarts == RLPInit => CountInv
BY NoLevelsCount, SeqEmpty DEF RLPInit, CountInv

(* An append of one item: an open list has room for it. *)
LEMMA AppendCounts ==
    ASSUME CountInv, NEW bytes, NEW item, Appends(bytes, item)
    PROVE  CountInv'
<1> DEFINE xs == <<item>>
           st == noteAppended(m_out \o bytes, m_listStack, Len(xs))
<1>1. m_listStack' = st.stack /\ levels' = Added(xs) /\ savedItems' = savedItems
  BY DEF Appends, Appended
<1>2. IsSeq(xs) /\ Len(xs) = 1
  BY SeqOne
<1>3. Len(m_listStack) > 0 => m_listStack[Len(m_listStack)].left >= 1
  <2>1. Len(m_listStack) > 0 => Entry(m_listStack[Len(m_listStack)])
    BY SeqBasics DEF CountInv, Counts
  <2>. QED
    BY <2>1 DEF Entry
<1>4. Counts(m_listStack, levels, 0)
  BY DEF CountInv
<1> DEFINE out == m_out \o bytes
<1> HIDE DEF xs, out
<1>5. Counts(noteAppended(out, m_listStack, Len(xs)).stack, Added(xs), 0)
  BY <1>2, <1>3, <1>4, Noted
<1>. QED
  BY <1>1, <1>5 DEF CountInv, out

(* The items of another stream: noteAppended throws, with nothing counted, *)
(* when an open list has no room for them.                                 *)
LEMMA RawCounts == ASSUME CountInv, AppendRaw PROVE CountInv'
<1> DEFINE xs == savedItems
           out == m_out \o saved
<1>1. CASE ~TooMany /\ Appended(saved, savedItems) /\ saved' = <<>> /\ savedItems' = <<>>
  <2>1. m_listStack' = noteAppended(out, m_listStack, Len(xs)).stack /\ levels' = Added(xs)
    BY <1>1 DEF Appended
  <2>2. Counts(m_listStack, levels, 0) /\ IsSeq(xs)
    BY DEF CountInv
  <2>3. Len(m_listStack) > 0 => m_listStack[Len(m_listStack)].left >= Len(xs)
    <3> SUFFICES ASSUME Len(m_listStack) > 0 PROVE m_listStack[Len(m_listStack)].left >= Len(xs)
      OBVIOUS
    <3>1. m_listStack # <<>>
      BY SeqEmpty
    <3>2. ~(m_listStack[Len(m_listStack)].left < Len(xs))
      BY <1>1, <3>1 DEF TooMany, Last
    <3>3. Len(m_listStack) \in 1 .. Len(m_listStack)
      BY <2>2, SeqBasics DEF Counts
    <3>4. m_listStack[Len(m_listStack)].left \in Nat /\ Len(xs) \in Nat
      BY <2>2, <3>3, SeqBasics DEF Counts, Entry
    <3>. QED
      BY <3>2, <3>4
  <2> HIDE DEF xs, out
  <2>4. Counts(noteAppended(out, m_listStack, Len(xs)).stack, Added(xs), 0)
    BY <2>2, <2>3, Noted
  <2>. QED
    BY <1>1, <2>1, <2>4, SeqEmpty DEF CountInv
<1>2. CASE UNCHANGED <<m_listStack, levels, saved, savedItems, readerVars>>
  BY <1>2 DEF CountInv
<1>. QED
  BY <1>1, <1>2 DEF AppendRaw

(* appendList: the new list has all of its items to come. *)
LEMMA OpenCounts == ASSUME CountInv, NEW n \in Nat, AppendList(n) PROVE CountInv'
<1> DEFINE e == [left |-> n, start |-> Len(m_out)]
           v == [size |-> n, items |-> <<>>]
           s == m_listStack
           ls == levels
           t == Append(s, e)
           r == Append(ls, v)
<1>1. m_listStack' = t /\ levels' = r /\ savedItems' = savedItems /\ n > 0
  BY DEF AppendList
<1>2. Entry(e) /\ e.left = n
  BY <1>1 DEF Entry
<1>3. Level(v) /\ ToCome(v) = n
  BY SeqEmpty DEF Level, ToCome
<1>4. Counts(s, ls, 0)
  BY DEF CountInv
<1> HIDE DEF e, v, s, ls
<1>5. IsSeq(s) /\ IsSeq(ls) /\ Len(s) \in Nat /\ Len(ls) = Len(s) + 1
  BY <1>4, SeqBasics DEF Counts
<1> DEFINE k0 == Len(s)
<1>6. IsSeq(t) /\ Len(t) = k0 + 1 /\ (\A k \in 1 .. k0 : t[k] = s[k]) /\ t[k0 + 1] = e
  BY <1>5, SeqPushed
<1>7. IsSeq(r) /\ Len(r) = k0 + 2 /\ (\A k \in 1 .. k0 + 1 : r[k] = ls[k]) /\ r[k0 + 2] = v
  <2>1. IsSeq(r) /\ Len(r) = Len(ls) + 1 /\ (\A k \in 1 .. Len(ls) : r[k] = ls[k]) /\ r[Len(ls) + 1] = v
    BY <1>5, SeqPushed
  <2>2. Len(ls) = k0 + 1 /\ Len(ls) + 1 = k0 + 2
    BY <1>5
  <2>. QED
    BY <2>1, <2>2
<1> HIDE DEF t, r
<1>8. \A k \in 1 .. k0 : Entry(s[k]) /\ s[k].left = ToCome(ls[k + 1])
  <2> TAKE k \in 1 .. k0
  <2>1. Entry(s[k])
    BY <1>4 DEF Counts
  <2>2. CASE k # k0
    <3>1. k \in 1 .. k0 - 1
      BY <1>5, <2>2
    <3>. QED
      BY <1>4, <2>1, <3>1 DEF Counts
  <2>3. CASE k = k0
    <3>1. k0 > 0 /\ k0 + 1 = Len(ls)
      BY <1>5, <2>3
    <3>2. s[k0].left = ToCome(ls[Len(ls)]) + 0
      BY <1>4, <3>1 DEF Counts
    <3>3. Level(ls[Len(ls)])
      BY <1>4, <1>5 DEF Counts
    <3>4. ToCome(ls[Len(ls)]) \in Int
      BY <3>3, SeqBasics DEF Level, ToCome
    <3>. QED
      BY <2>1, <2>3, <3>1, <3>2, <3>4
  <2>. QED
    BY <2>2, <2>3
<1>9. \A k \in 1 .. k0 + 1 : Level(ls[k])
  BY <1>4, <1>5 DEF Counts
<1> DEFINE m == k0 + 1
<1>10. m \in Nat /\ m > 0 /\ Len(t) = m /\ Len(r) = m + 1 /\ t[m] = e /\ r[m + 1] = v /\ m - 1 = k0
  BY <1>5, <1>6, <1>7
<1>11. \A k \in 1 .. m : Entry(t[k])
  BY <1>2, <1>5, <1>6, <1>8
<1>12. \A k \in 1 .. m + 1 : Level(r[k])
  BY <1>3, <1>5, <1>7, <1>9
<1>13. \A k \in 1 .. m - 1 : t[k].left = ToCome(r[k + 1])
  <2> TAKE k \in 1 .. m - 1
  <2>1. k \in 1 .. k0 /\ k + 1 \in 1 .. k0 + 1
    BY <1>5
  <2>. QED
    BY <1>6, <1>7, <1>8, <2>1
<1> HIDE DEF m, k0
<1>14. Counts(t, r, 0)
  BY <1>2, <1>3, <1>6, <1>7, <1>10, <1>11, <1>12, <1>13 DEF Counts
<1>. QED
  BY <1>1, <1>14 DEF CountInv

(* swapOut: the items of a finished stream become raw items. *)
LEMMA SwapCounts == ASSUME CountInv, swapOut PROVE CountInv'
<1>1. m_listStack' = <<>> /\ levels' = NoLevels /\ savedItems' = levels[1].items
  BY DEF swapOut
<1>2. Level(levels[1])
  <2>1. 1 \in 1 .. Len(levels)
    BY SeqBasics DEF CountInv, Counts
  <2>. QED
    BY <2>1 DEF CountInv, Counts
<1>. QED
  BY <1>1, <1>2, NoLevelsCount DEF CountInv, Level

(* Every operation of the stream and of the reader keeps the count. *)
LEMMA CountGoesOn == CountInv /\ [RLPNext]_rlpVars => CountInv'
<1> SUFFICES ASSUME CountInv, [RLPNext]_rlpVars PROVE CountInv'
  OBVIOUS
<1>1. CASE \E b \in DataItems : AppendData(b)
  BY <1>1, AppendCounts DEF AppendData
<1>2. CASE \E b \in Hashes : AppendHash(b)
  BY <1>2, AppendCounts DEF AppendHash
<1>3. CASE \E i \in Ints : AppendInt(i)
  BY <1>3, AppendCounts DEF AppendInt
<1>4. CASE AppendEmptyList
  BY <1>4, AppendCounts DEF AppendEmptyList
<1>5. CASE \E n \in ListSizes : AppendList(n)
  BY <1>5, OpenCounts, RLPAssumption
<1>6. CASE AppendRaw
  BY <1>6, RawCounts
<1>7. CASE swapOut
  BY <1>7, SwapCounts
<1>8. CASE clear
  BY <1>8, NoLevelsCount DEF clear, CountInv
<1>9. CASE OpenSaved \/ OpenGot
  BY <1>9, SeqEmpty DEF OpenSaved, OpenGot, Opens, writerVars, CountInv
<1>10. CASE \E i \in 0 .. MaxItems + 1 : Subscript(i)
  BY <1>10 DEF Subscript, writerVars, CountInv
<1>11. CASE UNCHANGED rlpVars
  BY <1>11 DEF rlpVars, writerVars, CountInv
<1>. QED
  BY <1>1, <1>2, <1>3, <1>4, <1>5, <1>6, <1>7, <1>8, <1>9, <1>10, <1>11 DEF RLPNext

LEMMA CountImplies == CountInv => ListsCount
<1> SUFFICES ASSUME CountInv PROVE ListsCount
  OBVIOUS
<1> DEFINE n == Len(m_listStack)
<1>1. n \in Nat /\ Len(levels) = n + 1
  BY SeqBasics DEF CountInv, Counts
<1>2. ASSUME NEW k \in 1 .. n PROVE m_listStack[k].left = ToCome(levels[k + 1])
  <2>1. CASE k # n
    <3>1. k \in 1 .. n - 1
      BY <1>1, <2>1
    <3>. QED
      BY <3>1 DEF CountInv, Counts
  <2>2. CASE k = n
    <3>1. n > 0 /\ k + 1 = Len(levels) /\ Len(levels) \in 1 .. Len(levels)
      BY <1>1, <2>2
    <3>2. m_listStack[n].left = ToCome(levels[Len(levels)]) + 0 /\ Level(levels[Len(levels)])
      BY <3>1 DEF CountInv, Counts
    <3>3. ToCome(levels[Len(levels)]) \in Int
      BY <3>2, SeqBasics DEF Level, ToCome
    <3>. QED
      BY <2>2, <3>1, <3>2, <3>3
  <2>. QED
    BY <2>1, <2>2
<1>. QED
  BY <1>1, <1>2 DEF ListsCount, ToCome

(* noteAppended counts right: whatever is appended, in lists nested to any *)
(* depth, and however many raw items at once, a list is open exactly while *)
(* fewer items than announced were appended to it.                         *)
THEOREM ListsCountAlways == RLPSpec => []ListsCount
BY CountStarts, CountGoesOn, CountImplies, PTL DEF RLPSpec

====
