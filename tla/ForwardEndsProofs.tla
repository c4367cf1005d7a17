------------------------- MODULE ForwardEndsProofs --------------------------
(***************************************************************************)
(* EndReachesBoth, TypeOK, CreditKept and EofComesLast, for any number of   *)
(* channels, any window and any depth of the queues.                        *)
(*                                                                         *)
(* EndReachesBoth follows from the inductive invariant IInv of ForwardEnds. *)
(* Most actions do nothing to it but shrink what the ends hold and add to   *)
(* what is on its way: Calm says so, and CalmKeeps that it is enough.  Three *)
(* do more: a channel is opened, dialled, or heard of by the host.          *)
(*                                                                         *)
(* The rest follow from CInv, which is inductive with IInv.  It speaks of   *)
(* sums of bytes, so the proof begins with what Bytes does when a frame is  *)
(* queued or taken (Counting bytes).  Then what a step may do to the wires  *)
(* (InStep, OutStep, QueueStep), to an end (Steady, PumpStep) and to the    *)
(* bytes on their way (the lemmas named ...Flow); then each part of CInv.   *)
(***************************************************************************)
EXTENDS ForwardEnds, FiniteSetTheorems, WellFoundedInduction, TLAPS

-----------------------------------------------------------------------------
(* Frames and sequences. *)

LEMMA FrameFacts ==
  ASSUME NEW c \in Chans
  PROVE  /\ \A t \in {"OPEN", "CLOSE", "ERROR"} :
              Control(c, t) \in Wire /\ Control(c, t).type = t /\ Control(c, t).chan = c
         /\ \A t \in {"DATA", "WINDOW"}, n \in Nat :
              Sized(c, t, n) \in Wire /\ Sized(c, t, n).type = t /\ Sized(c, t, n).chan = c
BY DEF Control, Sized, Wire

LEMMA WireFacts ==
  ASSUME NEW f \in Wire
  PROVE  /\ f.chan \in Chans
         /\ f.type \in {"OPEN", "CLOSE", "ERROR", "DATA", "WINDOW"}
         /\ f.type = "DATA" => f \in [type : {"DATA"}, chan : Chans, n : Nat]
BY DEF Wire

\* What follows the first frame.
LEMMA TailElements ==
  ASSUME NEW s \in Seq(Wire), s # <<>>
  PROVE  /\ Tail(s) \in Seq(Wire)
         /\ Head(s) \in Wire /\ Head(s) = s[1] /\ 1 \in DOMAIN s
         /\ DOMAIN Tail(s) = 1..(Len(s) - 1) /\ DOMAIN s = 1..Len(s) /\ Len(s) \in Nat
         /\ \A i \in DOMAIN Tail(s) : Tail(s)[i] = s[i + 1]
OBVIOUS

\* A queue with some frames more.
LEMMA ConcatElements ==
  ASSUME NEW s \in Seq(Wire), NEW t \in Seq(Wire)
  PROVE  /\ s \o t \in Seq(Wire)
         /\ DOMAIN s = 1..Len(s) /\ DOMAIN t = 1..Len(t) /\ Len(s) \in Nat /\ Len(t) \in Nat
         /\ DOMAIN (s \o t) = 1..(Len(s) + Len(t))
         /\ \A i \in DOMAIN s : (s \o t)[i] = s[i]
         /\ \A i \in DOMAIN t : (s \o t)[Len(s) + i] = t[i]
OBVIOUS

LEMMA AppendIsConcat ==
  ASSUME NEW s \in Seq(Wire), NEW f \in Wire
  PROVE  /\ Append(s, f) = s \o <<f>>
         /\ <<f>> \in Seq(Wire) /\ DOMAIN <<f>> = {1} /\ <<f>>[1] = f
         /\ Append(s, f) \in Seq(Wire) /\ DOMAIN Append(s, f) = 1..(Len(s) + 1)
         /\ Len(s) \in Nat /\ DOMAIN s = 1..Len(s)
         /\ \A i \in DOMAIN s : Append(s, f)[i] = s[i]
         /\ Append(s, f)[Len(s) + 1] = f
OBVIOUS

\* The end of a channel stays on its way when frames come behind it.
LEMMA EndsConcat ==
  ASSUME NEW s \in Seq(Wire), NEW t \in Seq(Wire), NEW c \in Chans
  PROVE  Ends(s, c) \/ Ends(t, c) => Ends(s \o t, c)
<1>1. ASSUME Ends(s, c) PROVE Ends(s \o t, c)
  <2>1. PICK i \in DOMAIN s : s[i].chan = c /\ s[i].type \in Closing
    BY <1>1 DEF Ends
  <2>2. i \in DOMAIN (s \o t) /\ (s \o t)[i] = s[i]
    BY ConcatElements
  <2>. QED BY <2>1, <2>2 DEF Ends
<1>2. ASSUME Ends(t, c) PROVE Ends(s \o t, c)
  <2>1. PICK i \in DOMAIN t : t[i].chan = c /\ t[i].type \in Closing
    BY <1>2 DEF Ends
  <2>2. Len(s) + i \in DOMAIN (s \o t) /\ (s \o t)[Len(s) + i] = t[i]
    BY ConcatElements
  <2>. QED BY <2>1, <2>2 DEF Ends
<1>. QED BY <1>1, <1>2

LEMMA EndsAppend ==
  ASSUME NEW s \in Seq(Wire), NEW f \in Wire, NEW c \in Chans
  PROVE  /\ Ends(s, c) => Ends(Append(s, f), c)
         /\ f.chan = c /\ f.type \in Closing => Ends(<<f>>, c) /\ Ends(Append(s, f), c)
<1>1. Append(s, f) = s \o <<f>> /\ <<f>> \in Seq(Wire)
  BY AppendIsConcat
<1>2. f.chan = c /\ f.type \in Closing => Ends(<<f>>, c)
  BY AppendIsConcat DEF Ends
<1>. QED BY <1>1, <1>2, EndsConcat

\* It stays on its way when another frame is taken.
LEMMA EndsTail ==
  ASSUME NEW s \in Seq(Wire), s # <<>>, NEW c \in Chans, Ends(s, c),
         ~(Head(s).chan = c /\ Head(s).type \in Closing)
  PROVE  Ends(Tail(s), c)
<1>1. PICK i \in DOMAIN s : s[i].chan = c /\ s[i].type \in Closing
  BY DEF Ends
<1>2. i # 1
  BY <1>1, TailElements
<1>3. i - 1 \in DOMAIN Tail(s) /\ Tail(s)[i - 1] = s[i]
  BY <1>1, <1>2, TailElements
<1>. QED BY <1>1, <1>3 DEF Ends

\* The sequence of a finite set has every element of it, and nothing else.
LEMMA SetToSeqElements ==
  ASSUME NEW S \in SUBSET Wire, IsFiniteSet(S)
  PROVE  /\ SetToSeq(S) \in Seq(S)
         /\ \A x \in S : \E i \in DOMAIN SetToSeq(S) : SetToSeq(S)[i] = x
<1>. DEFINE n == Cardinality(S)
<1>1. n \in Nat /\ ExistsBijection(1..n, S)
  BY FS_CardinalityType
<1>2. \E f \in [1..n -> S] : IsInjective(f)
  BY <1>1 DEF ExistsBijection, Bijection, Injection
<1>3. SetToSeq(S) \in [1..n -> S] /\ IsInjective(SetToSeq(S))
  BY <1>2 DEF SetToSeq
<1>4. SetToSeq(S) \in Injection(1..n, S)
  BY <1>3 DEF Injection
<1>5. Cardinality(1..n) = n
  BY <1>1, FS_Interval
<1>6. SetToSeq(S) \in Surjection(1..n, S)
  BY <1>4, <1>5, FS_Injection
<1>. QED BY <1>1, <1>3, <1>6 DEF Surjection

-----------------------------------------------------------------------------
(* Counting bytes. *)

\* A set of numbers that is not empty has a least one.
LEMMA LeastNumber ==
  ASSUME NEW T \in SUBSET Nat, T # {}
  PROVE  \E x \in T : \A y \in T : x <= y
<1>. DEFINE R == OpToRel(<, Nat)
<1>1. IsWellFoundedOn(R, Nat)
  BY NatLessThanWellFounded
<1>2. PICK x \in T : \A y \in T : ~(<<y, x>> \in R)
  <2>. HIDE DEF R
  <2>. QED BY <1>1, WFMin
<1>3. \A m, n \in Nat : m < n => <<m, n>> \in R
  BY DEF OpToRel
<1>. HIDE DEF R
<1>4. ASSUME NEW y \in T PROVE x <= y
  <2>1. x \in Nat /\ y \in Nat /\ ~(y < x)
    BY <1>2, <1>3
  <2>. QED BY <2>1
<1>. QED BY <1>4

\* So a set of numbers with 0 and every successor up to n has all of them.
LEMMA UpTo ==
  ASSUME NEW n \in Nat, NEW T, 0 \in T, \A i \in 0..(n - 1) : i \in T => i + 1 \in T
  PROVE  \A i \in 0..n : i \in T
<1>. SUFFICES ASSUME NEW k \in 0..n, k \notin T PROVE FALSE
  OBVIOUS
<1>. DEFINE S == { i \in 0..n : i \notin T }
<1>1. S \in SUBSET Nat /\ S # {}
  OBVIOUS
<1>2. PICK x \in S : \A y \in S : x <= y
  <2>. HIDE DEF S
  <2>. QED BY <1>1, LeastNumber
<1>3. x \in 0..n /\ x \notin T /\ x # 0
  BY <1>2
<1>4. x - 1 \in 0..(n - 1) /\ (x - 1) + 1 = x /\ x - 1 \notin S
  BY <1>2, <1>3
<1>5. x - 1 \in T
  BY <1>3, <1>4
<1>. QED BY <1>3, <1>4, <1>5

\* g counts the bytes of the first frames of s.
Counts(g, s, c, t) ==
  /\ g \in [0..Len(s) -> Nat] /\ g[0] = 0
  /\ \A i \in 1..Len(s) : g[i] = g[i - 1] + Size(s[i], c, t)

LEMMA SizeType ==
  ASSUME NEW f \in Wire \cup {Idle}, NEW c \in Chans, NEW t \in {"DATA", "WINDOW"}
  PROVE  Size(f, c, t) \in Nat
BY DEF Size, Wire, Idle

LEMMA CountExists ==
  ASSUME NEW s \in Seq(Wire), NEW c \in Chans, NEW t \in {"DATA", "WINDOW"}
  PROVE  \E g : Counts(g, s, c, t)
<1>. DEFINE A(g, n) == /\ g \in [0..n -> Nat] /\ g[0] = 0
                       /\ \A i \in 1..n : g[i] = g[i - 1] + Size(s[i], c, t)
            T == {n \in Nat : \E g : A(g, n)}
<1>1. Len(s) \in Nat /\ \A i \in 1..Len(s) : Size(s[i], c, t) \in Nat
  BY SizeType
<1>2. 0 \in T
  <2>. DEFINE z == [i \in 0..0 |-> 0]
  <2>1. A(z, 0)
    OBVIOUS
  <2>. HIDE DEF z, A
  <2>. QED BY <2>1
<1>3. ASSUME NEW n \in 0..(Len(s) - 1), n \in T PROVE n + 1 \in T
  <2>0. \E g : A(g, n)
    <3>. HIDE DEF A
    <3>. QED BY <1>3
  <2>1. PICK g : A(g, n)
    <3>. HIDE DEF A
    <3>. QED BY <2>0
  <2>. DEFINE h == [i \in 0..(n + 1) |-> IF i = n + 1 THEN g[n] + Size(s[n + 1], c, t) ELSE g[i]]
  <2>2. Size(s[n + 1], c, t) \in Nat /\ g[n] \in Nat /\ n \in Nat /\ n + 1 \in Nat
    BY <1>1, <2>1
  <2>3. A(h, n + 1)
    <3>1. h \in [0..(n + 1) -> Nat]
      BY <2>1, <2>2
    <3>2. h[0] = 0
      BY <2>1, <2>2
    <3>3. \A i \in 1..(n + 1) : h[i] = h[i - 1] + Size(s[i], c, t)
      BY <2>1, <2>2
    <3>. QED BY <3>1, <3>2, <3>3
  <2>. HIDE DEF h, A
  <2>. QED BY <2>2, <2>3
<1>4. Len(s) \in T
  <2>. HIDE DEF T
  <2>1. \A i \in 0..Len(s) : i \in T
    BY <1>1, <1>2, <1>3, UpTo
  <2>. QED BY <1>1, <2>1
<1>5. \E g : A(g, Len(s))
  <2>. HIDE DEF A
  <2>. QED BY <1>4
<1>. QED BY <1>5 DEF Counts

LEMMA CountIsUnique ==
  ASSUME NEW s \in Seq(Wire), NEW c, NEW t, NEW g, NEW h, Counts(g, s, c, t), Counts(h, s, c, t)
  PROVE  g[Len(s)] = h[Len(s)]
<1>. DEFINE T == {n \in Nat : g[n] = h[n]}
<1>1. Len(s) \in Nat
  OBVIOUS
<1>2. 0 \in T
  BY DEF Counts
<1>3. ASSUME NEW n \in 0..(Len(s) - 1), n \in T PROVE n + 1 \in T
  <2>1. g[n] = h[n] /\ n + 1 \in 1..Len(s) /\ (n + 1) - 1 = n /\ n + 1 \in Nat
    BY <1>1, <1>3
  <2>. QED BY <2>1 DEF Counts
<1>. HIDE DEF T
<1>4. \A n \in 0..Len(s) : n \in T
  BY <1>1, <1>2, <1>3, UpTo
<1>5. Len(s) \in T
  BY <1>1, <1>4
<1>. QED BY <1>5 DEF T

\* Bytes is such a count.
LEMMA BytesIsCounted ==
  ASSUME NEW s \in Seq(Wire), NEW c \in Chans, NEW t \in {"DATA", "WINDOW"},
         NEW g, Counts(g, s, c, t)
  PROVE  Bytes(s, c, t) = g[Len(s)]
<1>. DEFINE D(f) == [i \in 0..Len(s) |-> IF i = 0 THEN 0 ELSE f[i - 1] + Size(s[i], c, t)]
            f0 == CHOOSE f : f = D(f)
<1>1. Len(s) \in Nat /\ \A i \in 1..Len(s) : Size(s[i], c, t) \in Nat
  BY SizeType
<1>2. g = D(g)
  BY <1>1 DEF Counts
<1>3. f0 = D(f0)
  BY <1>2
<1>4. Bytes(s, c, t) = f0[Len(s)]
  BY DEF Bytes
<1>5. f0[0] = 0 /\ \A i \in 1..Len(s) : f0[i] = f0[i - 1] + Size(s[i], c, t)
  <2>. HIDE DEF f0
  <2>. QED BY <1>1, <1>3
<1>. HIDE DEF f0, D
<1>. DEFINE T == {n \in Nat : f0[n] = g[n]}
<1>6. 0 \in T
  BY <1>5 DEF Counts
<1>7. ASSUME NEW n \in 0..(Len(s) - 1), n \in T PROVE n + 1 \in T
  <2>1. g[n] = f0[n] /\ n + 1 \in 1..Len(s) /\ (n + 1) - 1 = n /\ n + 1 \in Nat
    BY <1>1, <1>7
  <2>. QED BY <1>5, <2>1 DEF Counts
<1>. HIDE DEF T
<1>8. \A n \in 0..Len(s) : n \in T
  BY <1>1, <1>6, <1>7, UpTo
<1>9. Len(s) \in T
  BY <1>1, <1>8
<1>. QED BY <1>4, <1>9 DEF T

LEMMA BytesType ==
  ASSUME NEW s \in Seq(Wire), NEW c \in Chans, NEW t \in {"DATA", "WINDOW"}
  PROVE  Bytes(s, c, t) \in Nat
<1>1. PICK g : Counts(g, s, c, t)
  BY CountExists
<1>2. Bytes(s, c, t) = g[Len(s)] /\ Len(s) \in 0..Len(s)
  BY <1>1, BytesIsCounted
<1>. QED BY <1>1, <1>2 DEF Counts

LEMMA BytesAppend ==
  ASSUME NEW s \in Seq(Wire), NEW f \in Wire, NEW c \in Chans, NEW t \in {"DATA", "WINDOW"}
  PROVE  Bytes(Append(s, f), c, t) = Bytes(s, c, t) + Size(f, c, t)
<1>. DEFINE n == Len(s)
            a == Append(s, f)
<1>1. PICK g : Counts(g, s, c, t)
  BY CountExists
<1>2. Bytes(s, c, t) = g[n]
  BY <1>1, BytesIsCounted
<1>3. /\ n \in Nat /\ a \in Seq(Wire) /\ Len(a) = n + 1 /\ a[n + 1] = f
      /\ \A i \in 1..n : a[i] = s[i]
  OBVIOUS
<1>4. Size(f, c, t) \in Nat
  BY SizeType
<1>5. g \in [0..n -> Nat] /\ g[0] = 0 /\ \A i \in 1..n : g[i] = g[i - 1] + Size(s[i], c, t)
  BY <1>1 DEF Counts
<1>. HIDE DEF n, a
<1>. DEFINE h == [i \in 0..(n + 1) |-> IF i = n + 1 THEN g[n] + Size(f, c, t) ELSE g[i]]
<1>6. h \in [0..(n + 1) -> Nat] /\ h[0] = 0
  BY <1>3, <1>4, <1>5
<1>7. ASSUME NEW i \in 1..(n + 1) PROVE h[i] = h[i - 1] + Size(a[i], c, t)
  <2>1. CASE i = n + 1
    BY <1>3, <1>5, <2>1
  <2>2. CASE i # n + 1
    <3>1. i \in 1..n /\ i - 1 \in 0..(n + 1) /\ i - 1 # n + 1 /\ i \in 0..(n + 1)
      BY <1>3, <2>2
    <3>. QED BY <1>3, <1>5, <2>2, <3>1
  <2>. QED BY <2>1, <2>2
<1>8. Counts(h, a, c, t)
  BY <1>3, <1>6, <1>7 DEF Counts
<1>9. h[n + 1] = g[n] + Size(f, c, t)
  BY <1>3
<1>. HIDE DEF h
<1>10. Bytes(a, c, t) = h[Len(a)]
  BY <1>3, <1>8, BytesIsCounted
<1>. QED BY <1>2, <1>3, <1>9, <1>10 DEF a, n

LEMMA BytesTail ==
  ASSUME NEW s \in Seq(Wire), s # <<>>, NEW c \in Chans, NEW t \in {"DATA", "WINDOW"}
  PROVE  Bytes(s, c, t) = Bytes(Tail(s), c, t) + Size(Head(s), c, t)
<1>. DEFINE n == Len(s)
            r == Tail(s)
<1>1. /\ n \in Nat /\ n >= 1 /\ r \in Seq(Wire) /\ Len(r) = n - 1 /\ Head(s) = s[1]
      /\ \A i \in 1..(n - 1) : r[i] = s[i + 1]
      /\ Head(s) \in Wire
  OBVIOUS
<1>2. PICK g : Counts(g, r, c, t)
  BY <1>1, CountExists
<1>3. Bytes(r, c, t) = g[Len(r)]
  BY <1>1, <1>2, BytesIsCounted
<1>4. g \in [0..(n - 1) -> Nat] /\ g[0] = 0 /\ \A i \in 1..(n - 1) : g[i] = g[i - 1] + Size(r[i], c, t)
  BY <1>1, <1>2 DEF Counts
<1>5. Size(Head(s), c, t) \in Nat
  BY <1>1, SizeType
<1>. HIDE DEF n, r
<1>. DEFINE h == [i \in 0..n |-> IF i = 0 THEN 0 ELSE Size(Head(s), c, t) + g[i - 1]]
<1>6. h \in [0..n -> Nat] /\ h[0] = 0
  BY <1>1, <1>4, <1>5
<1>7. ASSUME NEW i \in 1..n PROVE h[i] = h[i - 1] + Size(s[i], c, t)
  <2>1. CASE i = 1
    BY <1>1, <1>4, <1>5, <2>1
  <2>2. CASE i # 1
    <3>1. i - 1 \in 1..(n - 1) /\ (i - 1) + 1 = i /\ i - 1 \in 0..n /\ i \in 0..n
      BY <1>1, <2>2
    <3>2. r[i - 1] = s[i]
      BY <1>1, <3>1
    <3>3. g[i - 1] = g[i - 2] + Size(s[i], c, t) /\ i - 2 \in 0..(n - 1) /\ (i - 1) - 1 = i - 2
      BY <1>1, <1>4, <3>1, <3>2
    <3>4. h[i] = Size(Head(s), c, t) + g[i - 1] /\ h[i - 1] = Size(Head(s), c, t) + g[i - 2]
      BY <2>2, <3>1, <3>3
    <3>5. g[i - 1] \in Nat /\ g[i - 2] \in Nat /\ Size(s[i], c, t) \in Nat
      <4>1. s[i] \in Wire
        BY DEF n
      <4>2. Size(s[i], c, t) \in Nat
        BY <4>1, SizeType
      <4>3. g[i - 1] \in Nat /\ g[i - 2] \in Nat
        BY <1>1, <1>4, <3>1, <3>3
      <4>. QED BY <4>2, <4>3
    <3>. QED BY <1>5, <3>3, <3>4, <3>5
  <2>. QED BY <2>1, <2>2
<1>8. Counts(h, s, c, t)
  BY <1>6, <1>7 DEF Counts, n
<1>9. h[n] = Size(Head(s), c, t) + g[n - 1]
  BY <1>1
<1>. HIDE DEF h
<1>10. Bytes(s, c, t) = h[n]
  BY <1>8, BytesIsCounted DEF n
<1>11. g[n - 1] \in Nat
  BY <1>1, <1>4
<1>. QED BY <1>1, <1>3, <1>5, <1>9, <1>10, <1>11 DEF r

\* Frames without bytes of c count for nothing.
LEMMA BytesConcat ==
  ASSUME NEW s \in Seq(Wire), NEW r \in Seq(Wire), NEW c \in Chans, NEW t \in {"DATA", "WINDOW"},
         \A i \in DOMAIN r : Size(r[i], c, t) = 0
  PROVE  Bytes(s \o r, c, t) = Bytes(s, c, t)
<1>. DEFINE n == Len(s)
            m == Len(r)
            a == s \o r
<1>1. /\ n \in Nat /\ m \in Nat /\ a \in Seq(Wire) /\ Len(a) = n + m
      /\ \A i \in 1..n : a[i] = s[i]
      /\ \A i \in 1..m : a[n + i] = r[i] /\ Size(r[i], c, t) = 0
  OBVIOUS
<1>2. PICK g : Counts(g, s, c, t)
  BY CountExists
<1>3. Bytes(s, c, t) = g[n]
  BY <1>2, BytesIsCounted
<1>4. g \in [0..n -> Nat] /\ g[0] = 0 /\ \A i \in 1..n : g[i] = g[i - 1] + Size(s[i], c, t)
  BY <1>2 DEF Counts
<1>. HIDE DEF n, m, a
<1>. DEFINE h == [i \in 0..(n + m) |-> IF i <= n THEN g[i] ELSE g[n]]
<1>5. h \in [0..(n + m) -> Nat] /\ h[0] = 0
  BY <1>1, <1>4
<1>6. ASSUME NEW i \in 1..(n + m) PROVE h[i] = h[i - 1] + Size(a[i], c, t)
  <2>1. CASE i <= n
    <3>1. i \in 1..n /\ i - 1 \in 0..(n + m) /\ i \in 0..(n + m) /\ i - 1 <= n
      BY <1>1, <2>1
    <3>. QED BY <1>1, <1>4, <2>1, <3>1
  <2>2. CASE i > n
    <3>1. i - n \in 1..m /\ n + (i - n) = i /\ i - 1 \in 0..(n + m) /\ i \in 0..(n + m)
      BY <1>1, <2>2
    <3>2. Size(a[i], c, t) = 0
      BY <1>1, <3>1
    <3>3. h[i] = g[n] /\ h[i - 1] = g[n] /\ g[n] \in Nat
      BY <1>1, <1>4, <2>2, <3>1
    <3>. QED BY <3>2, <3>3
  <2>. QED BY <1>1, <2>1, <2>2
<1>7. Counts(h, a, c, t)
  BY <1>1, <1>5, <1>6 DEF Counts
<1>8. h[n + m] = g[n]
  BY <1>1
<1>. HIDE DEF h
<1>9. Bytes(a, c, t) = h[Len(a)]
  BY <1>1, <1>7, BytesIsCounted
<1>. QED BY <1>1, <1>3, <1>8, <1>9 DEF a

LEMMA BytesNone ==
  ASSUME NEW s \in Seq(Wire), NEW c \in Chans, NEW t \in {"DATA", "WINDOW"},
         \A i \in DOMAIN s : Size(s[i], c, t) = 0
  PROVE  Bytes(s, c, t) = 0
<1>1. Len(s) \in Nat /\ DOMAIN s = 1..Len(s)
  OBVIOUS
<1>. DEFINE h == [i \in 0..Len(s) |-> 0]
<1>2. Counts(h, s, c, t)
  BY <1>1 DEF Counts
<1>3. h[Len(s)] = 0
  BY <1>1
<1>. HIDE DEF h
<1>. QED BY <1>2, <1>3, BytesIsCounted

-----------------------------------------------------------------------------
(* What most actions do. *)

Rest == NumbersUsed /\ OpenIsFirst /\ HostLetGo /\ GuestLetGo /\ EndReachesBoth

\* No dial begins or ends.
SamePumps ==
  \A c \in Chans : /\ pump'["host"][c] = "none" <=> pump["host"][c] = "none"
                   /\ pump'["host"][c] = "opening" <=> pump["host"][c] = "opening"

LetGo(c) == c \notin listed["host"] /\ pump["host"][c] \notin {"none", "opening"}

\* Frames s are on their way to the host behind the others, no OPEN among them, for every
\* channel that is no longer routed and that the host had not let go; and the host announces
\* no end but those of channels it let go.
Told(s) ==
  /\ routed' \subseteq routed
  /\ listed'["host"] \subseteq listed["host"] /\ listed'["guest"] \subseteq listed["guest"]
  /\ share' = "up" => share = "up"
  /\ s \in Seq(Wire) /\ hostIn' = hostIn \o s
  /\ \A i \in DOMAIN s : s[i].type # "OPEN"
  /\ \A c \in routed \ routed' : Ends(s, c) \/ LetGo(c)
  /\ \A i \in DOMAIN hostOut' : hostOut'[i].type \in Closing =>
       \/ \E j \in DOMAIN hostOut : hostOut[j] = hostOut'[i]
       \/ /\ hostOut'[i].chan \in Chans
          /\ hostOut'[i].chan \notin listed'["host"]
          /\ pump["host"][hostOut'[i].chan] \notin {"none", "opening"}

\* And the guest is told too, or has let go.
Calm(s) ==
  /\ Told(s) /\ SamePumps /\ nextChan' = nextChan
  /\ guest' # "up" => guest # "up" \/ listed'["guest"] = {}
  /\ late \subseteq late' /\ dropped \subseteq dropped'
  /\ \A c \in routed \ routed' : c \notin listed'["guest"] \/ c \in dropped' \/ Ends(queue'[c], c)
  /\ \A c \in listed'["guest"] : Ends(queue[c], c) => Ends(queue'[c], c)

LEMMA CalmOpens ==
  ASSUME Domains, OpenIsFirst, NEW s, Calm(s)
  PROVE  OpenIsFirst'
<1>. SUFFICES ASSUME NEW i \in DOMAIN hostIn', hostIn'[i].type = "OPEN"
              PROVE  LET c == hostIn'[i].chan IN
                     /\ c <= nextChan' /\ pump'["host"][c] = "none"
                     /\ \A j \in DOMAIN hostIn' :
                          hostIn'[j].type = "OPEN" /\ hostIn'[j].chan = c => j = i
                     /\ c \notin routed' =>
                          \E j \in DOMAIN hostIn' :
                            j > i /\ hostIn'[j].chan = c /\ hostIn'[j].type \in Closing
  BY DEF OpenIsFirst
<1>. DEFINE c == hostIn'[i].chan
<1>1. /\ hostIn \in Seq(Wire) /\ s \in Seq(Wire) /\ hostIn' = hostIn \o s
      /\ Len(hostIn) \in Nat /\ Len(s) \in Nat
      /\ DOMAIN hostIn = 1..Len(hostIn) /\ DOMAIN s = 1..Len(s)
      /\ DOMAIN hostIn' = 1..(Len(hostIn) + Len(s))
      /\ \A k \in DOMAIN hostIn : hostIn'[k] = hostIn[k]
      /\ \A k \in DOMAIN s : hostIn'[Len(hostIn) + k] = s[k]
  BY ConcatElements DEF Domains, Calm, Told
<1>2. ASSUME NEW j \in DOMAIN hostIn', hostIn'[j].type = "OPEN" PROVE j \in DOMAIN hostIn
  <2>1. CASE j \in DOMAIN hostIn
    BY <2>1
  <2>2. CASE j \notin DOMAIN hostIn
    <3>1. j - Len(hostIn) \in DOMAIN s /\ hostIn'[j] = s[j - Len(hostIn)]
      BY <1>1, <2>2
    <3>. QED BY <1>2, <3>1 DEF Calm, Told
  <2>. QED BY <2>1, <2>2
<1>3. i \in DOMAIN hostIn /\ hostIn[i] = hostIn'[i] /\ hostIn[i].type = "OPEN" /\ hostIn[i].chan = c
  BY <1>1, <1>2
<1>4. c \in Chans
  BY <1>1, <1>3, WireFacts
<1>5. c <= nextChan' /\ pump["host"][c] = "none" /\ pump'["host"][c] = "none"
  BY <1>3, <1>4 DEF OpenIsFirst, Calm, Told, SamePumps
<1>6. \A j \in DOMAIN hostIn' : hostIn'[j].type = "OPEN" /\ hostIn'[j].chan = c => j = i
  BY <1>1, <1>2, <1>3 DEF OpenIsFirst
<1>7. ASSUME c \notin routed'
      PROVE  \E j \in DOMAIN hostIn' : j > i /\ hostIn'[j].chan = c /\ hostIn'[j].type \in Closing
  <2>1. CASE c \notin routed
    <3>1. PICK j \in DOMAIN hostIn : j > i /\ hostIn[j].chan = c /\ hostIn[j].type \in Closing
      BY <1>3, <2>1 DEF OpenIsFirst
    <3>. QED BY <1>1, <3>1
  <2>2. CASE c \in routed
    <3>1. Ends(s, c)
      BY <1>5, <1>7, <2>2 DEF Calm, Told, LetGo
    <3>2. PICK k \in DOMAIN s : s[k].chan = c /\ s[k].type \in Closing
      BY <3>1 DEF Ends
    <3>3. Len(hostIn) + k \in DOMAIN hostIn' /\ Len(hostIn) + k > i
      BY <1>1, <1>3, <3>2
    <3>. QED BY <1>1, <3>2, <3>3
  <2>. QED BY <2>1, <2>2
<1>. QED BY <1>5, <1>6, <1>7

LEMMA CalmKeeps ==
  ASSUME Domains, Rest, \E s : Calm(s)
  PROVE  Rest'
<1>. PICK s : Calm(s)
  OBVIOUS
<1>1. NumbersUsed'
  <2>1. \A c \in Chans : c \in routed' \/ pump'["host"][c] # "none" => c <= nextChan'
    BY DEF Rest, NumbersUsed, Calm, Told, SamePumps
  <2>2. \A c \in listed'["host"] : c \in Chans /\ pump'["host"][c] \notin {"none", "opening"}
    BY DEF Rest, NumbersUsed, Calm, Told, SamePumps, Domains, End
  <2>. QED BY <2>1, <2>2 DEF NumbersUsed
<1>2. OpenIsFirst'
  BY CalmOpens DEF Rest
<1>3. HostLetGo'
  <2>. SUFFICES ASSUME NEW i \in DOMAIN hostOut', hostOut'[i].type \in Closing
                PROVE  /\ hostOut'[i].chan \notin listed'["host"]
                       /\ pump'["host"][hostOut'[i].chan] \notin {"none", "opening"}
    BY DEF HostLetGo
  <2>1. CASE \E j \in DOMAIN hostOut : hostOut[j] = hostOut'[i]
    <3>1. PICK j \in DOMAIN hostOut : hostOut[j] = hostOut'[i]
      BY <2>1
    <3>2. hostOut[j].chan \in Chans
      BY WireFacts DEF Domains
    <3>3. hostOut[j].chan \notin listed["host"] /\ pump["host"][hostOut[j].chan] \notin {"none", "opening"}
      BY <3>1 DEF Rest, HostLetGo
    <3>. QED BY <3>1, <3>2, <3>3 DEF Calm, Told, SamePumps
  <2>2. CASE ~ \E j \in DOMAIN hostOut : hostOut[j] = hostOut'[i]
    BY <2>2 DEF Calm, Told, SamePumps
  <2>. QED BY <2>1, <2>2
<1>4. GuestLetGo'
  BY DEF GuestLetGo, Rest, Calm, Told
<1>5. EndReachesBoth'
  <2>. SUFFICES ASSUME share' = "up", NEW c \in Chans \ routed'
                PROVE  /\ c \in listed'["host"] \/ pump'["host"][c] = "opening" =>
                            c \in late' \/ Ends(hostIn', c)
                       /\ c \in listed'["guest"] => c \in dropped' \/ Ends(queue'[c], c)
    BY DEF EndReachesBoth, Ends
  <2>1. hostIn \in Seq(Wire) /\ s \in Seq(Wire) /\ hostIn' = hostIn \o s
    BY DEF Domains, Calm, Told
  <2>2. Ends(hostIn, c) \/ Ends(s, c) => Ends(hostIn', c)
    BY <2>1, EndsConcat
  <2>3. CASE c \notin routed
    BY <2>2, <2>3 DEF Rest, EndReachesBoth, Calm, Told, SamePumps
  <2>4. CASE c \in routed
    <3>1. Ends(s, c) \/ LetGo(c)
      BY <2>4 DEF Calm, Told
    <3>2. c \notin listed'["guest"] \/ c \in dropped' \/ Ends(queue'[c], c)
      BY <2>4 DEF Calm, Told
    <3>. QED BY <2>2, <3>1, <3>2 DEF LetGo, Calm, Told, SamePumps
  <2>. QED BY <2>3, <2>4
<1>. QED BY <1>1, <1>2, <1>3, <1>4, <1>5 DEF Rest

-----------------------------------------------------------------------------
(* What an end sends. *)

LEMMA SendsIsTyped ==
  ASSUME Domains, NEW e \in End, NEW f \in Wire, Sends(e, f)
  PROVE  hostIn' \in Seq(Wire) /\ hostOut' \in Seq(Wire) /\ routed' \subseteq Chans
<1>1. hostIn \in Seq(Wire) /\ hostOut \in Seq(Wire) /\ routed \subseteq Chans
  BY DEF Domains
<1>2. Append(hostIn, f) \in Seq(Wire) /\ Append(hostOut, f) \in Seq(Wire)
  BY <1>1, AppendIsConcat
<1>3. CASE e = "host"
  BY <1>1, <1>2, <1>3 DEF Sends, HostSends
<1>4. CASE e # "host"
  BY <1>1, <1>2, <1>4 DEF Sends, GuestSends, End
<1>. QED BY <1>3, <1>4

LEMMA CloseTellingIsTyped ==
  ASSUME Domains, NEW e \in End, NEW c \in Chans, CloseTelling(e, c)
  PROVE  /\ hostIn' \in Seq(Wire) /\ hostOut' \in Seq(Wire) /\ routed' \subseteq Chans
         /\ listed' \in [End -> SUBSET Chans]
<1>1. CASE c \in listed[e]
  <2>1. Control(c, "CLOSE") \in Wire
    BY FrameFacts
  <2>2. hostIn' \in Seq(Wire) /\ hostOut' \in Seq(Wire) /\ routed' \subseteq Chans
    BY <1>1, <2>1, SendsIsTyped DEF CloseTelling
  <2>3. listed' \in [End -> SUBSET Chans]
    <3>1. listed' = [listed EXCEPT ![e] = @ \ {c}]
      BY <1>1 DEF CloseTelling, Unlist
    <3>. QED BY <3>1 DEF Domains
  <2>. QED BY <2>2, <2>3
<1>2. CASE c \notin listed[e]
  BY <1>2 DEF CloseTelling, SendsNothing, Domains
<1>. QED BY <1>1, <1>2

\* Who sends nothing and lets go of nothing.
LEMMA NothingIsTold ==
  ASSUME Domains, SendsNothing, listed' = listed
  PROVE  Told(<<>>)
<1>1. <<>> \in Seq(Wire) /\ hostIn \o <<>> = hostIn /\ DOMAIN <<>> = {}
  BY DEF Domains
<1>. QED BY <1>1 DEF Told, SendsNothing

\* A frame other than OPEN; if it is the host's and ends a channel, the host let go of that.
LEMMA SendsIsTold ==
  ASSUME Domains, NEW e \in End, NEW f \in Wire, f.type # "OPEN", Sends(e, f),
         listed'["host"] \subseteq listed["host"], listed'["guest"] \subseteq listed["guest"],
         e = "host" /\ f.type \in Closing =>
           f.chan \notin listed'["host"] /\ pump["host"][f.chan] \notin {"none", "opening"}
  PROVE  /\ \E s : Told(s)
         /\ \A c \in routed \ routed' : e = "guest" /\ c = f.chan
<1>1. f.chan \in Chans
  BY WireFacts
<1>2. <<>> \in Seq(Wire) /\ hostIn \o <<>> = hostIn /\ DOMAIN <<>> = {}
  BY DEF Domains
<1>3. CASE e = "host"
  <2>1. HostSends(f)
    BY <1>3 DEF Sends
  <2>2. \A i \in DOMAIN hostOut' :
          (\E j \in DOMAIN hostOut : hostOut[j] = hostOut'[i]) \/ hostOut'[i] = f
    <3>1. CASE hostOut' = hostOut
      BY <3>1
    <3>2. CASE hostOut' = Append(hostOut, f)
      <4>. SUFFICES ASSUME NEW i \in DOMAIN hostOut', hostOut'[i] # f
                    PROVE  \E j \in DOMAIN hostOut : hostOut[j] = hostOut'[i]
        OBVIOUS
      <4>1. hostOut \in Seq(Wire)
        BY DEF Domains
      <4>2. i \in DOMAIN hostOut /\ hostOut[i] = hostOut'[i]
        BY <3>2, <4>1, AppendIsConcat
      <4>. QED BY <4>2
    <3>. QED BY <2>1, <3>1, <3>2 DEF HostSends
  <2>3. hostIn' = hostIn /\ routed' = routed /\ (share' = "up" => share = "up")
    BY <2>1 DEF HostSends
  <2>4. Told(<<>>)
    BY <1>1, <1>2, <1>3, <2>2, <2>3 DEF Told
  <2>. QED BY <2>3, <2>4
<1>4. CASE e = "guest"
  <2>1. GuestSends(f)
    BY <1>4 DEF Sends, End
  <2>2. \A c \in routed \ routed' : c = f.chan /\ f.type = "CLOSE"
    BY <2>1 DEF GuestSends
  <2>3. CASE f.chan \in routed
    <3>1. hostIn' = hostIn \o <<f>> /\ <<f>> \in Seq(Wire) /\ DOMAIN <<f>> = {1} /\ <<f>>[1] = f
      BY <2>1, <2>3, AppendIsConcat DEF GuestSends, Domains
    <3>2. f.type = "CLOSE" => Ends(<<f>>, f.chan)
      BY <1>1, EndsAppend, <3>1 DEF Ends, Closing
    <3>3. Told(<<f>>)
      BY <2>1, <2>2, <3>1, <3>2 DEF Told, GuestSends
    <3>. QED BY <1>4, <2>2, <3>3
  <2>4. CASE f.chan \notin routed
    <3>1. routed' = routed /\ hostIn' = hostIn /\ hostOut' = hostOut /\ share' = share
      BY <2>1, <2>4 DEF GuestSends
    <3>2. Told(<<>>)
      BY <1>2, <3>1 DEF Told
    <3>. QED BY <3>1, <3>2
  <2>. QED BY <2>3, <2>4
<1>. QED BY <1>3, <1>4 DEF End

\* An end that lets go of a channel.
LEMMA CloseIsTold ==
  ASSUME Domains, NumbersUsed, NEW e \in End, NEW c \in Chans, CloseTelling(e, c)
  PROVE  /\ \E s : Told(s)
         /\ listed'["guest"] \subseteq listed["guest"]
         /\ \A d \in routed \ routed' : d \notin listed'["guest"]
<1>1. CASE c \in listed[e]
  <2>. DEFINE f == Control(c, "CLOSE")
  <2>1. f \in Wire /\ f.type = "CLOSE" /\ f.chan = c
    BY FrameFacts
  <2>2. Sends(e, f) /\ listed' = [listed EXCEPT ![e] = @ \ {c}]
    BY <1>1 DEF CloseTelling, Unlist
  <2>3. /\ listed'["host"] \subseteq listed["host"] /\ listed'["guest"] \subseteq listed["guest"]
        /\ c \notin listed'[e]
    BY <2>2 DEF Domains, End
  <2>4. e = "host" => pump["host"][c] \notin {"none", "opening"}
    BY <1>1 DEF NumbersUsed
  <2>. HIDE DEF f
  <2>5. (\E s : Told(s)) /\ \A d \in routed \ routed' : e = "guest" /\ d = c
    BY <2>1, <2>2, <2>3, <2>4, SendsIsTold
  <2>. QED BY <2>3, <2>5
<1>2. CASE c \notin listed[e]
  <2>1. SendsNothing /\ listed' = listed
    BY <1>2 DEF CloseTelling
  <2>2. Told(<<>>)
    BY <2>1, NothingIsTold
  <2>. QED BY <2>1, <2>2 DEF SendsNothing
<1>. QED BY <1>1, <1>2

-----------------------------------------------------------------------------
(* The domains. *)

LEMMA ForgettingIsTyped ==
  ASSUME Domains, ForgetGuest
  PROVE  /\ hostIn' \in Seq(Wire)
         /\ \E s \in Seq(Wire) : /\ hostIn' = hostIn \o s
                                 /\ \A i \in DOMAIN s : s[i].type = "CLOSE"
                                 /\ \A c \in routed : Ends(s, c)
<1>. DEFINE S == { Control(c, "CLOSE") : c \in routed }
           s == SetToSeq(S)
<1>1. S \in SUBSET Wire /\ \A f \in S : f.type = "CLOSE"
  BY FrameFacts DEF Domains
<1>2. IsFiniteSet(S)
  <2>1. IsFiniteSet(Chans)
    BY FS_Interval, EndsAssumption DEF Chans
  <2>2. IsFiniteSet(routed)
    BY <2>1, FS_Subset DEF Domains
  <2>. DEFINE g == [c \in routed |-> Control(c, "CLOSE")]
  <2>3. g \in Surjection(routed, S)
    BY DEF Surjection
  <2>. QED BY <2>2, <2>3, FS_Surjection
<1>3. s \in Seq(S) /\ \A x \in S : \E i \in DOMAIN s : s[i] = x
  BY <1>1, <1>2, SetToSeqElements
<1>4. s \in Seq(Wire) /\ \A i \in DOMAIN s : s[i] \in S
  <2>. HIDE DEF S, s
  <2>. QED BY <1>1, <1>3
<1>5. \A c \in routed : Ends(s, c)
  <2>. SUFFICES ASSUME NEW c \in routed PROVE Ends(s, c)
    OBVIOUS
  <2>1. Control(c, "CLOSE") \in S
    OBVIOUS
  <2>2. PICK i \in DOMAIN s : s[i] = Control(c, "CLOSE")
    BY <1>3, <2>1
  <2>3. c \in Chans
    BY DEF Domains
  <2>4. Control(c, "CLOSE").chan = c /\ Control(c, "CLOSE").type = "CLOSE"
    BY <2>3, FrameFacts
  <2>. HIDE DEF s
  <2>. QED BY <2>2, <2>4 DEF Ends, Closing
<1>6. hostIn' = hostIn \o s
  BY DEF ForgetGuest
<1>. HIDE DEF S, s
<1>7. hostIn' \in Seq(Wire)
  BY <1>4, <1>6, ConcatElements DEF Domains
<1>8. \A i \in DOMAIN s : s[i].type = "CLOSE"
  BY <1>1, <1>4
<1>. QED BY <1>4, <1>5, <1>6, <1>7, <1>8

LEMMA DomainsKept ==
  ASSUME Domains, [Next]_vars
  PROVE  Domains'
<1>1. Chunks \subseteq Nat
  BY EndsAssumption
<1>2. ASSUME GuestAccepts PROVE Domains'
  <2>. DEFINE c == nextChan + 1
  <2>1. c \in Chans /\ c \in 0..MaxChannels
    BY <1>2, EndsAssumption DEF GuestAccepts, Domains, Chans
  <2>2. Append(hostIn, Control(c, "OPEN")) \in Seq(Wire)
    BY <2>1, FrameFacts, AppendIsConcat DEF Domains
  <2>3. /\ listed' = [listed EXCEPT !["guest"] = @ \cup {c}]
        /\ pump' = [pump EXCEPT !["guest"][c] = "opening"]
        /\ nextChan' = c /\ routed' = routed \cup {c}
        /\ hostIn' = Append(hostIn, Control(c, "OPEN"))
        /\ UNCHANGED <<hold, loop, hostOut, queue>>
    BY <1>2 DEF GuestAccepts
  <2>. HIDE DEF c
  <2>. QED BY <2>1, <2>2, <2>3 DEF Domains, End
<1>3. ASSUME NEW c \in Chans, GuestAnswered(c) PROVE Domains'
  <2>1. CASE answer[c] = "ok"
    <3>1. /\ pump' = [pump EXCEPT !["guest"][c] = "reading"]
          /\ UNCHANGED <<listed, hold, nextChan, loop, queue, hostIn, hostOut, routed>>
      BY <1>3, <2>1 DEF GuestAnswered, SendsNothing
    <3>. QED BY <3>1 DEF Domains, End
  <2>2. CASE answer[c] # "ok"
    <3>1. /\ hostIn' \in Seq(Wire) /\ hostOut' \in Seq(Wire) /\ routed' \subseteq Chans
          /\ listed' \in [End -> SUBSET Chans]
      BY <1>3, <2>2, CloseTellingIsTyped DEF GuestAnswered, End
    <3>2. pump' = [pump EXCEPT !["guest"][c] = "ended"] /\ UNCHANGED <<hold, nextChan, loop, queue>>
      BY <1>3, <2>2 DEF GuestAnswered
    <3>. QED BY <3>1, <3>2 DEF Domains, End
  <2>. QED BY <2>1, <2>2
<1>4. ASSUME NEW c \in Chans, HostDialled(c) PROVE Domains'
  <2>1. PICK t \in {"OPEN", "ERROR"} : HostSends(Control(c, t))
    BY <1>4 DEF HostDialled
  <2>2. hostIn' \in Seq(Wire) /\ hostOut' \in Seq(Wire) /\ routed' \subseteq Chans
    BY <2>1, FrameFacts, SendsIsTyped DEF Sends, End
  <2>3. /\ listed' = listed \/ listed' = [listed EXCEPT !["host"] = @ \cup {c}]
        /\ \E p \in {"reading", "ended"} : pump' = [pump EXCEPT !["host"][c] = p]
        /\ UNCHANGED <<hold, nextChan, loop, queue>>
    BY <1>4 DEF HostDialled
  <2>4. listed' \in [End -> SUBSET Chans]
    BY <2>3 DEF Domains, End
  <2>5. pump' \in [End -> [Chans -> {"none", "opening", "reading", "waiting", "sending", "ended"}]]
    BY <2>3 DEF Domains, End
  <2>. QED BY <2>2, <2>3, <2>4, <2>5 DEF Domains
<1>5. ASSUME NEW e \in End, NEW c \in Chans, Pump(e, c) PROVE Domains'
  <2>1. CASE PumpReads(e, c)
    BY <1>1, <2>1 DEF PumpReads, wireVars, Domains
  <2>2. CASE PumpMeetsEOF(e, c)
    <3>1. /\ hostIn' \in Seq(Wire) /\ hostOut' \in Seq(Wire) /\ routed' \subseteq Chans
          /\ listed' \in [End -> SUBSET Chans]
      BY <2>2, CloseTellingIsTyped DEF PumpMeetsEOF
    <3>2. pump' = [pump EXCEPT ![e][c] = "ended"] /\ UNCHANGED <<hold, nextChan, loop, queue>>
      BY <2>2 DEF PumpMeetsEOF
    <3>. QED BY <3>1, <3>2 DEF Domains
  <2>. QED BY <1>5, <2>1, <2>2 DEF Pump
<1>6. ASSUME NEW e \in End, NEW c \in Chans, Runs(e, c) PROVE Domains'
  <2>1. CASE PumpReserves(e, c)
    BY <2>1 DEF PumpReserves, wireVars, Domains
  <2>2. CASE PumpSends(e, c)
    <3>1. Sized(c, "DATA", hold[e][c]) \in Wire
      BY FrameFacts DEF Domains
    <3>2. hostIn' \in Seq(Wire) /\ hostOut' \in Seq(Wire) /\ routed' \subseteq Chans
      BY <2>2, <3>1, SendsIsTyped DEF PumpSends
    <3>3. /\ hold' = [hold EXCEPT ![e][c] = 0] /\ pump' = [pump EXCEPT ![e][c] = "reading"]
          /\ UNCHANGED <<listed, nextChan, loop, queue>>
      BY <2>2 DEF PumpSends
    <3>. QED BY <3>2, <3>3 DEF Domains
  <2>3. CASE PumpEnds(e, c)
    BY <2>3 DEF PumpEnds, wireVars, Domains
  <2>. QED BY <1>6, <2>1, <2>2, <2>3 DEF Runs
<1>7. ASSUME NEW e \in End, NEW f \in Wire, Handle(e, f)
      PROVE  /\ listed' \in [End -> SUBSET Chans]
             /\ pump' \in [End -> [Chans -> {"none", "opening", "reading", "waiting", "sending", "ended"}]]
             /\ loop' \in [End -> {Idle} \cup [type : {"DATA"}, chan : Chans, n : Nat]]
  <2>1. f.chan \in Chans /\ (f.type = "DATA" => f \in [type : {"DATA"}, chan : Chans, n : Nat])
    BY WireFacts
  <2>2. listed' = listed \/ listed' = [listed EXCEPT ![e] = @ \ {f.chan}]
    BY <1>7 DEF Handle, Unlist
  <2>3. pump' = pump \/ pump' = [pump EXCEPT ![e][f.chan] = "opening"]
    BY <1>7 DEF Handle
  <2>4. loop' = loop \/ (f.type = "DATA" /\ loop' = [loop EXCEPT ![e] = f])
    BY <1>7 DEF Handle
  <2>5. listed' \in [End -> SUBSET Chans]
    <3>1. listed \in [End -> SUBSET Chans]
      BY DEF Domains
    <3>. QED BY <2>2, <3>1
  <2>6. pump' \in [End -> [Chans -> {"none", "opening", "reading", "waiting", "sending", "ended"}]]
    <3>1. pump \in [End -> [Chans -> {"none", "opening", "reading", "waiting", "sending", "ended"}]]
      BY DEF Domains
    <3>2. CASE pump' = pump
      BY <3>1, <3>2
    <3>3. CASE pump' = [pump EXCEPT ![e][f.chan] = "opening"]
      BY <2>1, <3>1, <3>3
    <3>. QED BY <2>3, <3>2, <3>3
  <2>7. loop' \in [End -> {Idle} \cup [type : {"DATA"}, chan : Chans, n : Nat]]
    BY <2>1, <2>4 DEF Domains
  <2>. QED BY <2>5, <2>6, <2>7
<1>8. ASSUME HostTakes PROVE Domains'
  <2>1. Head(hostIn) \in Wire /\ Tail(hostIn) \in Seq(Wire)
    BY <1>8, TailElements DEF HostTakes, Domains
  <2>2. /\ Handle("host", Head(hostIn)) /\ hostIn' = Tail(hostIn)
        /\ UNCHANGED <<hold, nextChan, hostOut, queue, routed>>
    BY <1>8 DEF HostTakes
  <2>3. /\ listed' \in [End -> SUBSET Chans]
        /\ pump' \in [End -> [Chans -> {"none", "opening", "reading", "waiting", "sending", "ended"}]]
        /\ loop' \in [End -> {Idle} \cup [type : {"DATA"}, chan : Chans, n : Nat]]
    BY <1>7, <2>1, <2>2 DEF End
  <2>. QED BY <2>1, <2>2, <2>3 DEF Domains
<1>9. ASSUME NEW c \in Chans, GuestTakes(c) PROVE Domains'
  <2>1. queue[c] \in Seq(Wire) /\ queue[c] # <<>>
    BY <1>9 DEF GuestTakes, Domains
  <2>2. /\ Head(queue[c]) \in Wire /\ Tail(queue[c]) \in Seq(Wire)
        /\ \A i \in DOMAIN Tail(queue[c]) : Tail(queue[c])[i].chan = c
    BY <2>1, TailElements DEF Domains
  <2>3. /\ Handle("guest", Head(queue[c])) /\ queue' = [queue EXCEPT ![c] = Tail(@)]
        /\ UNCHANGED <<hold, nextChan, hostIn, hostOut, routed>>
    BY <1>9 DEF GuestTakes
  <2>4. /\ listed' \in [End -> SUBSET Chans]
        /\ pump' \in [End -> [Chans -> {"none", "opening", "reading", "waiting", "sending", "ended"}]]
        /\ loop' \in [End -> {Idle} \cup [type : {"DATA"}, chan : Chans, n : Nat]]
    BY <1>7, <2>2, <2>3 DEF End
  <2>5. /\ queue' \in [Chans -> Seq(Wire)]
        /\ \A d \in Chans : \A i \in DOMAIN queue'[d] : queue'[d][i].chan = d
    BY <2>2, <2>3 DEF Domains
  <2>6. hold' \in [End -> [Chans -> Nat]] /\ nextChan' \in 0..MaxChannels
        /\ routed' \subseteq Chans /\ hostIn' \in Seq(Wire) /\ hostOut' \in Seq(Wire)
    BY <2>3 DEF Domains
  <2>. QED BY <2>4, <2>5, <2>6 DEF Domains
<1>10. ASSUME NEW e \in End, Loop(e) PROVE Domains'
  <2>. DEFINE c == loop[e].chan
  <2>1. c \in Chans /\ loop[e].n \in Nat
    BY <1>10 DEF Loop, LoopWrites, LoopFails, Domains
  <2>2. CASE LoopWrites(e)
    <3>1. Sized(c, "WINDOW", loop[e].n) \in Wire /\ Sends(e, Sized(c, "WINDOW", loop[e].n))
      BY <2>1, <2>2, FrameFacts DEF LoopWrites, Credits
    <3>2. hostIn' \in Seq(Wire) /\ hostOut' \in Seq(Wire) /\ routed' \subseteq Chans
      BY <3>1, SendsIsTyped
    <3>3. loop' = [loop EXCEPT ![e] = Idle] /\ UNCHANGED <<listed, pump, hold, nextChan, queue>>
      BY <2>2 DEF LoopWrites
    <3>. QED BY <3>2, <3>3 DEF Domains
  <2>3. CASE LoopFails(e)
    <3>1. /\ hostIn' \in Seq(Wire) /\ hostOut' \in Seq(Wire) /\ routed' \subseteq Chans
          /\ listed' \in [End -> SUBSET Chans]
      BY <2>1, <2>3, CloseTellingIsTyped DEF LoopFails
    <3>2. loop' = [loop EXCEPT ![e] = Idle] /\ UNCHANGED <<pump, hold, nextChan, queue>>
      BY <2>3 DEF LoopFails
    <3>. QED BY <3>1, <3>2 DEF Domains
  <2>. QED BY <1>10, <2>2, <2>3 DEF Loop
<1>11. ASSUME RelayRoutes PROVE Domains'
  <2>. DEFINE f == Head(hostOut)
             c == f.chan
             shut == Control(c, "CLOSE")
  <2>1. f \in Wire /\ c \in Chans /\ Tail(hostOut) \in Seq(Wire)
    BY <1>11, TailElements, WireFacts DEF RelayRoutes, Domains
  <2>2. shut \in Wire /\ shut.chan = c
    BY <2>1, FrameFacts
  <2>3. /\ queue' = queue \/ \E g \in {f, shut} : queue' = [queue EXCEPT ![c] = Append(@, g)]
        /\ routed' = routed \/ routed' = routed \ {c}
        /\ hostIn' = hostIn \/ hostIn' = Append(hostIn, shut)
        /\ hostOut' = Tail(hostOut)
        /\ UNCHANGED endVars
    BY <1>11 DEF RelayRoutes
  <2>. HIDE DEF f, shut
  <2>4. \A g \in {f, shut} : /\ Append(queue[c], g) \in Seq(Wire)
                             /\ \A i \in DOMAIN Append(queue[c], g) : Append(queue[c], g)[i].chan = c
    <3>. SUFFICES ASSUME NEW g \in {f, shut}
                  PROVE  /\ Append(queue[c], g) \in Seq(Wire)
                         /\ \A i \in DOMAIN Append(queue[c], g) : Append(queue[c], g)[i].chan = c
      OBVIOUS
    <3>1. g \in Wire /\ g.chan = c
      BY <2>1, <2>2
    <3>2. queue[c] \in Seq(Wire) /\ \A i \in DOMAIN queue[c] : queue[c][i].chan = c
      BY <2>1 DEF Domains
    <3>. HIDE DEF c
    <3>. QED BY <3>1, <3>2, AppendIsConcat
  <2>5. /\ queue' \in [Chans -> Seq(Wire)]
        /\ \A d \in Chans : \A i \in DOMAIN queue'[d] : queue'[d][i].chan = d
    <3>1. queue \in [Chans -> Seq(Wire)] /\ \A d \in Chans : \A i \in DOMAIN queue[d] : queue[d][i].chan = d
      BY DEF Domains
    <3>2. CASE queue' = queue
      BY <3>1, <3>2
    <3>3. ASSUME NEW g \in {f, shut}, queue' = [queue EXCEPT ![c] = Append(@, g)]
          PROVE  /\ queue' \in [Chans -> Seq(Wire)]
                 /\ \A d \in Chans : \A i \in DOMAIN queue'[d] : queue'[d][i].chan = d
      <4>. HIDE DEF c
      <4>. QED BY <2>1, <2>4, <3>1, <3>3
    <3>. QED BY <2>3, <3>2, <3>3
  <2>6. hostIn' \in Seq(Wire) /\ routed' \subseteq Chans
    <3>1. hostIn \in Seq(Wire) /\ routed \subseteq Chans
      BY DEF Domains
    <3>2. Append(hostIn, shut) \in Seq(Wire)
      BY <2>2, <3>1, AppendIsConcat
    <3>. QED BY <2>3, <3>1, <3>2
  <2>. QED BY <2>1, <2>3, <2>5, <2>6 DEF Domains, endVars
<1>12. ASSUME GuestCloses PROVE Domains'
  <2>1. hostIn' \in Seq(Wire) /\ routed' \subseteq Chans
    BY <1>12, ForgettingIsTyped DEF GuestCloses, Domains, ForgetGuest
  <2>2. /\ listed' = [listed EXCEPT !["guest"] = {}]
        /\ UNCHANGED <<pump, hold, nextChan, loop, hostOut, queue>>
    BY <1>12 DEF GuestCloses
  <2>. QED BY <2>1, <2>2 DEF Domains
<1>13. ASSUME GuestLeaves PROVE Domains'
  <2>1. hostIn' \in Seq(Wire) /\ routed' \subseteq Chans
    BY <1>13, ForgettingIsTyped DEF GuestLeaves, ForgetGuest
  <2>. QED BY <1>13, <2>1 DEF GuestLeaves, Domains, endVars
<1>14. ASSUME ShareEnds PROVE Domains'
  BY <1>14 DEF ShareEnds, Domains, wireVars
<1>15. ASSUME UNCHANGED vars PROVE Domains'
  BY <1>15 DEF vars, endVars, wireVars, Domains
<1>. QED BY <1>2, <1>3, <1>4, <1>5, <1>6, <1>8, <1>9, <1>10, <1>11, <1>12, <1>13, <1>14,
            <1>15 DEF Next

-----------------------------------------------------------------------------
(* The actions that are calm. *)

\* Who sends one frame, or nothing, and leaves the relay's queues alone.
LEMMA SendersAreCalm ==
  ASSUME Domains, NumbersUsed, NEW e \in End, NEW c \in Chans,
         Pump(e, c) \/ Runs(e, c) \/ (e = "guest" /\ GuestAnswered(c)) \/ Loop(e)
  PROVE  \E s : Calm(s)
<1>1. /\ nextChan' = nextChan /\ guest' = guest /\ queue' = queue
      /\ late' = late /\ dropped' = dropped
  BY DEF Pump, Runs, Loop, PumpReads, PumpMeetsEOF, PumpReserves, PumpSends, PumpEnds,
         GuestAnswered, LoopWrites, LoopFails, logVars, wireVars
<1>2. SamePumps
  <2>1. CASE pump' = pump
    BY <2>1 DEF SamePumps
  <2>2. CASE \E p \in {"reading", "waiting", "sending", "ended"} :
               /\ pump' = [pump EXCEPT ![e][c] = p]
               /\ e = "host" => pump["host"][c] \in {"reading", "waiting", "sending"}
    <3>1. pump \in [End -> [Chans -> {"none", "opening", "reading", "waiting", "sending", "ended"}]]
      BY DEF Domains
    <3>. QED BY <2>2, <3>1 DEF SamePumps, End
  <2>. QED BY <2>1, <2>2 DEF Pump, Runs, Loop, PumpReads, PumpMeetsEOF, PumpReserves, PumpSends,
                             PumpEnds, GuestAnswered, LoopWrites, LoopFails
<1>3. ASSUME NEW s, Told(s), \A d \in routed \ routed' : d \notin listed'["guest"]
      PROVE  Calm(s)
  BY <1>1, <1>2, <1>3 DEF Calm
<1>4. ASSUME NEW d \in Chans, CloseTelling(e, d) PROVE \E s : Calm(s)
  BY <1>3, <1>4, CloseIsTold
<1>5. ASSUME SendsNothing, listed' = listed PROVE \E s : Calm(s)
  BY <1>3, <1>5, NothingIsTold DEF SendsNothing
<1>6. ASSUME NEW d \in Chans, NEW t \in {"DATA", "WINDOW"}, NEW n \in Nat,
             Sends(e, Sized(d, t, n)), listed' = listed
      PROVE  \E s : Calm(s)
  <2>. DEFINE f == Sized(d, t, n)
  <2>1. f \in Wire /\ f.type = t /\ f.chan = d
    BY FrameFacts
  <2>2. f.type # "OPEN" /\ f.type \notin Closing
    BY <2>1 DEF Closing
  <2>3. routed' = routed
    <3>1. CASE e = "host"
      BY <1>6, <3>1 DEF Sends, HostSends
    <3>2. CASE e # "host"
      BY <1>6, <2>2, <3>2 DEF Sends, GuestSends, End, Closing
    <3>. QED BY <3>1, <3>2
  <2>4. \E s : Told(s)
    <3>. HIDE DEF f
    <3>1. Sends(e, f)
      BY <1>6 DEF f
    <3>. QED BY <1>6, <2>1, <2>2, <3>1, SendsIsTold
  <2>. QED BY <1>3, <2>3, <2>4
<1>7. CASE PumpReads(e, c) \/ PumpReserves(e, c) \/ PumpEnds(e, c)
  BY <1>5, <1>7 DEF PumpReads, PumpReserves, PumpEnds, wireVars, SendsNothing
<1>8. CASE PumpMeetsEOF(e, c)
  BY <1>4, <1>8 DEF PumpMeetsEOF
<1>9. CASE PumpSends(e, c)
  <2>1. hold[e][c] \in Nat
    BY DEF Domains
  <2>. QED BY <1>6, <1>9, <2>1 DEF PumpSends
<1>10. CASE e = "guest" /\ GuestAnswered(c)
  BY <1>4, <1>5, <1>10 DEF GuestAnswered
<1>11. CASE LoopWrites(e)
  <2>1. loop[e].chan \in Chans /\ loop[e].n \in Nat
    BY <1>11 DEF LoopWrites, Domains
  <2>. QED BY <1>6, <1>11, <2>1 DEF LoopWrites, Credits
<1>12. CASE LoopFails(e)
  <2>1. loop[e].chan \in Chans
    BY <1>12 DEF LoopFails, Domains
  <2>. QED BY <1>4, <1>12, <2>1 DEF LoopFails
<1>. QED BY <1>7, <1>8, <1>9, <1>10, <1>11, <1>12 DEF Pump, Runs, Loop

LEMMA GuestTakesIsCalm ==
  ASSUME Domains, NEW c \in Chans, GuestTakes(c)
  PROVE  \E s : Calm(s)
<1>. DEFINE f == Head(queue[c])
<1>1. queue[c] \in Seq(Wire) /\ queue[c] # <<>> /\ f = queue[c][1] /\ 1 \in DOMAIN queue[c]
  BY TailElements DEF GuestTakes, Domains
<1>2. f \in Wire /\ f.chan = c
  BY <1>1, TailElements DEF Domains
<1>3. /\ Handle("guest", f) /\ queue' = [queue EXCEPT ![c] = Tail(@)]
      /\ UNCHANGED <<nextChan, hostIn, hostOut, routed, guest, share, dropped>>
  BY DEF GuestTakes
<1>. HIDE DEF f
<1>4. pump' = pump /\ late' = late
  BY <1>3 DEF Handle
<1>5. listed' = IF f.type \in Closing THEN [listed EXCEPT !["guest"] = @ \ {c}] ELSE listed
  BY <1>2, <1>3 DEF Handle, Unlist, Closing
<1>6. listed'["host"] = listed["host"] /\ listed'["guest"] \subseteq listed["guest"]
  BY <1>5 DEF Domains, End
<1>7. ASSUME NEW d \in listed'["guest"], Ends(queue[d], d) PROVE Ends(queue'[d], d)
  <2>1. d \in Chans /\ queue \in [Chans -> Seq(Wire)]
    BY <1>6 DEF Domains, End
  <2>2. CASE d # c
    BY <1>3, <1>7, <2>1, <2>2
  <2>3. CASE d = c
    <3>1. f.type \notin Closing
      BY <1>5, <2>3 DEF Domains, End
    <3>2. Ends(Tail(queue[c]), c)
      BY <1>1, <1>7, <2>3, <3>1, EndsTail DEF f
    <3>. QED BY <1>3, <2>1, <2>3, <3>2
  <2>. QED BY <2>2, <2>3
<1>8. <<>> \in Seq(Wire) /\ hostIn \o <<>> = hostIn /\ DOMAIN <<>> = {}
  BY DEF Domains
<1>9. Told(<<>>)
  BY <1>3, <1>6, <1>8 DEF Told
<1>10. SamePumps
  BY <1>4 DEF SamePumps
<1>. QED BY <1>3, <1>4, <1>7, <1>9, <1>10 DEF Calm

LEMMA RelayRoutesIsCalm ==
  ASSUME Domains, HostLetGo, RelayRoutes
  PROVE  \E s : Calm(s)
<1>. DEFINE f == Head(hostOut)
            c == f.chan
            closing == f.type \in Closing
            overrun == c \in routed /\ ~Fits(c) /\ ~closing
            shut == Control(c, "CLOSE")
            s == IF overrun THEN <<shut>> ELSE <<>>
<1>1. /\ hostOut' = Tail(hostOut)
      /\ queue' = IF c \notin routed \/ (closing /\ ~Fits(c)) THEN queue
                  ELSE [queue EXCEPT ![c] = Append(@, IF overrun THEN shut ELSE f)]
      /\ routed' = IF closing \/ overrun THEN routed \ {c} ELSE routed
      /\ hostIn' = IF overrun THEN Append(hostIn, shut) ELSE hostIn
      /\ dropped' = IF c \in routed /\ closing /\ ~Fits(c) THEN dropped \cup {c} ELSE dropped
      /\ UNCHANGED <<listed, pump, nextChan, guest, share, late>>
  BY DEF RelayRoutes, endVars
<1>2. /\ hostOut \in Seq(Wire) /\ f \in Wire /\ f = hostOut[1] /\ 1 \in DOMAIN hostOut
      /\ \A i \in DOMAIN hostOut' : i + 1 \in DOMAIN hostOut /\ hostOut'[i] = hostOut[i + 1]
  BY <1>1, TailElements DEF RelayRoutes, Domains
<1>3. c \in Chans
  BY <1>2, WireFacts
<1>4. shut \in Wire /\ shut.chan = c /\ shut.type = "CLOSE"
  BY <1>3, FrameFacts
<1>5. closing => LetGo(c)
  BY <1>2 DEF HostLetGo, LetGo
<1>. HIDE DEF f, shut
<1>6. /\ s \in Seq(Wire) /\ hostIn' = hostIn \o s
      /\ \A i \in DOMAIN s : s[i].type # "OPEN"
      /\ overrun => Ends(s, c)
  <2>1. CASE overrun
    <3>1. s = <<shut>> /\ hostIn' = Append(hostIn, shut) /\ hostIn \in Seq(Wire)
      BY <1>1, <2>1 DEF Domains
    <3>2. Ends(s, c)
      BY <1>3, <1>4, <3>1, EndsAppend DEF Closing
    <3>. QED BY <1>4, <3>1, <3>2, AppendIsConcat
  <2>2. CASE ~overrun
    <3>1. s = <<>> /\ hostIn' = hostIn /\ hostIn \in Seq(Wire)
      BY <1>1, <2>2 DEF Domains
    <3>. QED BY <2>2, <3>1
  <2>. QED BY <2>1, <2>2
<1>7. \A d \in routed \ routed' : d = c /\ (closing \/ overrun)
  BY <1>1
<1>8. Told(s)
  <2>. HIDE DEF s
  <2>1. \A i \in DOMAIN hostOut' : \E j \in DOMAIN hostOut : hostOut[j] = hostOut'[i]
    BY <1>2
  <2>. QED BY <1>1, <1>5, <1>6, <1>7, <2>1 DEF Told
<1>9. queue[c] \in Seq(Wire)
  BY <1>3 DEF Domains
<1>10. ASSUME NEW d \in routed \ routed' PROVE d \in dropped' \/ Ends(queue'[d], d)
  <2>1. d = c /\ c \in routed /\ (closing \/ overrun)
    BY <1>7, <1>10
  <2>2. CASE closing /\ ~Fits(c)
    BY <1>1, <2>1, <2>2
  <2>3. CASE ~(closing /\ ~Fits(c))
    <3>. DEFINE g == IF overrun THEN shut ELSE f
    <3>1. g \in Wire /\ g.chan = c /\ g.type \in Closing
      BY <1>2, <1>4, <2>1 DEF Closing
    <3>2. queue'[c] = Append(queue[c], g)
      BY <1>1, <1>3, <2>1, <2>3 DEF Domains
    <3>3. d = c
      BY <2>1
    <3>. HIDE DEF g, c
    <3>4. Ends(Append(queue[c], g), c)
      BY <1>3, <1>9, <3>1, EndsAppend
    <3>. QED BY <3>2, <3>3, <3>4
  <2>. QED BY <2>2, <2>3
<1>11. ASSUME NEW d \in listed'["guest"], Ends(queue[d], d) PROVE Ends(queue'[d], d)
  <2>1. d \in Chans
    BY <1>1 DEF Domains, End
  <2>2. CASE queue'[d] = queue[d]
    BY <1>11, <2>2
  <2>3. CASE queue'[d] # queue[d]
    <3>. DEFINE g == IF overrun THEN shut ELSE f
    <3>1. d = c /\ queue'[d] = Append(queue[d], g)
      BY <1>1, <2>1, <2>3 DEF Domains
    <3>2. g \in Wire
      BY <1>2, <1>4
    <3>. HIDE DEF g, c
    <3>. QED BY <1>9, <1>11, <2>1, <3>1, <3>2, EndsAppend
  <2>. QED BY <2>2, <2>3
<1>12. SamePumps /\ nextChan' = nextChan /\ guest' = guest /\ late' = late /\ dropped \subseteq dropped'
  BY <1>1 DEF SamePumps
<1>. HIDE DEF s
<1>. QED BY <1>8, <1>10, <1>11, <1>12 DEF Calm

\* A guest that goes, and the end of the session.
LEMMA EndingsAreCalm ==
  ASSUME Domains, GuestLetGo, GuestCloses \/ GuestLeaves \/ ShareEnds
  PROVE  \E s : Calm(s)
<1>1. <<>> \in Seq(Wire) /\ hostIn \o <<>> = hostIn /\ DOMAIN <<>> = {}
  BY DEF Domains
<1>2. /\ UNCHANGED <<pump, nextChan, hostOut, queue, late, dropped>>
      /\ share' = share \/ share' = "over"
      /\ listed'["host"] \subseteq listed["host"] /\ listed'["guest"] \subseteq listed["guest"]
  BY DEF GuestCloses, GuestLeaves, ShareEnds, endVars, wireVars, logVars, Domains, End
<1>3. (guest' = guest /\ routed' = routed) \/ listed'["guest"] = {}
  BY DEF GuestCloses, GuestLeaves, ShareEnds, endVars, wireVars, logVars, Domains, End, GuestLetGo
<1>4. (hostIn' = hostIn /\ routed' = routed) \/ ForgetGuest
  BY DEF GuestCloses, GuestLeaves, ShareEnds, wireVars
<1>5. \E s : Told(s)
  <2>1. CASE hostIn' = hostIn /\ routed' = routed
    <3>1. Told(<<>>)
      BY <1>1, <1>2, <2>1 DEF Told
    <3>. QED BY <3>1
  <2>2. CASE ForgetGuest
    <3>1. PICK s \in Seq(Wire) : /\ hostIn' = hostIn \o s
                                 /\ \A i \in DOMAIN s : s[i].type = "CLOSE"
                                 /\ \A c \in routed : Ends(s, c)
      BY <2>2, ForgettingIsTyped
    <3>2. routed' = {}
      BY <2>2 DEF ForgetGuest
    <3>3. Told(s)
      BY <1>2, <3>1, <3>2 DEF Told
    <3>. QED BY <3>3
  <2>. QED BY <1>4, <2>1, <2>2
<1>. QED BY <1>2, <1>3, <1>5 DEF Calm, SamePumps

LEMMA StutteringIsCalm ==
  ASSUME Domains, UNCHANGED vars
  PROVE  \E s : Calm(s)
<1>1. /\ SendsNothing /\ UNCHANGED <<listed, pump, nextChan, queue, guest, late, dropped>>
  BY DEF vars, endVars, wireVars, logVars, SendsNothing
<1>2. Told(<<>>) /\ routed' = routed
  BY <1>1, NothingIsTold DEF SendsNothing
<1>. QED BY <1>1, <1>2 DEF Calm, SamePumps

-----------------------------------------------------------------------------
(* The actions that are not: a channel is opened, heard of by the host, and dialled. *)

LEMMA GuestAcceptsKeeps ==
  ASSUME Domains, Rest, GuestAccepts
  PROVE  Rest'
<1>. DEFINE c == nextChan + 1
            f == Control(c, "OPEN")
<1>1. c \in Chans /\ nextChan \in Nat
  BY EndsAssumption DEF GuestAccepts, Domains, Chans
<1>2. /\ nextChan' = c /\ routed' = routed \cup {c} /\ hostIn' = Append(hostIn, f)
      /\ listed' = [listed EXCEPT !["guest"] = @ \cup {c}]
      /\ pump' = [pump EXCEPT !["guest"][c] = "opening"]
      /\ guest = "up" /\ UNCHANGED <<hostOut, queue, guest, share, late, dropped>>
  BY DEF GuestAccepts, logVars
<1>3. f \in Wire /\ f.type = "OPEN" /\ f.chan = c
  BY <1>1, FrameFacts
<1>. HIDE DEF f
<1>4. hostIn \in Seq(Wire)
  BY DEF Domains
<1>5. /\ Len(hostIn) \in Nat /\ DOMAIN hostIn = 1..Len(hostIn)
      /\ DOMAIN hostIn' = 1..(Len(hostIn) + 1) /\ hostIn'[Len(hostIn) + 1] = f
      /\ \A i \in DOMAIN hostIn : hostIn'[i] = hostIn[i]
  BY <1>2, <1>3, <1>4, AppendIsConcat
<1>6. pump'["host"] = pump["host"] /\ listed'["host"] = listed["host"]
  BY <1>1, <1>2 DEF Domains, End
<1>7. c \notin routed /\ pump["host"][c] = "none"
  BY <1>1 DEF Rest, NumbersUsed
<1>8. NumbersUsed'
  BY <1>1, <1>2, <1>6 DEF Rest, NumbersUsed, Chans
<1>9. OpenIsFirst'
  <2>. SUFFICES ASSUME NEW i \in DOMAIN hostIn', hostIn'[i].type = "OPEN"
                PROVE  LET d == hostIn'[i].chan IN
                       /\ d <= nextChan' /\ pump'["host"][d] = "none"
                       /\ \A j \in DOMAIN hostIn' :
                            hostIn'[j].type = "OPEN" /\ hostIn'[j].chan = d => j = i
                       /\ d \notin routed' =>
                            \E j \in DOMAIN hostIn' :
                              j > i /\ hostIn'[j].chan = d /\ hostIn'[j].type \in Closing
    BY DEF OpenIsFirst
  <2>1. \A j \in DOMAIN hostIn : hostIn[j].type = "OPEN" => hostIn[j].chan # c /\ hostIn[j].chan \in Chans
    <3>1. \A j \in DOMAIN hostIn : hostIn[j].type = "OPEN" => hostIn[j].chan <= nextChan
      BY DEF Rest, OpenIsFirst
    <3>2. \A j \in DOMAIN hostIn : hostIn[j].chan \in Chans
      BY <1>4, WireFacts
    <3>. QED BY <1>1, <3>1, <3>2
  <2>2. CASE i = Len(hostIn) + 1
    <3>1. hostIn'[i] = f
      BY <1>5, <2>2
    <3>2. \A j \in DOMAIN hostIn' : hostIn'[j].type = "OPEN" /\ hostIn'[j].chan = c => j = i
      BY <1>5, <2>1, <2>2
    <3>. QED BY <1>1, <1>2, <1>3, <1>6, <1>7, <3>1, <3>2
  <2>3. CASE i # Len(hostIn) + 1
    <3>. DEFINE d == hostIn[i].chan
    <3>1. i \in DOMAIN hostIn /\ hostIn'[i] = hostIn[i] /\ hostIn[i].type = "OPEN"
      BY <1>5, <2>3
    <3>2. /\ d <= nextChan /\ pump["host"][d] = "none"
          /\ \A j \in DOMAIN hostIn : hostIn[j].type = "OPEN" /\ hostIn[j].chan = d => j = i
          /\ d \notin routed =>
               \E j \in DOMAIN hostIn : j > i /\ hostIn[j].chan = d /\ hostIn[j].type \in Closing
      BY <3>1 DEF Rest, OpenIsFirst
    <3>3. d # c /\ d \in Chans
      BY <2>1, <3>1
    <3>4. \A j \in DOMAIN hostIn' : hostIn'[j].type = "OPEN" /\ hostIn'[j].chan = d => j = i
      BY <1>3, <1>5, <3>2, <3>3
    <3>5. d \notin routed' =>
            \E j \in DOMAIN hostIn' : j > i /\ hostIn'[j].chan = d /\ hostIn'[j].type \in Closing
      BY <1>2, <1>5, <3>2
    <3>6. d <= nextChan'
      BY <1>1, <1>2, <3>2, <3>3 DEF Chans
    <3>. QED BY <1>6, <3>1, <3>2, <3>4, <3>5, <3>6
  <2>. QED BY <2>2, <2>3
<1>10. HostLetGo'
  BY <1>2, <1>6 DEF Rest, HostLetGo
<1>11. GuestLetGo'
  BY <1>2 DEF GuestLetGo
<1>12. EndReachesBoth'
  <2>. SUFFICES ASSUME share' = "up", NEW d \in Chans \ routed'
                PROVE  /\ d \in listed'["host"] \/ pump'["host"][d] = "opening" =>
                            d \in late' \/ Ends(hostIn', d)
                       /\ d \in listed'["guest"] => d \in dropped' \/ Ends(queue'[d], d)
    BY DEF EndReachesBoth, Ends
  <2>1. d \in Chans \ routed /\ d # c
    BY <1>2
  <2>2. /\ d \in listed["host"] \/ pump["host"][d] = "opening" => d \in late \/ Ends(hostIn, d)
        /\ d \in listed["guest"] => d \in dropped \/ Ends(queue[d], d)
    BY <1>2, <2>1 DEF Rest, EndReachesBoth
  <2>3. Ends(hostIn, d) => Ends(hostIn', d)
    BY <1>2, <1>3, <1>4, <2>1, EndsAppend
  <2>4. d \in listed'["guest"] => d \in listed["guest"]
    BY <1>2, <2>1 DEF Domains, End
  <2>. QED BY <1>2, <1>6, <2>2, <2>3, <2>4
<1>. QED BY <1>8, <1>9, <1>10, <1>11, <1>12 DEF Rest

LEMMA HostDialledKeeps ==
  ASSUME Domains, Rest, NEW c \in Chans, HostDialled(c)
  PROVE  Rest'
<1>1. PICK t \in {"OPEN", "ERROR"}, p \in {"reading", "ended"} :
        /\ HostSends(Control(c, t))
        /\ pump' = [pump EXCEPT !["host"][c] = p]
        /\ listed' = IF t = "OPEN" THEN [listed EXCEPT !["host"] = @ \cup {c}] ELSE listed
  BY DEF HostDialled
<1>. DEFINE f == Control(c, t)
<1>2. f \in Wire /\ f.type = t /\ f.chan = c
  BY FrameFacts
<1>. HIDE DEF f
<1>3. /\ pump["host"][c] = "opening" /\ HostSends(f)
      /\ UNCHANGED <<nextChan, queue, guest, late, dropped>>
  BY <1>1 DEF HostDialled, logVars, f
<1>4. hostIn' = hostIn /\ routed' = routed /\ (share' = "up" => share = "up")
  BY <1>3 DEF HostSends
<1>5. /\ pump'["host"][c] = p /\ \A d \in Chans \ {c} : pump'["host"][d] = pump["host"][d]
      /\ listed'["guest"] = listed["guest"]
      /\ listed'["host"] = IF t = "OPEN" THEN listed["host"] \cup {c} ELSE listed["host"]
      /\ listed["host"] \subseteq Chans
  BY <1>1 DEF Domains, End
<1>6. c \notin listed["host"]
  BY <1>3 DEF Rest, NumbersUsed
<1>7. NumbersUsed'
  BY <1>3, <1>4, <1>5 DEF Rest, NumbersUsed
<1>8. OpenIsFirst'
  <2>1. \A i \in DOMAIN hostIn : hostIn[i].type = "OPEN" =>
          hostIn[i].chan \in Chans \ {c}
    <3>1. \A i \in DOMAIN hostIn : hostIn[i].chan \in Chans
      BY WireFacts DEF Domains
    <3>. QED BY <1>3, <3>1 DEF Rest, OpenIsFirst
  <2>. QED BY <1>3, <1>4, <1>5, <2>1 DEF Rest, OpenIsFirst
<1>9. HostLetGo'
  <2>. SUFFICES ASSUME NEW i \in DOMAIN hostOut', hostOut'[i].type \in Closing
                PROVE  /\ hostOut'[i].chan \notin listed'["host"]
                       /\ pump'["host"][hostOut'[i].chan] \notin {"none", "opening"}
    BY DEF HostLetGo
  <2>1. hostOut \in Seq(Wire)
    BY DEF Domains
  <2>2. (i \in DOMAIN hostOut /\ hostOut'[i] = hostOut[i]) \/ hostOut'[i] = f
    <3>1. hostOut' = hostOut \/ hostOut' = Append(hostOut, f)
      BY <1>3 DEF HostSends
    <3>. QED BY <1>2, <2>1, <3>1, AppendIsConcat
  <2>3. CASE i \in DOMAIN hostOut /\ hostOut'[i] = hostOut[i]
    <3>1. /\ hostOut[i].chan \notin listed["host"] /\ hostOut[i].chan \in Chans
          /\ pump["host"][hostOut[i].chan] \notin {"none", "opening"}
      BY <2>1, <2>3, WireFacts DEF Rest, HostLetGo
    <3>2. hostOut[i].chan # c
      BY <1>3, <3>1
    <3>. QED BY <1>5, <2>3, <3>1, <3>2
  <2>4. CASE hostOut'[i] = f
    <3>1. t = "ERROR"
      BY <1>2, <2>4 DEF Closing
    <3>. QED BY <1>2, <1>5, <1>6, <2>4, <3>1
  <2>. QED BY <2>2, <2>3, <2>4
<1>10. GuestLetGo'
  BY <1>3, <1>5 DEF Rest, GuestLetGo
<1>11. EndReachesBoth'
  <2>1. \A d \in Chans : d \in listed'["host"] \/ pump'["host"][d] = "opening" =>
          d \in listed["host"] \/ pump["host"][d] = "opening"
    BY <1>3, <1>5
  <2>. QED BY <1>3, <1>4, <1>5, <2>1 DEF Rest, EndReachesBoth, Ends
<1>. QED BY <1>7, <1>8, <1>9, <1>10, <1>11 DEF Rest

LEMMA HostTakesKeeps ==
  ASSUME Domains, Rest, HostTakes
  PROVE  Rest'
<1>. DEFINE f == Head(hostIn)
            c == f.chan
<1>1. /\ hostIn \in Seq(Wire) /\ hostIn # <<>> /\ f \in Wire /\ f = hostIn[1]
      /\ 1 \in DOMAIN hostIn /\ DOMAIN hostIn = 1..Len(hostIn) /\ Len(hostIn) \in Nat
      /\ DOMAIN Tail(hostIn) = 1..(Len(hostIn) - 1)
      /\ \A i \in DOMAIN Tail(hostIn) : Tail(hostIn)[i] = hostIn[i + 1]
  BY TailElements DEF HostTakes, Domains
<1>2. /\ Handle("host", f) /\ hostIn' = Tail(hostIn)
      /\ UNCHANGED <<nextChan, hostOut, queue, routed, guest, share, dropped>>
  BY DEF HostTakes
<1>3. c \in Chans /\ f.type \in {"OPEN", "CLOSE", "ERROR", "DATA", "WINDOW"}
  BY <1>1, WireFacts
<1>. HIDE DEF f
<1>4. /\ pump' = IF f.type = "OPEN" THEN [pump EXCEPT !["host"][c] = "opening"] ELSE pump
      /\ listed' = IF f.type \in Closing THEN [listed EXCEPT !["host"] = @ \ {c}] ELSE listed
      /\ late \subseteq late'
      /\ f.type \in Closing /\ pump["host"][c] = "opening" => c \in late'
  BY <1>2, <1>3 DEF Handle, Unlist, Closing
<1>5. /\ listed'["guest"] = listed["guest"]
      /\ listed'["host"] = IF f.type \in Closing THEN listed["host"] \ {c} ELSE listed["host"]
      /\ listed["host"] \subseteq Chans
  BY <1>4 DEF Domains, End
<1>6. \A d \in Chans : pump'["host"][d] = IF f.type = "OPEN" /\ d = c THEN "opening"
                                          ELSE pump["host"][d]
  BY <1>3, <1>4 DEF Domains, End
<1>7. f.type = "OPEN" =>
        /\ c <= nextChan /\ pump["host"][c] = "none"
        /\ \A j \in DOMAIN hostIn : hostIn[j].type = "OPEN" /\ hostIn[j].chan = c => j = 1
        /\ c \notin routed =>
             \E j \in DOMAIN hostIn : j > 1 /\ hostIn[j].chan = c /\ hostIn[j].type \in Closing
  BY <1>1 DEF Rest, OpenIsFirst
<1>8. NumbersUsed'
  <2>1. \A d \in Chans : d \in routed' \/ pump'["host"][d] # "none" => d <= nextChan'
    BY <1>2, <1>6, <1>7 DEF Rest, NumbersUsed
  <2>2. \A d \in listed'["host"] : pump'["host"][d] \notin {"none", "opening"}
    <3>1. \A d \in listed["host"] : d \in Chans /\ pump["host"][d] \notin {"none", "opening"}
      BY <1>5 DEF Rest, NumbersUsed
    <3>. QED BY <1>5, <1>6, <1>7, <3>1
  <2>. QED BY <2>1, <2>2 DEF NumbersUsed
<1>9. OpenIsFirst'
  <2>. SUFFICES ASSUME NEW i \in DOMAIN hostIn', hostIn'[i].type = "OPEN"
                PROVE  LET d == hostIn'[i].chan IN
                       /\ d <= nextChan' /\ pump'["host"][d] = "none"
                       /\ \A j \in DOMAIN hostIn' :
                            hostIn'[j].type = "OPEN" /\ hostIn'[j].chan = d => j = i
                       /\ d \notin routed' =>
                            \E j \in DOMAIN hostIn' :
                              j > i /\ hostIn'[j].chan = d /\ hostIn'[j].type \in Closing
    BY DEF OpenIsFirst
  <2>. DEFINE d == hostIn[i + 1].chan
  <2>1. i + 1 \in DOMAIN hostIn /\ hostIn'[i] = hostIn[i + 1] /\ i \in Nat /\ i >= 1
    BY <1>1, <1>2
  <2>2. /\ d <= nextChan /\ pump["host"][d] = "none"
        /\ \A j \in DOMAIN hostIn : hostIn[j].type = "OPEN" /\ hostIn[j].chan = d => j = i + 1
        /\ d \notin routed =>
             \E j \in DOMAIN hostIn : j > i + 1 /\ hostIn[j].chan = d /\ hostIn[j].type \in Closing
    BY <2>1 DEF Rest, OpenIsFirst
  <2>3. d \in Chans
    BY <1>1, <2>1, WireFacts
  <2>4. ~(f.type = "OPEN" /\ d = c)
    BY <1>1, <2>1, <2>2
  <2>5. pump'["host"][d] = "none"
    BY <1>6, <2>2, <2>3, <2>4
  <2>6. \A j \in DOMAIN hostIn' : hostIn'[j].type = "OPEN" /\ hostIn'[j].chan = d => j = i
    BY <1>1, <1>2, <2>1, <2>2
  <2>7. ASSUME d \notin routed'
        PROVE  \E j \in DOMAIN hostIn' : j > i /\ hostIn'[j].chan = d /\ hostIn'[j].type \in Closing
    <3>1. PICK j \in DOMAIN hostIn : j > i + 1 /\ hostIn[j].chan = d /\ hostIn[j].type \in Closing
      BY <1>2, <2>2, <2>7
    <3>2. j - 1 \in DOMAIN hostIn' /\ hostIn'[j - 1] = hostIn[j] /\ j - 1 > i
      BY <1>1, <1>2, <2>1, <3>1
    <3>. QED BY <3>1, <3>2
  <2>. QED BY <1>2, <2>1, <2>2, <2>5, <2>6, <2>7
<1>10. HostLetGo'
  <2>1. \A i \in DOMAIN hostOut : hostOut[i].chan \in Chans
    BY WireFacts DEF Domains
  <2>. QED BY <1>2, <1>5, <1>6, <1>7, <2>1 DEF Rest, HostLetGo
<1>11. GuestLetGo'
  BY <1>2, <1>5 DEF Rest, GuestLetGo
<1>12. EndReachesBoth'
  <2>. SUFFICES ASSUME share' = "up", NEW d \in Chans \ routed'
                PROVE  /\ d \in listed'["host"] \/ pump'["host"][d] = "opening" =>
                            d \in late' \/ Ends(hostIn', d)
                       /\ d \in listed'["guest"] => d \in dropped' \/ Ends(queue'[d], d)
    BY DEF EndReachesBoth, Ends
  <2>1. /\ d \in listed["host"] \/ pump["host"][d] = "opening" => d \in late \/ Ends(hostIn, d)
        /\ d \in listed["guest"] => d \in dropped \/ Ends(queue[d], d)
    BY <1>2 DEF Rest, EndReachesBoth
  <2>2. CASE d = c /\ f.type = "OPEN"
    <3>1. PICK j \in DOMAIN hostIn : j > 1 /\ hostIn[j].chan = c /\ hostIn[j].type \in Closing
      BY <1>2, <1>7, <2>2
    <3>2. j - 1 \in DOMAIN hostIn' /\ hostIn'[j - 1] = hostIn[j]
      BY <1>1, <1>2, <3>1
    <3>3. Ends(hostIn', d)
      BY <2>2, <3>1, <3>2 DEF Ends
    <3>. QED BY <1>2, <1>5, <2>1, <3>3
  <2>3. CASE d = c /\ f.type \in Closing
    BY <1>2, <1>4, <1>5, <1>6, <2>1, <2>3 DEF Closing
  <2>4. CASE ~(d = c /\ f.type \in Closing) /\ ~(d = c /\ f.type = "OPEN")
    <3>1. Ends(hostIn, d) => Ends(hostIn', d)
      BY <1>1, <1>2, <2>4, EndsTail DEF f
    <3>. QED BY <1>2, <1>4, <1>5, <1>6, <2>1, <2>4, <3>1
  <2>. QED BY <2>2, <2>3, <2>4
<1>. QED BY <1>8, <1>9, <1>10, <1>11, <1>12 DEF Rest

-----------------------------------------------------------------------------
(* The theorems. *)

\* No handler, goroutine, loss or end of the session breaks the invariant: the order in which
\* openChannel, closeChannel, closeWithReason, handle and the relay's routing let go of a
\* channel, unroute it and announce it, in any interleaving (forward_guest.go:184-303,
\* forward_host.go:118-290).
THEOREM Invariance == Spec => []IInv
<1>1. Init => IInv
  <2>. SUFFICES ASSUME Init PROVE IInv
    OBVIOUS
  <2>1. Domains
    <3>1. \A x : PerEnd(x) \in [End -> [Chans -> {x}]]
      BY DEF PerEnd
    <3>2. pump \in [End -> [Chans -> {"none", "opening", "reading", "waiting", "sending", "ended"}]]
      BY <3>1 DEF Init
    <3>3. hold \in [End -> [Chans -> Nat]]
      BY <3>1 DEF Init
    <3>. QED BY <3>2, <3>3, EndsAssumption DEF Init, Domains
  <2>2. \A c \in Chans : pump["host"][c] = "none"
    BY DEF Init, PerEnd, End
  <2>3. /\ listed["host"] = {} /\ listed["guest"] = {} /\ routed = {} /\ guest = "up"
        /\ hostIn = <<>> /\ hostOut = <<>> /\ DOMAIN <<>> = {}
    BY DEF Init, End
  <2>. QED BY <2>1, <2>2, <2>3 DEF IInv, NumbersUsed, OpenIsFirst, HostLetGo, GuestLetGo, EndReachesBoth
<1>2. IInv /\ [Next]_vars => IInv'
  <2>. SUFFICES ASSUME Domains, Rest, [Next]_vars PROVE Domains' /\ Rest'
    BY DEF IInv, Rest
  <2>1. Domains'
    BY DomainsKept
  <2>2. NumbersUsed /\ HostLetGo /\ GuestLetGo
    BY DEF Rest
  <2>3. ASSUME GuestAccepts PROVE Rest'
    BY <2>3, GuestAcceptsKeeps
  <2>4. ASSUME HostTakes PROVE Rest'
    BY <2>4, HostTakesKeeps
  <2>5. ASSUME RelayRoutes PROVE Rest'
    BY <2>2, <2>5, RelayRoutesIsCalm, CalmKeeps
  <2>6. ASSUME GuestCloses \/ GuestLeaves \/ ShareEnds PROVE Rest'
    BY <2>2, <2>6, EndingsAreCalm, CalmKeeps
  <2>7. ASSUME NEW c \in Chans, GuestAnswered(c) PROVE Rest'
    BY <2>2, <2>7, SendersAreCalm, CalmKeeps DEF End
  <2>8. ASSUME NEW c \in Chans, HostDialled(c) PROVE Rest'
    BY <2>8, HostDialledKeeps
  <2>9. ASSUME NEW c \in Chans, GuestTakes(c) PROVE Rest'
    BY <2>9, GuestTakesIsCalm, CalmKeeps
  <2>10. ASSUME NEW e \in End, Loop(e) PROVE Rest'
    <3>1. PICK c \in Chans : TRUE
      BY <2>10 DEF Loop, LoopWrites, LoopFails, Domains
    <3>. QED BY <2>2, <2>10, <3>1, SendersAreCalm, CalmKeeps
  <2>11. ASSUME NEW e \in End, NEW c \in Chans, Pump(e, c) \/ Runs(e, c) PROVE Rest'
    BY <2>2, <2>11, SendersAreCalm, CalmKeeps
  <2>12. ASSUME UNCHANGED vars PROVE Rest'
    BY <2>12, StutteringIsCalm, CalmKeeps
  <2>13. Rest'
    BY <2>3, <2>4, <2>5, <2>6, <2>7, <2>8, <2>9, <2>10, <2>11, <2>12 DEF Next
  <2>. QED BY <2>1, <2>13
<1>. QED BY <1>1, <1>2, PTL DEF Spec

\* Nobody keeps a socket for a stream that has ended without the news on its way to them -
\* for any number of channels, any window, and any depth of the queues: but for a host that
\* was dialling, which ignores it (forward_host.go:217), and a guest whose queue was full
\* (session/forward.go:379).
THEOREM EndReachesBothHolds == Spec => []EndReachesBoth
<1>1. IInv => EndReachesBoth
  BY DEF IInv
<1>. QED BY <1>1, Invariance, PTL

-----------------------------------------------------------------------------
(* What a step may do to the frames on their way. *)

\* The two ends.
LEMMA PeerFacts ==
  /\ Peer("guest") = "host" /\ Peer("host") = "guest"
  /\ \A e \in End : Peer(e) \in End /\ Peer(e) # e /\ Peer(Peer(e)) = e /\ e \in {"guest", "host"}
<1>1. Peer("guest") = "host"
  BY DEF Peer, End
<1>2. Peer("host") = "guest"
  BY DEF Peer, End
<1>. QED BY <1>1, <1>2 DEF End

\* The frames the ends make are frames.
LEMMA FramesFacts ==
  /\ Frames \subseteq Wire
  /\ \A c \in Chans, t \in {"OPEN", "CLOSE", "ERROR"} : Control(c, t) \in Frames
  /\ \A c \in Chans, t \in {"DATA", "WINDOW"}, n \in Chunks : Sized(c, t, n) \in Frames
  /\ \A f \in Frames : f.type \in {"DATA", "WINDOW"} => f.n \in Chunks
  /\ Idle \notin Frames
<1>1. Chunks \subseteq Nat
  BY EndsAssumption
<1>. QED BY <1>1 DEF Frames, Wire, Control, Sized, Idle

LEMMA SizedFacts ==
  ASSUME NEW c \in Chans, NEW t \in {"DATA", "WINDOW"}, NEW n \in Chunks
  PROVE  Sized(c, t, n) \in Frames /\ Sized(c, t, n).type = t /\ Sized(c, t, n).chan = c
         /\ Sized(c, t, n).n = n /\ n \in Nat
<1>1. n \in Nat
  BY EndsAssumption
<1>. QED BY <1>1, FramesFacts DEF Sized

\* What the guest, or the relay, may send to the host.
MayEnterIn(f) ==
  \/ f.type = "OPEN" /\ f.chan = nextChan + 1 /\ nextChan' = nextChan + 1
  \/ f.type = "CLOSE" /\ f.chan \in routed \ routed'
  \/ f.type = "DATA" /\ f.chan \in routed /\ pump["guest"][f.chan] = "sending"
  \/ f.type = "WINDOW" /\ f.chan \in routed /\ loop["guest"] # Idle /\ f.chan = loop["guest"].chan

InStep ==
  \/ hostIn' = hostIn
  \/ hostIn # <<>> /\ hostIn' = Tail(hostIn)
  \/ \E f \in Frames : hostIn' = Append(hostIn, f) /\ MayEnterIn(f)
  \/ \E s \in Seq(Frames) :
       /\ hostIn' = hostIn \o s /\ routed' = {}
       /\ \A i \in DOMAIN s : s[i].type = "CLOSE" /\ s[i].chan \in routed

\* What the host may send.
MayEnterOut(f) ==
  \/ f.type \in {"OPEN", "ERROR"} /\ pump["host"][f.chan] = "opening"
       /\ pump'["host"][f.chan] \in {"reading", "ended"}
  \/ f.type = "CLOSE" /\ f.chan \in listed["host"]
  \/ f.type = "DATA" /\ pump["host"][f.chan] = "sending"
  \/ f.type = "WINDOW" /\ loop["host"] # Idle /\ f.chan = loop["host"].chan

OutStep ==
  \/ hostOut' = hostOut
  \/ hostOut # <<>> /\ hostOut' = Tail(hostOut)
  \/ /\ share = "up" /\ share' = "up" /\ Len(hostOut) # SenderDepth
     /\ \E f \in Frames : hostOut' = Append(hostOut, f) /\ MayEnterOut(f)

\* What the relay may queue, and the guest take.
QueueStep ==
  \/ queue' = queue
  \/ \E c \in Chans : queue[c] # <<>> /\ queue' = [queue EXCEPT ![c] = Tail(@)]
  \/ \E c \in Chans, f \in Frames :
       /\ queue' = [queue EXCEPT ![c] = Append(@, f)] /\ f.chan = c /\ c \in routed
       /\ hostOut # <<>> /\ Head(hostOut).chan = c /\ hostOut' = Tail(hostOut)
       /\ f.type \in Closing => c \notin routed'
       /\ c \in routed' => Fits(c)

\* What the steps of the ends put on the wires is what may enter them.
LEMMA SendsGuest ==
  ASSUME TypeOK, NEW f \in Frames, GuestSends(f),
         f.chan \in routed => MayEnterIn(f)
  PROVE  InStep
BY DEF GuestSends, InStep

LEMMA SendsHost ==
  ASSUME TypeOK, NEW f \in Frames, HostSends(f), MayEnterOut(f)
  PROVE  OutStep
BY DEF HostSends, OutStep, SenderFull

LEMMA ClosesSteps ==
  ASSUME TypeOK, NEW e \in End, NEW c \in Chans, CloseTelling(e, c)
  PROVE  InStep /\ OutStep
<1>1. CASE c \in listed[e]
  <2>. DEFINE f == Control(c, "CLOSE")
  <2>1. f \in Frames /\ f.type = "CLOSE" /\ f.chan = c
    BY FramesFacts, FrameFacts
  <2>2. Sends(e, f)
    BY <1>1 DEF CloseTelling
  <2>. HIDE DEF f
  <2>3. CASE e = "guest"
    <3>1. GuestSends(f) /\ hostOut' = hostOut
      BY <2>2, <2>3 DEF Sends, GuestSends
    <3>2. f.chan \in routed => MayEnterIn(f)
      BY <2>1, <3>1 DEF GuestSends, MayEnterIn
    <3>. QED BY <2>1, <3>1, <3>2, SendsGuest DEF OutStep
  <2>4. CASE e = "host"
    <3>1. HostSends(f) /\ hostIn' = hostIn
      BY <2>2, <2>4 DEF Sends, HostSends
    <3>2. MayEnterOut(f)
      BY <1>1, <2>1, <2>4 DEF MayEnterOut
    <3>. QED BY <2>1, <3>1, <3>2, SendsHost DEF InStep
  <2>. QED BY <2>3, <2>4 DEF End
<1>2. CASE c \notin listed[e]
  BY <1>2 DEF CloseTelling, SendsNothing, InStep, OutStep
<1>. QED BY <1>1, <1>2

LEMMA ForgettingSteps ==
  ASSUME Domains, TypeOK, ForgetGuest
  PROVE  InStep
<1>. DEFINE S == { Control(c, "CLOSE") : c \in routed }
           s == SetToSeq(S)
<1>1. S \in SUBSET Frames /\ \A f \in S : f.type = "CLOSE" /\ f.chan \in routed
  BY FramesFacts, FrameFacts DEF Domains
<1>2. IsFiniteSet(S)
  <2>1. IsFiniteSet(Chans)
    BY FS_Interval, EndsAssumption DEF Chans
  <2>2. IsFiniteSet(routed)
    BY <2>1, FS_Subset DEF Domains
  <2>. DEFINE g == [c \in routed |-> Control(c, "CLOSE")]
  <2>3. g \in Surjection(routed, S)
    BY DEF Surjection
  <2>. QED BY <2>2, <2>3, FS_Surjection
<1>3. s \in Seq(S)
  BY <1>1, <1>2, FramesFacts, SetToSeqElements
<1>4. s \in Seq(Frames) /\ \A i \in DOMAIN s : s[i] \in S
  <2>. HIDE DEF S, s
  <2>. QED BY <1>1, <1>3
<1>5. hostIn' = hostIn \o s /\ routed' = {}
  BY DEF ForgetGuest
<1>6. \A i \in DOMAIN s : s[i].type = "CLOSE" /\ s[i].chan \in routed
  <2>. HIDE DEF S, s
  <2>. QED BY <1>1, <1>4
<1>. HIDE DEF s
<1>. QED BY <1>4, <1>5, <1>6 DEF InStep

\* Every step does to the wires what these allow, and nothing else.
LEMMA WireSteps ==
  ASSUME IInv, TypeOK, Depths, [Next]_vars
  PROVE  InStep /\ OutStep /\ QueueStep
<1>1. ASSUME GuestAccepts PROVE InStep /\ OutStep /\ QueueStep
  <2>. DEFINE c == nextChan + 1
              f == Control(c, "OPEN")
  <2>1. c \in Chans
    BY <1>1, EndsAssumption DEF GuestAccepts, TypeOK, Chans
  <2>2. f \in Frames /\ f.type = "OPEN" /\ f.chan = c
    BY <2>1, FramesFacts, FrameFacts
  <2>3. hostIn' = Append(hostIn, f) /\ nextChan' = c /\ hostOut' = hostOut /\ queue' = queue
    BY <1>1 DEF GuestAccepts
  <2>. HIDE DEF f
  <2>. QED BY <2>2, <2>3 DEF InStep, OutStep, QueueStep, MayEnterIn
<1>2. ASSUME NEW c \in Chans, GuestAnswered(c) PROVE InStep /\ OutStep /\ QueueStep
  <2>1. (SendsNothing \/ CloseTelling("guest", c)) /\ queue' = queue
    BY <1>2 DEF GuestAnswered
  <2>. QED BY <2>1, ClosesSteps DEF SendsNothing, InStep, OutStep, QueueStep, End
<1>3. ASSUME NEW c \in Chans, HostDialled(c) PROVE InStep /\ OutStep /\ QueueStep
  <2>1. PICK t \in {"OPEN", "ERROR"}, p \in {"reading", "ended"} :
          HostSends(Control(c, t)) /\ pump' = [pump EXCEPT !["host"][c] = p]
    BY <1>3 DEF HostDialled
  <2>. DEFINE f == Control(c, t)
  <2>2. f \in Frames /\ f.type = t /\ f.chan = c
    BY FramesFacts, FrameFacts
  <2>3. HostSends(f) /\ hostIn' = hostIn /\ queue' = queue /\ pump["host"][c] = "opening"
    BY <1>3, <2>1 DEF HostDialled, HostSends
  <2>4. pump'["host"][c] \in {"reading", "ended"}
    BY <2>1 DEF TypeOK, End
  <2>. HIDE DEF f
  <2>5. MayEnterOut(f)
    BY <2>2, <2>3, <2>4 DEF MayEnterOut
  <2>. QED BY <2>2, <2>3, <2>5, SendsHost DEF InStep, QueueStep
<1>4. ASSUME NEW e \in End, NEW c \in Chans, Pump(e, c) PROVE InStep /\ OutStep /\ QueueStep
  <2>1. CASE PumpReads(e, c)
    BY <2>1 DEF PumpReads, wireVars, InStep, OutStep, QueueStep
  <2>2. CASE PumpMeetsEOF(e, c)
    BY <2>2, ClosesSteps DEF PumpMeetsEOF, QueueStep
  <2>. QED BY <1>4, <2>1, <2>2 DEF Pump
<1>5. ASSUME NEW e \in End, NEW c \in Chans, Runs(e, c) PROVE InStep /\ OutStep /\ QueueStep
  <2>1. CASE PumpReserves(e, c) \/ PumpEnds(e, c)
    BY <2>1 DEF PumpReserves, PumpEnds, wireVars, InStep, OutStep, QueueStep
  <2>2. CASE PumpSends(e, c)
    <3>. DEFINE f == Sized(c, "DATA", hold[e][c])
    <3>1. pump[e][c] = "sending" /\ hold[e][c] \in Chunks /\ Chunks \subseteq Nat
      BY <2>2, EndsAssumption DEF PumpSends, Depths
    <3>0. \A n \in Chunks : LET g == Sized(c, "DATA", n) IN g \in Frames /\ g.type = "DATA" /\ g.chan = c
      BY SizedFacts
    <3>2. f \in Frames /\ f.type = "DATA" /\ f.chan = c
      BY <3>0, <3>1
    <3>3. Sends(e, f) /\ queue' = queue
      BY <2>2 DEF PumpSends
    <3>. HIDE DEF f
    <3>4. CASE e = "guest"
      <4>1. GuestSends(f) /\ hostOut' = hostOut
        BY <3>3, <3>4 DEF Sends, GuestSends
      <4>2. f.chan \in routed => MayEnterIn(f)
        BY <3>1, <3>2, <3>4 DEF MayEnterIn
      <4>. QED BY <3>2, <3>3, <4>1, <4>2, SendsGuest DEF OutStep, QueueStep
    <3>5. CASE e = "host"
      <4>1. HostSends(f) /\ hostIn' = hostIn
        BY <3>3, <3>5 DEF Sends, HostSends
      <4>2. MayEnterOut(f)
        BY <3>1, <3>2, <3>5 DEF MayEnterOut
      <4>. QED BY <3>2, <3>3, <4>1, <4>2, SendsHost DEF InStep, QueueStep
    <3>. QED BY <3>4, <3>5 DEF End
  <2>. QED BY <1>5, <2>1, <2>2 DEF Runs
<1>6. ASSUME HostTakes PROVE InStep /\ OutStep /\ QueueStep
  BY <1>6 DEF HostTakes, InStep, OutStep, QueueStep
<1>7. ASSUME NEW c \in Chans, GuestTakes(c) PROVE InStep /\ OutStep /\ QueueStep
  BY <1>7 DEF GuestTakes, InStep, OutStep, QueueStep
<1>8. ASSUME NEW e \in End, Loop(e) PROVE InStep /\ OutStep /\ QueueStep
  <2>. DEFINE c == loop[e].chan
  <2>1. loop[e] # Idle /\ loop[e] \in Frames /\ loop[e].type = "DATA" /\ c \in Chans /\ queue' = queue
    <3>1. loop[e] # Idle /\ queue' = queue
      BY <1>8 DEF Loop, LoopWrites, LoopFails
    <3>2. loop[e] \in Frames
      BY <3>1 DEF TypeOK
    <3>3. loop[e].type = "DATA" /\ c \in Chans
      BY <3>1 DEF IInv, Domains
    <3>. QED BY <3>1, <3>2, <3>3
  <2>2. CASE LoopWrites(e)
    <3>. DEFINE f == Sized(c, "WINDOW", loop[e].n)
    <3>1. loop[e].n \in Chunks /\ Chunks \subseteq Nat
      BY <2>1, FramesFacts, EndsAssumption
    <3>0. \A n \in Chunks : LET g == Sized(c, "WINDOW", n) IN g \in Frames /\ g.type = "WINDOW" /\ g.chan = c
      BY <2>1, SizedFacts
    <3>2. f \in Frames /\ f.type = "WINDOW" /\ f.chan = c
      BY <3>0, <3>1
    <3>3. Sends(e, f)
      BY <2>2 DEF LoopWrites, Credits
    <3>. HIDE DEF f
    <3>4. CASE e = "guest"
      <4>1. GuestSends(f) /\ hostOut' = hostOut
        BY <3>3, <3>4 DEF Sends, GuestSends
      <4>2. f.chan \in routed => MayEnterIn(f)
        BY <2>1, <3>2, <3>4 DEF MayEnterIn
      <4>. QED BY <2>1, <3>2, <4>1, <4>2, SendsGuest DEF OutStep, QueueStep
    <3>5. CASE e = "host"
      <4>1. HostSends(f) /\ hostIn' = hostIn
        BY <3>3, <3>5 DEF Sends, HostSends
      <4>2. MayEnterOut(f)
        BY <2>1, <3>2, <3>5 DEF MayEnterOut
      <4>. QED BY <2>1, <3>2, <4>1, <4>2, SendsHost DEF InStep, QueueStep
    <3>. QED BY <3>4, <3>5 DEF End
  <2>3. CASE LoopFails(e)
    BY <2>1, <2>3, ClosesSteps DEF LoopFails, QueueStep
  <2>. QED BY <1>8, <2>2, <2>3 DEF Loop
<1>9. ASSUME RelayRoutes PROVE InStep /\ OutStep /\ QueueStep
  <2>. DEFINE f == Head(hostOut)
              c == f.chan
              closing == f.type \in Closing
              overrun == c \in routed /\ ~Fits(c) /\ ~closing
              shut == Control(c, "CLOSE")
              g == IF overrun THEN shut ELSE f
  <2>1. /\ hostOut # <<>> /\ hostOut' = Tail(hostOut)
        /\ queue' = IF c \notin routed \/ (closing /\ ~Fits(c)) THEN queue
                    ELSE [queue EXCEPT ![c] = Append(@, g)]
        /\ routed' = IF closing \/ overrun THEN routed \ {c} ELSE routed
        /\ hostIn' = IF overrun THEN Append(hostIn, shut) ELSE hostIn
    BY <1>9 DEF RelayRoutes
  <2>2. f \in Frames
    <3>1. hostOut \in Seq(Frames)
      BY DEF TypeOK
    <3>. QED BY <2>1, <3>1
  <2>3. c \in Chans
    BY <2>2, WireFacts, FramesFacts
  <2>4. shut \in Frames /\ shut.chan = c /\ shut.type = "CLOSE"
    BY <2>3, FramesFacts, FrameFacts
  <2>. HIDE DEF shut
  <2>5. g \in Frames /\ g.chan = c
    BY <2>2, <2>4
  <2>6. InStep
    <3>1. overrun => MayEnterIn(shut)
      BY <2>1, <2>4 DEF MayEnterIn
    <3>. QED BY <2>1, <2>4, <3>1 DEF InStep
  <2>7. g.type \in Closing => closing \/ overrun
    OBVIOUS
  <2>8. Head(hostOut).chan = c
    OBVIOUS
  <2>. HIDE DEF f
  <2>9. OutStep
    BY <2>1 DEF OutStep
  <2>10. QueueStep
    <3>1. CASE c \notin routed \/ (closing /\ ~Fits(c))
      BY <2>1, <3>1 DEF QueueStep
    <3>2. CASE ~(c \notin routed \/ (closing /\ ~Fits(c)))
      <4>1. queue' = [queue EXCEPT ![c] = Append(@, g)] /\ c \in routed
        BY <2>1, <3>2
      <4>2. g.type \in Closing => c \notin routed'
        BY <2>1, <2>7
      <4>3. c \in routed' => Fits(c)
        BY <2>1, <3>2
      <4>. HIDE DEF g, c
      <4>. QED BY <2>1, <2>3, <2>5, <2>8, <4>1, <4>2, <4>3 DEF QueueStep
    <3>. QED BY <3>1, <3>2
  <2>. QED BY <2>6, <2>9, <2>10
<1>10. ASSUME GuestCloses PROVE InStep /\ OutStep /\ QueueStep
  <2>1. (hostIn' = hostIn \/ ForgetGuest) /\ hostOut' = hostOut /\ queue' = queue
    BY <1>10 DEF GuestCloses
  <2>. QED BY <2>1, ForgettingSteps DEF InStep, OutStep, QueueStep, IInv
<1>11. ASSUME GuestLeaves PROVE InStep /\ OutStep /\ QueueStep
  <2>1. ForgetGuest /\ hostOut' = hostOut /\ queue' = queue
    BY <1>11 DEF GuestLeaves
  <2>. QED BY <2>1, ForgettingSteps DEF OutStep, QueueStep, IInv
<1>12. ASSUME ShareEnds \/ UNCHANGED vars PROVE InStep /\ OutStep /\ QueueStep
  BY <1>12 DEF ShareEnds, wireVars, vars, InStep, OutStep, QueueStep
<1>. QED BY <1>1, <1>2, <1>3, <1>4, <1>5, <1>6, <1>7, <1>8, <1>9, <1>10, <1>11, <1>12 DEF Next

-----------------------------------------------------------------------------
(* What a step may do to an end. *)

\* Each variable, after a frame was handled.
LEMMA HandleDoes ==
  ASSUME NEW e \in End, NEW f \in Wire, Handle(e, f)
  PROVE  /\ pump' = IF f.type = "OPEN" /\ e = "host" THEN [pump EXCEPT ![e][f.chan] = "opening"]
                    ELSE pump
         /\ listed' = IF f.type \in Closing THEN [listed EXCEPT ![e] = @ \ {f.chan}] ELSE listed
         /\ loop' = IF f.type = "DATA" /\ f.chan \in listed[e] THEN [loop EXCEPT ![e] = f] ELSE loop
         /\ avail' = IF f.type = "WINDOW" /\ f.chan \in listed[e]
                     THEN [avail EXCEPT ![e][f.chan] = @ + f.n] ELSE avail
         /\ told' = IF f.type \in Closing /\ f.chan \in listed[e]
                    THEN [told EXCEPT ![e] = @ \cup {f.chan}] ELSE told
         /\ \/ answer' = answer
            \/ e = "guest" /\ \E a \in {"ok", "refused"} :
                 answer' = [answer EXCEPT ![f.chan] = IF @ = "none" THEN a ELSE @]
         /\ late' = late \/ late' = late \cup {f.chan}
<1>1. f.type \in {"OPEN", "CLOSE", "ERROR", "DATA", "WINDOW"}
  BY WireFacts
<1>. QED BY <1>1 DEF Handle, Unlist, Grants, Answers, Closing, End

\* After a frame was sent, or a channel closed, or dialled.
LEMMA SendsDoes ==
  ASSUME NEW e \in End, NEW f, Sends(e, f)
  PROVE  /\ routed' = IF e = "guest" /\ f.type = "CLOSE" THEN routed \ {f.chan} ELSE routed
         /\ share' = "up" => share = "up"
         /\ share' \in {share, "failed"}
BY DEF Sends, GuestSends, HostSends, End

LEMMA CloseDoes ==
  ASSUME TypeOK, NEW e \in End, NEW c \in Chans, CloseTelling(e, c)
  PROVE  /\ listed' = [listed EXCEPT ![e] = @ \ {c}]
         /\ \/ answer' = answer
            \/ e = "guest" /\ c \in listed["guest"]
                 /\ answer' = [answer EXCEPT ![c] = IF @ = "none" THEN "ok" ELSE @]
         /\ routed' = IF e = "guest" /\ c \in listed[e] THEN routed \ {c} ELSE routed
         /\ share' = "up" => share = "up"
         /\ share' \in {share, "failed"}
<1>1. CASE c \in listed[e]
  <2>. DEFINE f == Control(c, "CLOSE")
  <2>1. f.type = "CLOSE" /\ f.chan = c
    BY FrameFacts
  <2>2. Sends(e, f) /\ listed' = [listed EXCEPT ![e] = @ \ {c}]
        /\ (answer' = answer \/ (e = "guest"
              /\ answer' = [answer EXCEPT ![c] = IF @ = "none" THEN "ok" ELSE @]))
    BY <1>1 DEF CloseTelling, Unlist, Answers
  <2>. HIDE DEF f
  <2>. QED BY <1>1, <2>1, <2>2, SendsDoes
<1>2. CASE c \notin listed[e]
  <2>1. listed \in [End -> SUBSET Chans]
    BY DEF TypeOK
  <2>2. listed' = listed /\ answer' = answer /\ routed' = routed /\ share' = share
    BY <1>2 DEF CloseTelling, SendsNothing
  <2>3. listed = [listed EXCEPT ![e] = @ \ {c}]
    BY <1>2, <2>1
  <2>. QED BY <1>2, <2>2, <2>3
<1>. QED BY <1>1, <1>2

LEMMA DialDoes ==
  ASSUME TypeOK, NEW c \in Chans, HostDialled(c)
  PROVE  /\ routed' = routed /\ (share' = "up" => share = "up")
         /\ share' \in {share, "failed"}
         /\ pump["host"][c] = "opening" /\ share # "over"
         /\ UNCHANGED <<hold, answer, nextChan, loop, queue, guest, logVars>>
         /\ hostIn' = hostIn
         /\ \/ /\ listed' = [listed EXCEPT !["host"] = @ \cup {c}]
               /\ avail' = [avail EXCEPT !["host"][c] = InitialWindow]
               /\ pump' = [pump EXCEPT !["host"][c] = "reading"]
            \/ /\ pump' = [pump EXCEPT !["host"][c] = "ended"]
               /\ UNCHANGED <<listed, avail>>
BY DEF HostDialled, HostSends, TypeOK

\* What every step keeps, and who does the rest.
Steady(c) ==
  /\ share' = "up" => share = "up"
  /\ retired \subseteq retired' /\ (nextChan' = nextChan \/ nextChan' = nextChan + 1)
  /\ c \in listed'["guest"] => c \in listed["guest"] \/ (GuestAccepts /\ c = nextChan + 1)
  /\ c \in routed' => c \in routed \/ (GuestAccepts /\ c = nextChan + 1)
  /\ c \in listed'["host"] => c \in listed["host"] \/ (HostDialled(c) /\ pump["host"][c] = "opening")
  /\ \/ pump'["host"][c] = pump["host"][c]
     \/ pump["host"][c] = "none" /\ pump'["host"][c] = "opening"
     \/ pump["host"][c] # "none" /\ pump'["host"][c] \notin {"none", "opening"}
  /\ c \in routed \ routed' =>
       \/ c \notin listed'["guest"] \/ c \in retired'
       \/ /\ hostOut # <<>> /\ hostOut' = Tail(hostOut) /\ UNCHANGED <<listed, pump, eof>>
          /\ Head(hostOut).chan = c /\ Head(hostOut).type \in Closing
  /\ \A e \in End :
       /\ c \in eof'[e] => c \in eof[e] \/ (PumpMeetsEOF(e, c) /\ c \in listed[e] /\ pump[e][c] = "reading")
       /\ eof[e] \subseteq eof'[e]
       /\ c \in told'[e] => \/ c \in told[e] \/ (e = "host" /\ HostTakes /\ c \in listed[e])
                            \/ (e = "guest" /\ GuestTakes(c) /\ c \in listed[e])

\* Every step does.
LEMMA StepsAreSteady ==
  ASSUME IInv, TypeOK, [Next]_vars, NEW c \in Chans
  PROVE  Steady(c)
<1>. USE DEF Steady
<1>0. /\ listed \in [End -> SUBSET Chans] /\ routed \subseteq Chans
      /\ pump \in [End -> [Chans -> {"none", "opening", "reading", "waiting", "sending", "ended"}]]
      /\ eof \in [End -> SUBSET Chans] /\ told \in [End -> SUBSET Chans] /\ nextChan \in Nat
      /\ End = {"guest", "host"} /\ "guest" # "host"
  BY EndsAssumption DEF TypeOK, End
<1>1. ASSUME GuestAccepts PROVE Steady(c)
  BY <1>0, <1>1 DEF GuestAccepts, logVars
<1>2. ASSUME NEW d \in Chans, GuestAnswered(d) PROVE Steady(c)
  <2>1. CASE answer[d] = "ok"
    BY <1>0, <1>2, <2>1 DEF GuestAnswered, SendsNothing, logVars
  <2>2. CASE answer[d] # "ok"
    <3>1. /\ CloseTelling("guest", d) /\ pump' = [pump EXCEPT !["guest"][d] = "ended"]
          /\ UNCHANGED <<nextChan, logVars>>
      BY <1>2, <2>2 DEF GuestAnswered
    <3>2. /\ listed' = [listed EXCEPT !["guest"] = @ \ {d}]
          /\ routed' = IF d \in listed["guest"] THEN routed \ {d} ELSE routed
          /\ share' = "up" => share = "up"
      BY <1>0, <3>1, CloseDoes
    <3>. QED BY <1>0, <3>1, <3>2 DEF logVars
  <2>. QED BY <2>1, <2>2
<1>3. ASSUME NEW d \in Chans, HostDialled(d) PROVE Steady(c)
  <2>1. /\ routed' = routed /\ (share' = "up" => share = "up") /\ pump["host"][d] = "opening"
        /\ UNCHANGED <<nextChan, read, wrote, eof, told, retired>>
        /\ listed' = listed \/ listed' = [listed EXCEPT !["host"] = @ \cup {d}]
        /\ \E p \in {"reading", "ended"} : pump' = [pump EXCEPT !["host"][d] = p]
    BY <1>3, DialDoes DEF logVars
  <2>2. CASE c = d
    BY <1>0, <1>3, <2>1, <2>2
  <2>3. CASE c # d
    BY <1>0, <2>1, <2>3
  <2>. QED BY <2>2, <2>3
<1>4. ASSUME NEW e \in End, NEW d \in Chans, PumpMeetsEOF(e, d) PROVE Steady(c)
  <2>1. /\ CloseTelling(e, d) /\ pump' = [pump EXCEPT ![e][d] = "ended"]
        /\ eof' = [eof EXCEPT ![e] = @ \cup {d}] /\ pump[e][d] = "reading" /\ d \in listed[e]
        /\ UNCHANGED <<nextChan, told, retired>>
    BY <1>4 DEF PumpMeetsEOF
  <2>2. /\ listed' = [listed EXCEPT ![e] = @ \ {d}]
        /\ routed' = IF e = "guest" /\ d \in listed[e] THEN routed \ {d} ELSE routed
        /\ share' = "up" => share = "up"
    BY <2>1, CloseDoes
  <2>3. CASE c = d
    BY <1>0, <1>4, <2>1, <2>2, <2>3
  <2>4. CASE c # d
    BY <1>0, <2>1, <2>2, <2>4
  <2>. QED BY <2>3, <2>4
<1>5. ASSUME NEW e \in End, NEW d \in Chans,
             PumpReads(e, d) \/ PumpReserves(e, d) \/ PumpEnds(e, d) PROVE Steady(c)
  <2>1. /\ UNCHANGED <<listed, routed, share, nextChan, eof, told, retired>>
        /\ \E p \in {"waiting", "sending", "ended"} : pump' = [pump EXCEPT ![e][d] = p]
        /\ pump[e][d] \in {"reading", "waiting"}
    BY <1>5 DEF PumpReads, PumpReserves, PumpEnds, wireVars, logVars
  <2>. QED BY <1>0, <2>1
<1>6. ASSUME NEW e \in End, NEW d \in Chans, PumpSends(e, d) PROVE Steady(c)
  <2>1. /\ UNCHANGED <<listed, nextChan, eof, told, retired>>
        /\ pump' = [pump EXCEPT ![e][d] = "reading"] /\ pump[e][d] = "sending"
        /\ Sends(e, Sized(d, "DATA", hold[e][d]))
    BY <1>6 DEF PumpSends, logVars
  <2>2. routed' = routed /\ (share' = "up" => share = "up")
    BY <2>1, SendsDoes DEF Sized
  <2>. QED BY <1>0, <2>1, <2>2
<1>7. ASSUME HostTakes PROVE Steady(c)
  <2>. DEFINE f == Head(hostIn)
  <2>1. f \in Wire /\ f = hostIn[1] /\ 1 \in DOMAIN hostIn
    BY <1>7, TailElements DEF HostTakes, IInv, Domains
  <2>2. Handle("host", f) /\ UNCHANGED <<nextChan, routed, share, eof, retired>>
    BY <1>7 DEF HostTakes
  <2>3. f.type = "OPEN" => pump["host"][f.chan] = "none"
    BY <2>1 DEF IInv, OpenIsFirst
  <2>. HIDE DEF f
  <2>4. /\ pump' = IF f.type = "OPEN" THEN [pump EXCEPT !["host"][f.chan] = "opening"] ELSE pump
        /\ listed' = IF f.type \in Closing THEN [listed EXCEPT !["host"] = @ \ {f.chan}] ELSE listed
        /\ told' = IF f.type \in Closing /\ f.chan \in listed["host"]
                    THEN [told EXCEPT !["host"] = @ \cup {f.chan}] ELSE told
    BY <1>0, <2>1, <2>2, HandleDoes
  <2>. QED BY <1>0, <1>7, <2>2, <2>3, <2>4
<1>8. ASSUME NEW d \in Chans, GuestTakes(d) PROVE Steady(c)
  <2>. DEFINE f == Head(queue[d])
  <2>1. f \in Wire /\ f = queue[d][1] /\ 1 \in DOMAIN queue[d] /\ f.chan = d
    <3>1. queue[d] \in Seq(Wire) /\ queue[d] # <<>>
      BY <1>8 DEF GuestTakes, IInv, Domains
    <3>. QED BY <3>1, TailElements DEF IInv, Domains
  <2>2. Handle("guest", f) /\ UNCHANGED <<nextChan, routed, share, eof, retired>>
    BY <1>8 DEF GuestTakes
  <2>. HIDE DEF f
  <2>4. /\ pump' = pump
        /\ listed' = IF f.type \in Closing THEN [listed EXCEPT !["guest"] = @ \ {d}] ELSE listed
        /\ told' = IF f.type \in Closing /\ d \in listed["guest"]
                    THEN [told EXCEPT !["guest"] = @ \cup {d}] ELSE told
    BY <1>0, <2>1, <2>2, HandleDoes
  <2>5. CASE c = d
    BY <1>0, <1>8, <2>2, <2>4, <2>5
  <2>6. CASE c # d
    BY <1>0, <2>2, <2>4, <2>6
  <2>. QED BY <2>5, <2>6
<1>9. ASSUME NEW e \in End, LoopWrites(e) PROVE Steady(c)
  <2>1. /\ UNCHANGED <<listed, pump, nextChan, eof, told, retired>>
        /\ Sends(e, Sized(loop[e].chan, "WINDOW", loop[e].n))
    BY <1>9 DEF LoopWrites, Credits
  <2>2. routed' = routed /\ (share' = "up" => share = "up")
    BY <2>1, SendsDoes DEF Sized
  <2>. QED BY <1>0, <2>1, <2>2
<1>10. ASSUME NEW e \in End, LoopFails(e) PROVE Steady(c)
  <2>. DEFINE d == loop[e].chan
  <2>1. d \in Chans /\ CloseTelling(e, d) /\ UNCHANGED <<pump, nextChan, eof, told, retired>>
    BY <1>10 DEF LoopFails, IInv, Domains, logVars
  <2>. HIDE DEF d
  <2>2. /\ listed' = [listed EXCEPT ![e] = @ \ {d}]
        /\ routed' = IF e = "guest" /\ d \in listed[e] THEN routed \ {d} ELSE routed
        /\ share' = "up" => share = "up"
    BY <2>1, CloseDoes
  <2>. QED BY <1>0, <2>1, <2>2
<1>11. ASSUME RelayRoutes PROVE Steady(c)
  <2>. DEFINE f == Head(hostOut)
              d == f.chan
              closing == f.type \in Closing
              overrun == d \in routed /\ ~Fits(d) /\ ~closing
  <2>1. /\ hostOut # <<>> /\ hostOut' = Tail(hostOut)
        /\ routed' = IF closing \/ overrun THEN routed \ {d} ELSE routed
        /\ retired' = IF overrun THEN retired \cup {d} ELSE retired
        /\ UNCHANGED <<listed, pump, nextChan, share, eof, told>>
    BY <1>11 DEF RelayRoutes, endVars
  <2>2. c \in routed \ routed' => d = c /\ (closing \/ c \in retired')
    BY <2>1
  <2>. HIDE DEF f
  <2>3. c \in routed \ routed' => c \in retired' \/ (f.chan = c /\ f.type \in Closing)
    BY <2>2
  <2>. QED BY <1>0, <2>1, <2>3 DEF f
<1>12. ASSUME GuestCloses \/ GuestLeaves PROVE Steady(c)
  <2>1. /\ routed' \in {routed, {}} /\ UNCHANGED <<pump, nextChan, share, eof, told, retired>>
        /\ listed' = [listed EXCEPT !["guest"] = {}] \/ (listed' = listed /\ guest # "up")
    BY <1>12 DEF GuestCloses, GuestLeaves, ForgetGuest, endVars, logVars
  <2>2. listed'["guest"] = {} /\ listed'["host"] = listed["host"]
    BY <1>0, <2>1 DEF IInv, GuestLetGo
  <2>. QED BY <1>0, <2>1, <2>2
<1>13. ASSUME ShareEnds PROVE Steady(c)
  BY <1>0, <1>13 DEF ShareEnds, wireVars, logVars
<1>14. ASSUME UNCHANGED vars PROVE Steady(c)
  BY <1>0, <1>14 DEF vars, endVars, wireVars, logVars
<1>. QED BY <1>1, <1>2, <1>3, <1>4, <1>5, <1>6, <1>7, <1>8, <1>9, <1>10, <1>11, <1>12, <1>13, <1>14
         DEF Next, Pump, Runs, Loop

-----------------------------------------------------------------------------
(* The order of the frames. *)

\* The wires hold frames of both kinds the argument speaks of.
LEMMA SeqFacts ==
  ASSUME TypeOK
  PROVE  /\ hostIn \in Seq(Frames) /\ hostOut \in Seq(Frames) /\ \A c \in Chans : queue[c] \in Seq(Frames)
         /\ hostIn \in Seq(Wire) /\ hostOut \in Seq(Wire) /\ \A c \in Chans : queue[c] \in Seq(Wire)
         /\ \A s \in Seq(Frames) : s \in Seq(Wire)
<1>1. \A s \in Seq(Frames) : s \in Seq(Wire)
  <2>1. Frames \subseteq Wire
    BY FramesFacts
  <2>. HIDE DEF Frames, Wire
  <2>. QED BY <2>1
<1>2. hostIn \in Seq(Frames) /\ hostOut \in Seq(Frames) /\ queue \in [Chans -> Seq(Frames)]
  BY DEF TypeOK
<1>. QED BY <1>1, <1>2

\* A channel that is not routed and has frames queued is not routed next.
LEMMA StaysUnrouted ==
  ASSUME IInv, TypeOK, Fresh, [Next]_vars, NEW c \in Chans, c \notin routed
  PROVE  /\ c <= nextChan => c \notin routed'
         /\ queue[c] # <<>> => c \notin routed'
<1>1. Steady(c)
  BY StepsAreSteady
<1>2. ASSUME c = nextChan + 1 PROVE queue[c] = <<>> /\ ~(c <= nextChan)
  <2>1. nextChan \in Nat
    BY EndsAssumption DEF TypeOK
  <2>2. pump["host"][c] = "none"
    BY <1>2, <2>1 DEF IInv, NumbersUsed
  <2>. QED BY <1>2, <2>1, <2>2 DEF Fresh
<1>. QED BY <1>1, <1>2 DEF Steady

EndsInLast ==
  \A i \in DOMAIN hostIn :
    /\ hostIn[i].chan <= nextChan
    /\ hostIn[i].type \in Closing =>
         /\ hostIn[i].chan \notin routed
         /\ \A j \in DOMAIN hostIn : j > i /\ hostIn[j].type = "DATA" => hostIn[j].chan # hostIn[i].chan

EndsQueuedLast ==
  \A c \in Chans : \A i \in DOMAIN queue[c] :
    queue[c][i].type \in Closing => c \notin routed /\ i = Len(queue[c])

EndsOutLast ==
  \A i \in DOMAIN hostOut : hostOut[i].type \in Closing /\ hostOut[i].chan \in eof["host"] =>
    \A j \in DOMAIN hostOut : j > i /\ hostOut[j].type = "DATA" => hostOut[j].chan # hostOut[i].chan

\* The three parts of EndsAreLast, which steps keep.
LEMMA EndsInLastKept ==
  ASSUME IInv, TypeOK, Depths, Fresh, EndsInLast, [Next]_vars
  PROVE  EndsInLast'
<1>. SUFFICES ASSUME NEW i \in DOMAIN hostIn'
              PROVE  /\ hostIn'[i].chan <= nextChan'
                     /\ hostIn'[i].type \in Closing =>
                          /\ hostIn'[i].chan \notin routed'
                          /\ \A j \in DOMAIN hostIn' :
                               j > i /\ hostIn'[j].type = "DATA" => hostIn'[j].chan # hostIn'[i].chan
  BY DEF EndsInLast
<1>1. InStep
  BY WireSteps
<1>2. /\ hostIn \in Seq(Wire) /\ \A k \in DOMAIN hostIn : hostIn[k].chan \in Chans
      /\ DOMAIN hostIn = 1..Len(hostIn) /\ Len(hostIn) \in Nat
  BY SeqFacts, WireFacts
<1>3. ASSUME NEW c \in Chans, c \notin routed, c <= nextChan PROVE c \notin routed'
  BY <1>3, StaysUnrouted
<1>4. nextChan \in Nat /\ (nextChan' = nextChan \/ nextChan' = nextChan + 1)
  <2>1. \A c \in Chans : Steady(c)
    BY StepsAreSteady
  <2>2. CASE Chans = {}
    <3>1. MaxChannels = 0
      BY <2>2, EndsAssumption DEF Chans
    <3>2. nextChan \in 0..MaxChannels
      BY DEF TypeOK
    <3>3. Domains'
      BY DomainsKept DEF IInv
    <3>4. nextChan' \in 0..MaxChannels
      BY <3>3 DEF Domains
    <3>. QED BY <3>1, <3>2, <3>4
  <2>3. CASE Chans # {}
    BY <2>1, <2>3, EndsAssumption DEF Steady, TypeOK
  <2>. QED BY <2>2, <2>3
<1>5. \A c \in routed : c \in Chans /\ c <= nextChan
  BY DEF IInv, NumbersUsed, Domains
<1>6. ASSUME NEW k \in DOMAIN hostIn
      PROVE  /\ hostIn[k].chan <= nextChan' /\ hostIn[k].chan \in Chans
             /\ hostIn[k].type \in Closing => hostIn[k].chan \notin routed /\ hostIn[k].chan \notin routed'
  <2>1. hostIn[k].chan \in Chans /\ hostIn[k].chan <= nextChan
    BY <1>2 DEF EndsInLast
  <2>2. hostIn[k].type \in Closing => hostIn[k].chan \notin routed
    BY DEF EndsInLast
  <2>3. hostIn[k].chan <= nextChan'
    BY <1>4, <2>1 DEF Chans
  <2>. QED BY <1>3, <2>1, <2>2, <2>3
<1>7. CASE hostIn' = hostIn
  BY <1>6, <1>7 DEF EndsInLast
<1>8. CASE hostIn # <<>> /\ hostIn' = Tail(hostIn)
  <2>1. /\ DOMAIN hostIn' = 1..(Len(hostIn) - 1)
        /\ \A k \in DOMAIN hostIn' : hostIn'[k] = hostIn[k + 1] /\ k + 1 \in DOMAIN hostIn
    BY <1>2, <1>8, TailElements
  <2>2. \A j \in DOMAIN hostIn' : j > i => j + 1 > i + 1
    BY <2>1
  <2>. QED BY <1>6, <2>1, <2>2 DEF EndsInLast
<1>9. ASSUME NEW f \in Frames, hostIn' = Append(hostIn, f), MayEnterIn(f)
      PROVE  /\ hostIn'[i].chan <= nextChan'
             /\ hostIn'[i].type \in Closing =>
                  /\ hostIn'[i].chan \notin routed'
                  /\ \A j \in DOMAIN hostIn' :
                       j > i /\ hostIn'[j].type = "DATA" => hostIn'[j].chan # hostIn'[i].chan
  <2>1. /\ DOMAIN hostIn' = 1..(Len(hostIn) + 1) /\ hostIn'[Len(hostIn) + 1] = f
        /\ \A k \in DOMAIN hostIn : hostIn'[k] = hostIn[k]
    BY <1>2, <1>9, FramesFacts, AppendIsConcat
  <2>2. f.type = "DATA" => f.chan \in routed
    BY <1>9 DEF MayEnterIn
  <2>3. CASE i \in DOMAIN hostIn
    <3>1. hostIn'[i] = hostIn[i]
      BY <2>1, <2>3
    <3>2. ASSUME hostIn[i].type \in Closing, NEW j \in DOMAIN hostIn', j > i, hostIn'[j].type = "DATA"
          PROVE  hostIn'[j].chan # hostIn[i].chan
      <4>1. CASE j \in DOMAIN hostIn
        BY <2>1, <2>3, <3>2, <4>1 DEF EndsInLast
      <4>2. CASE j \notin DOMAIN hostIn
        <5>1. hostIn'[j] = f
          BY <1>2, <2>1, <4>2
        <5>. QED BY <1>6, <2>2, <2>3, <3>2, <5>1
      <4>. QED BY <4>1, <4>2
    <3>. QED BY <1>6, <2>3, <3>1, <3>2
  <2>4. CASE i \notin DOMAIN hostIn
    <3>1. i = Len(hostIn) + 1 /\ hostIn'[i] = f
      BY <1>2, <2>1, <2>4
    <3>2. \A j \in DOMAIN hostIn' : ~(j > i)
      BY <1>2, <2>1, <3>1
    <3>3. f.type \in Closing => f.chan \in routed \ routed'
      BY <1>9 DEF MayEnterIn, Closing
    <3>4. f.chan <= nextChan'
      <4>1. CASE f.chan \in routed
        <5>1. f.chan \in Nat /\ f.chan <= nextChan
          BY <1>5, <4>1 DEF Chans
        <5>. QED BY <1>4, <5>1
      <4>2. CASE f.chan \notin routed
        BY <1>4, <1>9, <4>2 DEF MayEnterIn
      <4>. QED BY <4>1, <4>2
    <3>. QED BY <3>1, <3>2, <3>3, <3>4
  <2>. QED BY <2>3, <2>4
<1>10. ASSUME NEW s \in Seq(Frames), hostIn' = hostIn \o s, routed' = {},
              \A k \in DOMAIN s : s[k].type = "CLOSE" /\ s[k].chan \in routed
       PROVE  /\ hostIn'[i].chan <= nextChan'
              /\ hostIn'[i].type \in Closing =>
                   /\ hostIn'[i].chan \notin routed'
                   /\ \A j \in DOMAIN hostIn' :
                        j > i /\ hostIn'[j].type = "DATA" => hostIn'[j].chan # hostIn'[i].chan
  <2>0. s \in Seq(Wire)
    BY SeqFacts
  <2>1. /\ DOMAIN hostIn' = 1..(Len(hostIn) + Len(s)) /\ DOMAIN s = 1..Len(s) /\ Len(s) \in Nat
        /\ \A k \in DOMAIN hostIn : hostIn'[k] = hostIn[k]
        /\ \A k \in DOMAIN s : hostIn'[Len(hostIn) + k] = s[k]
    BY <1>2, <1>10, <2>0, ConcatElements
  <2>2. ASSUME NEW j \in DOMAIN hostIn', j \notin DOMAIN hostIn
        PROVE  hostIn'[j].type = "CLOSE" /\ hostIn'[j].chan \in routed
    <3>1. j - Len(hostIn) \in DOMAIN s /\ Len(hostIn) + (j - Len(hostIn)) = j
      BY <1>2, <2>1, <2>2
    <3>. QED BY <1>10, <2>1, <3>1
  <2>3. ASSUME NEW j \in DOMAIN hostIn', hostIn'[j].type = "DATA"
        PROVE  j \in DOMAIN hostIn /\ hostIn'[j] = hostIn[j]
    BY <2>1, <2>2, <2>3
  <2>4. CASE i \in DOMAIN hostIn
    <3>1. hostIn'[i] = hostIn[i]
      BY <2>1, <2>4
    <3>2. ASSUME hostIn[i].type \in Closing, NEW j \in DOMAIN hostIn', j > i, hostIn'[j].type = "DATA"
          PROVE  hostIn'[j].chan # hostIn[i].chan
      BY <2>3, <2>4, <3>2 DEF EndsInLast
    <3>. QED BY <1>6, <1>10, <2>4, <3>1, <3>2
  <2>5. CASE i \notin DOMAIN hostIn
    <3>1. hostIn'[i].chan \in routed
      BY <2>2, <2>5
    <3>2. hostIn'[i].chan <= nextChan'
      BY <1>4, <1>5, <3>1 DEF Chans
    <3>3. \A j \in DOMAIN hostIn' : hostIn'[j].type = "DATA" => ~(j > i)
      BY <1>2, <2>1, <2>3, <2>5
    <3>. QED BY <1>10, <3>2, <3>3
  <2>. QED BY <2>4, <2>5
<1>. QED BY <1>1, <1>7, <1>8, <1>9, <1>10 DEF InStep

LEMMA EndsQueuedLastKept ==
  ASSUME IInv, TypeOK, Depths, Fresh, EndsQueuedLast, [Next]_vars
  PROVE  EndsQueuedLast'
<1>. SUFFICES ASSUME NEW c \in Chans, NEW i \in DOMAIN queue'[c], queue'[c][i].type \in Closing
              PROVE  c \notin routed' /\ i = Len(queue'[c])
  BY DEF EndsQueuedLast
<1>1. QueueStep
  BY WireSteps
<1>2. /\ queue[c] \in Seq(Wire) /\ DOMAIN queue[c] = 1..Len(queue[c]) /\ Len(queue[c]) \in Nat
      /\ queue \in [Chans -> Seq(Frames)]
  BY SeqFacts DEF TypeOK
<1>3. ASSUME NEW k \in DOMAIN queue[c], queue[c][k].type \in Closing
      PROVE  c \notin routed /\ c \notin routed' /\ k = Len(queue[c])
  <2>1. c \notin routed /\ k = Len(queue[c])
    BY <1>3 DEF EndsQueuedLast
  <2>2. queue[c] # <<>>
    BY <1>2, <1>3
  <2>. QED BY <2>1, <2>2, StaysUnrouted
<1>4. CASE queue'[c] = queue[c]
  BY <1>3, <1>4
<1>5. CASE queue[c] # <<>> /\ queue'[c] = Tail(queue[c])
  <2>1. i + 1 \in DOMAIN queue[c] /\ queue'[c][i] = queue[c][i + 1] /\ Len(queue'[c]) = Len(queue[c]) - 1
        /\ i \in Nat
    BY <1>2, <1>5, TailElements
  <2>2. queue[c][i + 1].type \in Closing
    BY <2>1
  <2>3. c \notin routed' /\ i + 1 = Len(queue[c])
    BY <1>3, <2>1, <2>2
  <2>4. \A n \in Nat : i + 1 = n => i = n - 1
    BY <2>1
  <2>6. i = Len(queue[c]) - 1
    BY <1>2, <2>3, <2>4
  <2>5. Len(queue'[c]) = Len(queue[c]) - 1
    BY <2>1
  <2>. QED BY <2>3, <2>5, <2>6
<1>6. ASSUME NEW f \in Frames, queue'[c] = Append(queue[c], f), c \in routed,
             f.type \in Closing => c \notin routed'
      PROVE  c \notin routed' /\ i = Len(queue'[c])
  <2>1. /\ DOMAIN queue'[c] = 1..(Len(queue[c]) + 1) /\ queue'[c][Len(queue[c]) + 1] = f
        /\ \A k \in DOMAIN queue[c] : queue'[c][k] = queue[c][k]
        /\ Len(queue'[c]) = Len(queue[c]) + 1
    BY <1>2, <1>6, FramesFacts, AppendIsConcat
  <2>2. i \notin DOMAIN queue[c]
    BY <1>3, <1>6, <2>1
  <2>3. i = Len(queue[c]) + 1
    BY <1>2, <2>1, <2>2
  <2>. QED BY <1>6, <2>1, <2>3
<1>. QED BY <1>1, <1>2, <1>4, <1>5, <1>6 DEF QueueStep

LEMMA EndsOutLastKept ==
  ASSUME IInv, TypeOK, Depths, Partings, EndsOutLast, [Next]_vars
  PROVE  EndsOutLast'
<1>. SUFFICES ASSUME NEW i \in DOMAIN hostOut', hostOut'[i].type \in Closing, hostOut'[i].chan \in eof'["host"],
                     NEW j \in DOMAIN hostOut', j > i, hostOut'[j].type = "DATA",
                     hostOut'[j].chan = hostOut'[i].chan
              PROVE  FALSE
  BY DEF EndsOutLast
<1>1. OutStep
  BY WireSteps
<1>2. /\ hostOut \in Seq(Wire) /\ \A k \in DOMAIN hostOut : hostOut[k].chan \in Chans
      /\ DOMAIN hostOut = 1..Len(hostOut) /\ Len(hostOut) \in Nat
  BY SeqFacts, WireFacts
<1>3. ASSUME NEW k \in DOMAIN hostOut, hostOut[k].type \in Closing, hostOut[k].chan \in eof'["host"]
      PROVE  hostOut[k].chan \in eof["host"]
  <2>1. hostOut[k].chan \in Chans \ listed["host"]
    BY <1>2, <1>3 DEF IInv, HostLetGo
  <2>. QED BY <1>3, <2>1, StepsAreSteady DEF Steady, End
<1>4. CASE hostOut' = hostOut
  BY <1>3, <1>4 DEF EndsOutLast
<1>5. CASE hostOut # <<>> /\ hostOut' = Tail(hostOut)
  <2>1. /\ \A k \in DOMAIN hostOut' : hostOut'[k] = hostOut[k + 1] /\ k + 1 \in DOMAIN hostOut
        /\ j + 1 > i + 1
    BY <1>2, <1>5, TailElements
  <2>. QED BY <1>3, <2>1 DEF EndsOutLast
<1>6. ASSUME NEW f \in Frames, hostOut' = Append(hostOut, f), MayEnterOut(f) PROVE FALSE
  <2>1. /\ DOMAIN hostOut' = 1..(Len(hostOut) + 1) /\ hostOut'[Len(hostOut) + 1] = f
        /\ \A k \in DOMAIN hostOut : hostOut'[k] = hostOut[k]
    BY <1>2, <1>6, FramesFacts, AppendIsConcat
  <2>2. i \in DOMAIN hostOut
    BY <1>2, <2>1
  <2>3. hostOut[i].chan \in eof["host"] /\ hostOut'[i] = hostOut[i]
    BY <1>3, <2>1, <2>2
  <2>4. CASE j \in DOMAIN hostOut
    BY <2>1, <2>2, <2>3, <2>4 DEF EndsOutLast
  <2>5. CASE j \notin DOMAIN hostOut
    <3>1. hostOut'[j] = f
      BY <1>2, <2>1, <2>5
    <3>2. pump["host"][f.chan] = "sending"
      BY <1>6, <3>1 DEF MayEnterOut
    <3>3. pump["host"][f.chan] = "ended"
      BY <2>3, <3>1 DEF Partings, End
    <3>. QED BY <3>2, <3>3
  <2>. QED BY <2>4, <2>5
<1>. QED BY <1>1, <1>4, <1>5, <1>6 DEF OutStep

\* So nothing overtakes the end of a stream.
LEMMA EndsAreLastKept ==
  ASSUME IInv, TypeOK, Depths, Fresh, EndsAreLast, Partings, [Next]_vars
  PROVE  EndsAreLast'
<1>1. EndsInLast /\ EndsQueuedLast /\ EndsOutLast
  BY DEF EndsAreLast, EndsInLast, EndsQueuedLast, EndsOutLast
<1>2. EndsInLast' /\ EndsQueuedLast' /\ EndsOutLast'
  BY <1>1, EndsInLastKept, EndsQueuedLastKept, EndsOutLastKept
<1>. QED BY <1>2 DEF EndsAreLast, EndsInLast, EndsQueuedLast, EndsOutLast

\* A stream the relay lets go of by itself is retired; otherwise an end let go of it first.
LEMMA UnroutedKept ==
  ASSUME IInv, TypeOK, Depths, Fresh, EndsAreLast, Unrouted, Partings, [Next]_vars
  PROVE  Unrouted'
<1>. SUFFICES ASSUME NEW c \in (listed'["guest"] \ routed') \ retired'
              PROVE  /\ c \notin listed'["host"] /\ pump'["host"][c] \notin {"none", "opening"}
                     /\ c \in eof'["host"] =>
                          \A i \in DOMAIN hostOut' : hostOut'[i].type = "DATA" => hostOut'[i].chan # c
  BY DEF Unrouted
<1>1. c \in Chans
  BY DomainsKept DEF IInv, Domains, End
<1>2. Steady(c) /\ OutStep
  BY <1>1, StepsAreSteady, WireSteps
<1>3. c \in listed["guest"] \ retired
  <2>1. ASSUME GuestAccepts, c = nextChan + 1 PROVE FALSE
    BY <2>1 DEF GuestAccepts
  <2>. QED BY <1>2, <2>1 DEF Steady
<1>4. /\ hostOut \in Seq(Wire) /\ DOMAIN hostOut = 1..Len(hostOut) /\ Len(hostOut) \in Nat
  BY SeqFacts
<1>5. CASE c \notin routed
  <2>1. /\ c \notin listed["host"] /\ pump["host"][c] \notin {"none", "opening"}
        /\ c \in eof["host"] => \A i \in DOMAIN hostOut : hostOut[i].type = "DATA" => hostOut[i].chan # c
    BY <1>3, <1>5 DEF Unrouted
  <2>2. c \notin listed'["host"] /\ pump'["host"][c] \notin {"none", "opening"}
    BY <1>2, <2>1 DEF Steady
  <2>3. ASSUME c \in eof'["host"], NEW i \in DOMAIN hostOut', hostOut'[i].type = "DATA", hostOut'[i].chan = c
        PROVE  FALSE
    <3>1. c \in eof["host"]
      BY <1>2, <2>1, <2>3 DEF Steady, End
    <3>2. CASE \E k \in DOMAIN hostOut : hostOut'[i] = hostOut[k]
      BY <2>1, <2>3, <3>1, <3>2
    <3>3. CASE ~ \E k \in DOMAIN hostOut : hostOut'[i] = hostOut[k]
      <4>1. PICK f \in Frames : hostOut' = Append(hostOut, f) /\ MayEnterOut(f)
        <5>1. hostOut' # hostOut
          BY <3>3
        <5>2. ~(hostOut # <<>> /\ hostOut' = Tail(hostOut))
          BY <1>4, <3>3, TailElements
        <5>. QED BY <1>2, <5>1, <5>2 DEF OutStep
      <4>2. hostOut'[i] = f
        BY <1>4, <3>3, <4>1, FramesFacts, AppendIsConcat
      <4>3. pump["host"][c] = "sending"
        BY <2>3, <4>1, <4>2 DEF MayEnterOut
      <4>. QED BY <3>1, <4>3 DEF Partings, End
    <3>. QED BY <3>2, <3>3
  <2>. QED BY <2>2, <2>3
<1>6. CASE c \in routed
  <2>1. /\ hostOut # <<>> /\ hostOut' = Tail(hostOut) /\ UNCHANGED <<listed, pump, eof>>
        /\ Head(hostOut).chan = c /\ Head(hostOut).type \in Closing
    BY <1>2, <1>6 DEF Steady
  <2>2. /\ Head(hostOut) = hostOut[1] /\ 1 \in DOMAIN hostOut
        /\ \A k \in DOMAIN hostOut' : hostOut'[k] = hostOut[k + 1] /\ k + 1 \in DOMAIN hostOut /\ k + 1 > 1
    BY <1>4, <2>1, TailElements
  <2>3. c \notin listed["host"] /\ pump["host"][c] \notin {"none", "opening"}
    BY <2>1, <2>2 DEF IInv, HostLetGo
  <2>4. c \in eof["host"] => \A j \in DOMAIN hostOut : j > 1 /\ hostOut[j].type = "DATA" => hostOut[j].chan # c
    BY <2>1, <2>2 DEF EndsAreLast
  <2>. QED BY <2>1, <2>2, <2>3, <2>4
<1>. QED BY <1>5, <1>6

-----------------------------------------------------------------------------
(* A channel the host has not dialled. *)

FreshWires(c) ==
  /\ queue[c] = <<>>
  /\ \A i \in DOMAIN hostOut : hostOut[i].chan # c
  /\ \A i \in DOMAIN hostIn : hostIn[i].type \in {"DATA", "WINDOW"} => hostIn[i].chan # c

FreshGuest(c) ==
  /\ answer[c] = "none" /\ pump["guest"][c] \in {"none", "opening"}
  /\ c \in listed["guest"] => avail["guest"][c] = InitialWindow

FreshEnds(c) ==
  \A e \in End : /\ loop[e] # Idle => loop[e].chan # c
                 /\ read[e][c] = 0 /\ wrote[e][c] = 0
                 /\ c \notin eof[e] /\ c \notin told[e]

FreshAt(c) == FreshWires(c) /\ FreshGuest(c) /\ FreshEnds(c)

LEMMA FreshIs ==
  Fresh <=> \A c \in Chans : pump["host"][c] \in {"none", "opening"} => FreshAt(c)
BY DEF Fresh, FreshAt, FreshWires, FreshGuest, FreshEnds

\* What holds of the channel before the host's dial stays until then.
LEMMA FreshWiresKept ==
  ASSUME IInv, TypeOK, Depths, [Next]_vars, NEW c \in Chans, FreshAt(c),
         pump["host"][c] \in {"none", "opening"}, pump'["host"][c] \in {"none", "opening"}
  PROVE  FreshWires(c)'
<1>1. InStep /\ OutStep /\ QueueStep
  BY WireSteps
<1>2. /\ hostIn \in Seq(Wire) /\ hostOut \in Seq(Wire) /\ DOMAIN hostIn = 1..Len(hostIn)
      /\ DOMAIN hostOut = 1..Len(hostOut) /\ Len(hostIn) \in Nat /\ Len(hostOut) \in Nat
      /\ queue \in [Chans -> Seq(Frames)]
  <2>1. hostIn \in Seq(Wire) /\ hostOut \in Seq(Wire)
    BY SeqFacts
  <2>2. queue \in [Chans -> Seq(Frames)]
    BY DEF TypeOK
  <2>. QED BY <2>1, <2>2
<1>3. /\ pump["guest"][c] \in {"none", "opening"} /\ c \notin listed["host"]
      /\ loop["guest"] # Idle => loop["guest"].chan # c
      /\ loop["host"] # Idle => loop["host"].chan # c
  BY DEF FreshAt, FreshGuest, FreshEnds, IInv, NumbersUsed, End
<1>4. /\ queue[c] = <<>>
      /\ \A i \in DOMAIN hostOut : hostOut[i].chan # c
      /\ \A i \in DOMAIN hostIn : hostIn[i].type \in {"DATA", "WINDOW"} => hostIn[i].chan # c
  BY DEF FreshAt, FreshWires
<1>5. queue'[c] = <<>>
  <2>1. CASE queue' = queue
    BY <1>4, <2>1
  <2>2. ASSUME NEW d \in Chans, queue[d] # <<>>, queue' = [queue EXCEPT ![d] = Tail(@)]
        PROVE  queue'[c] = <<>>
    BY <1>2, <1>4, <2>2
  <2>3. ASSUME NEW d \in Chans, NEW f \in Frames, queue' = [queue EXCEPT ![d] = Append(@, f)],
               hostOut # <<>>, Head(hostOut).chan = d
        PROVE  queue'[c] = <<>>
    <3>1. d # c
      BY <1>2, <1>4, <2>3, TailElements
    <3>. QED BY <1>2, <1>4, <2>3, <3>1
  <2>. QED BY <1>1, <2>1, <2>2, <2>3 DEF QueueStep
<1>6. \A i \in DOMAIN hostOut' : hostOut'[i].chan # c
  <2>1. CASE hostOut' = hostOut
    BY <1>4, <2>1
  <2>2. CASE hostOut # <<>> /\ hostOut' = Tail(hostOut)
    BY <1>2, <1>4, <2>2, TailElements
  <2>3. ASSUME NEW f \in Frames, hostOut' = Append(hostOut, f), MayEnterOut(f)
        PROVE  \A i \in DOMAIN hostOut' : hostOut'[i].chan # c
    <3>1. f.chan # c
      BY <1>3, <2>3 DEF MayEnterOut
    <3>2. \A i \in DOMAIN hostOut' : hostOut'[i] = f \/ (i \in DOMAIN hostOut /\ hostOut'[i] = hostOut[i])
      BY <1>2, <2>3, FramesFacts, AppendIsConcat
    <3>. QED BY <1>4, <3>1, <3>2
  <2>. QED BY <1>1, <2>1, <2>2, <2>3 DEF OutStep
<1>7. \A i \in DOMAIN hostIn' : hostIn'[i].type \in {"DATA", "WINDOW"} => hostIn'[i].chan # c
  <2>1. CASE hostIn' = hostIn
    BY <1>4, <2>1
  <2>2. CASE hostIn # <<>> /\ hostIn' = Tail(hostIn)
    BY <1>2, <1>4, <2>2, TailElements
  <2>3. ASSUME NEW f \in Frames, hostIn' = Append(hostIn, f), MayEnterIn(f)
        PROVE  \A i \in DOMAIN hostIn' : hostIn'[i].type \in {"DATA", "WINDOW"} => hostIn'[i].chan # c
    <3>1. f.type \in {"DATA", "WINDOW"} => f.chan # c
      BY <1>3, <2>3 DEF MayEnterIn
    <3>2. \A i \in DOMAIN hostIn' : hostIn'[i] = f \/ (i \in DOMAIN hostIn /\ hostIn'[i] = hostIn[i])
      BY <1>2, <2>3, FramesFacts, AppendIsConcat
    <3>. QED BY <1>4, <3>1, <3>2
  <2>4. ASSUME NEW s \in Seq(Frames), hostIn' = hostIn \o s,
               \A i \in DOMAIN s : s[i].type = "CLOSE" /\ s[i].chan \in routed
        PROVE  \A i \in DOMAIN hostIn' : hostIn'[i].type \in {"DATA", "WINDOW"} => hostIn'[i].chan # c
    <3>. SUFFICES ASSUME NEW i \in DOMAIN hostIn', hostIn'[i].type \in {"DATA", "WINDOW"}
                  PROVE  hostIn'[i].chan # c
      OBVIOUS
    <3>0. s \in Seq(Wire)
      BY SeqFacts
    <3>1. /\ DOMAIN hostIn' = 1..(Len(hostIn) + Len(s)) /\ DOMAIN s = 1..Len(s) /\ Len(s) \in Nat
          /\ \A k \in DOMAIN hostIn : hostIn'[k] = hostIn[k]
          /\ \A k \in DOMAIN s : hostIn'[Len(hostIn) + k] = s[k]
      BY <1>2, <2>4, <3>0, ConcatElements
    <3>2. CASE i \in DOMAIN hostIn
      BY <1>4, <3>1, <3>2
    <3>3. CASE i \notin DOMAIN hostIn
      <4>1. i - Len(hostIn) \in DOMAIN s /\ Len(hostIn) + (i - Len(hostIn)) = i
        BY <1>2, <3>1, <3>3
      <4>2. hostIn'[i].type = "CLOSE"
        BY <2>4, <3>1, <4>1
      <4>. QED BY <4>2
    <3>. QED BY <3>2, <3>3
  <2>. QED BY <1>1, <2>1, <2>2, <2>3, <2>4 DEF InStep
<1>. QED BY <1>5, <1>6, <1>7 DEF FreshWires

\* What TypeOK says of the ends.
LEMMA LocalTypes ==
  ASSUME TypeOK
  PROVE  /\ listed \in [End -> SUBSET Chans] /\ answer \in [Chans -> {"none", "ok", "refused"}]
         /\ pump \in [End -> [Chans -> {"none", "opening", "reading", "waiting", "sending", "ended"}]]
         /\ avail \in [End -> [Chans -> 0..InitialWindow]] /\ loop \in [End -> {Idle} \cup Frames]
         /\ read \in [End -> [Chans -> Nat]] /\ wrote \in [End -> [Chans -> Nat]]
         /\ eof \in [End -> SUBSET Chans] /\ told \in [End -> SUBSET Chans] /\ nextChan \in Nat
         /\ End = {"guest", "host"} /\ "guest" # "host"
<1>1. nextChan \in Nat
  BY EndsAssumption DEF TypeOK
<1>2. End = {"guest", "host"} /\ "guest" # "host"
  BY DEF End
<1>3. /\ listed \in [End -> SUBSET Chans] /\ answer \in [Chans -> {"none", "ok", "refused"}]
      /\ pump \in [End -> [Chans -> {"none", "opening", "reading", "waiting", "sending", "ended"}]]
      /\ avail \in [End -> [Chans -> 0..InitialWindow]] /\ loop \in [End -> {Idle} \cup Frames]
  BY DEF TypeOK
<1>4. /\ read \in [End -> [Chans -> Nat]] /\ wrote \in [End -> [Chans -> Nat]]
      /\ eof \in [End -> SUBSET Chans] /\ told \in [End -> SUBSET Chans]
  BY DEF TypeOK
<1>. QED BY <1>1, <1>2, <1>3, <1>4

LEMMA FreshEndsKept ==
  ASSUME IInv, TypeOK, [Next]_vars, NEW c \in Chans, FreshAt(c),
         pump["host"][c] \in {"none", "opening"}
  PROVE  FreshGuest(c)' /\ FreshEnds(c)'
<1>. DEFINE Good == FreshGuest(c)' /\ FreshEnds(c)'
<1>0. /\ listed \in [End -> SUBSET Chans] /\ answer \in [Chans -> {"none", "ok", "refused"}]
      /\ pump \in [End -> [Chans -> {"none", "opening", "reading", "waiting", "sending", "ended"}]]
      /\ avail \in [End -> [Chans -> 0..InitialWindow]] /\ loop \in [End -> {Idle} \cup Frames]
      /\ read \in [End -> [Chans -> Nat]] /\ wrote \in [End -> [Chans -> Nat]]
      /\ eof \in [End -> SUBSET Chans] /\ told \in [End -> SUBSET Chans] /\ nextChan \in Nat
      /\ End = {"guest", "host"} /\ "guest" # "host"
  BY LocalTypes
<1>1. /\ answer[c] = "none" /\ pump["guest"][c] \in {"none", "opening"}
      /\ c \in listed["guest"] => avail["guest"][c] = InitialWindow
      /\ \A e \in End : /\ loop[e] # Idle => loop[e].chan # c
                        /\ read[e][c] = 0 /\ wrote[e][c] = 0
                        /\ c \notin eof[e] /\ c \notin told[e]
      /\ queue[c] = <<>> /\ c \notin listed["host"]
      /\ \A i \in DOMAIN hostIn : hostIn[i].type \in {"DATA", "WINDOW"} => hostIn[i].chan # c
  BY DEF FreshAt, FreshGuest, FreshEnds, FreshWires, IInv, NumbersUsed
<1>2. ASSUME GuestAccepts PROVE Good
  <2>1. /\ listed' = [listed EXCEPT !["guest"] = @ \cup {nextChan + 1}]
        /\ avail' = [avail EXCEPT !["guest"][nextChan + 1] = InitialWindow]
        /\ pump' = [pump EXCEPT !["guest"][nextChan + 1] = "opening"]
        /\ UNCHANGED <<answer, loop, read, wrote, eof, told>>
    BY <1>2 DEF GuestAccepts, logVars
  <2>2. CASE c = nextChan + 1
    BY <1>0, <1>1, <2>1, <2>2 DEF FreshGuest, FreshEnds
  <2>3. CASE c # nextChan + 1
    BY <1>0, <1>1, <2>1, <2>3 DEF FreshGuest, FreshEnds
  <2>. QED BY <2>2, <2>3
<1>3. ASSUME UNCHANGED <<answer, avail, loop, read, wrote, eof, told>>,
             listed'["guest"] \subseteq listed["guest"], pump'["guest"][c] = pump["guest"][c]
      PROVE  Good
  BY <1>1, <1>3 DEF FreshGuest, FreshEnds
<1>4. ASSUME NEW d \in Chans, GuestAnswered(d) PROVE Good
  <2>1. d # c
    BY <1>1, <1>4 DEF GuestAnswered
  <2>2. /\ UNCHANGED <<avail, loop, read, wrote, eof, told>>
        /\ \E p \in {"reading", "ended"} : pump' = [pump EXCEPT !["guest"][d] = p]
        /\ answer' = answer \/ answer' = [answer EXCEPT ![d] = IF @ = "none" THEN "ok" ELSE @]
        /\ listed' = listed \/ listed' = [listed EXCEPT !["guest"] = @ \ {d}]
    <3>1. CASE answer[d] = "ok"
      BY <1>4, <3>1 DEF GuestAnswered, logVars
    <3>2. CASE answer[d] # "ok"
      BY <1>0, <1>4, <3>2, CloseDoes DEF GuestAnswered, logVars
    <3>. QED BY <3>1, <3>2
  <2>. QED BY <1>0, <1>1, <2>1, <2>2 DEF FreshGuest, FreshEnds
<1>5. ASSUME NEW d \in Chans, HostDialled(d) PROVE Good
  <2>1. /\ UNCHANGED <<answer, loop, read, wrote, eof, told>>
        /\ avail' = avail \/ avail' = [avail EXCEPT !["host"][d] = InitialWindow]
        /\ listed' = listed \/ listed' = [listed EXCEPT !["host"] = @ \cup {d}]
        /\ \E p \in {"reading", "ended"} : pump' = [pump EXCEPT !["host"][d] = p]
    BY <1>5, DialDoes DEF logVars
  <2>2. pump'["guest"][c] = pump["guest"][c] /\ avail'["guest"] = avail["guest"]
        /\ listed'["guest"] = listed["guest"]
    BY <1>0, <2>1
  <2>. QED BY <1>1, <2>1, <2>2 DEF FreshGuest, FreshEnds
<1>6. ASSUME NEW e \in End, NEW d \in Chans, Pump(e, d) \/ Runs(e, d) PROVE Good
  <2>1. d # c
    BY <1>1, <1>6, <1>0 DEF Pump, Runs, PumpReads, PumpMeetsEOF, PumpReserves, PumpSends, PumpEnds
  <2>2. /\ \E p \in {"reading", "waiting", "sending", "ended"} : pump' = [pump EXCEPT ![e][d] = p]
        /\ UNCHANGED <<loop, wrote, told>>
        /\ read' = read \/ \E n \in Chunks : read' = [read EXCEPT ![e][d] = @ + n]
        /\ avail' = avail \/ avail' = [avail EXCEPT ![e][d] = @ - hold[e][d]]
        /\ eof' = eof \/ eof' = [eof EXCEPT ![e] = @ \cup {d}]
        /\ answer' = answer \/ answer' = [answer EXCEPT ![d] = IF @ = "none" THEN "ok" ELSE @]
        /\ listed' = listed \/ listed' = [listed EXCEPT ![e] = @ \ {d}]
    <3>1. CASE PumpMeetsEOF(e, d)
      BY <3>1, CloseDoes DEF PumpMeetsEOF
    <3>2. CASE PumpReads(e, d) \/ PumpReserves(e, d) \/ PumpSends(e, d) \/ PumpEnds(e, d)
      BY <3>2 DEF PumpReads, PumpReserves, PumpSends, PumpEnds, logVars
    <3>. QED BY <1>6, <3>1, <3>2 DEF Pump, Runs
  <2>3. /\ pump'["guest"][c] = pump["guest"][c] /\ avail'["guest"][c] = avail["guest"][c]
        /\ answer'[c] = answer[c] /\ listed'["guest"] \subseteq listed["guest"]
    BY <1>0, <2>1, <2>2
  <2>4. \A x \in End : read'[x][c] = read[x][c] /\ c \notin eof'[x]
    BY <1>0, <1>1, <2>1, <2>2
  <2>. QED BY <1>1, <2>2, <2>3, <2>4 DEF FreshGuest, FreshEnds
<1>7. ASSUME HostTakes PROVE Good
  <2>. DEFINE f == Head(hostIn)
  <2>1. f \in Wire /\ f = hostIn[1] /\ 1 \in DOMAIN hostIn
    BY <1>7, TailElements DEF HostTakes, IInv, Domains
  <2>2. Handle("host", f) /\ UNCHANGED <<read, wrote, eof>>
    BY <1>7 DEF HostTakes
  <2>3. f.type \in {"DATA", "WINDOW"} => f.chan # c
    BY <1>1, <2>1
  <2>. HIDE DEF f
  <2>4. /\ pump' = IF f.type = "OPEN" THEN [pump EXCEPT !["host"][f.chan] = "opening"] ELSE pump
        /\ listed' = IF f.type \in Closing THEN [listed EXCEPT !["host"] = @ \ {f.chan}] ELSE listed
        /\ loop' = IF f.type = "DATA" /\ f.chan \in listed["host"] THEN [loop EXCEPT !["host"] = f] ELSE loop
        /\ avail' = IF f.type = "WINDOW" /\ f.chan \in listed["host"]
                    THEN [avail EXCEPT !["host"][f.chan] = @ + f.n] ELSE avail
        /\ told' = IF f.type \in Closing /\ f.chan \in listed["host"]
                    THEN [told EXCEPT !["host"] = @ \cup {f.chan}] ELSE told
        /\ answer' = answer
    BY <1>0, <2>1, <2>2, HandleDoes
  <2>5. /\ pump'["guest"] = pump["guest"] /\ listed'["guest"] = listed["guest"]
        /\ avail'["guest"] = avail["guest"] /\ loop'["guest"] = loop["guest"]
        /\ told'["guest"] = told["guest"] /\ c \notin told'["host"]
    BY <1>0, <1>1, <2>4
  <2>6. loop'["host"] # Idle => loop'["host"].chan # c
    BY <1>0, <1>1, <2>3, <2>4
  <2>7. \A e \in End : c \notin told'[e] /\ (loop'[e] # Idle => loop'[e].chan # c)
    BY <1>0, <1>1, <2>5, <2>6
  <2>. QED BY <1>1, <2>2, <2>4, <2>5, <2>7 DEF FreshGuest, FreshEnds
<1>8. ASSUME NEW d \in Chans, GuestTakes(d) PROVE Good
  <2>. DEFINE f == Head(queue[d])
  <2>1. f \in Wire /\ f.chan = d
    <3>1. queue[d] \in Seq(Wire) /\ queue[d] # <<>>
      BY <1>8 DEF GuestTakes, IInv, Domains
    <3>. QED BY <3>1, TailElements DEF IInv, Domains
  <2>2. Handle("guest", f) /\ UNCHANGED <<read, wrote, eof>> /\ d # c
    BY <1>1, <1>8 DEF GuestTakes
  <2>. HIDE DEF f
  <2>4. /\ pump' = pump
        /\ listed' = IF f.type \in Closing THEN [listed EXCEPT !["guest"] = @ \ {d}] ELSE listed
        /\ loop' = IF f.type = "DATA" /\ d \in listed["guest"] THEN [loop EXCEPT !["guest"] = f] ELSE loop
        /\ avail' = IF f.type = "WINDOW" /\ d \in listed["guest"]
                    THEN [avail EXCEPT !["guest"][d] = @ + f.n] ELSE avail
        /\ told' = IF f.type \in Closing /\ d \in listed["guest"]
                    THEN [told EXCEPT !["guest"] = @ \cup {d}] ELSE told
        /\ \/ answer' = answer
           \/ \E a \in {"ok", "refused"} : answer' = [answer EXCEPT ![d] = IF @ = "none" THEN a ELSE @]
    BY <1>0, <2>1, <2>2, HandleDoes
  <2>5. /\ listed'["guest"] \subseteq listed["guest"] /\ avail'["guest"][c] = avail["guest"][c]
        /\ answer'[c] = answer[c]
    BY <1>0, <1>1, <2>2, <2>4
  <2>6. \A e \in End : c \notin told'[e] /\ (loop'[e] # Idle => loop'[e].chan # c)
    BY <1>0, <1>1, <2>1, <2>2, <2>4
  <2>. QED BY <1>1, <2>2, <2>4, <2>5, <2>6 DEF FreshGuest, FreshEnds
<1>9. ASSUME NEW e \in End, Loop(e) PROVE Good
  <2>. DEFINE d == loop[e].chan
  <2>1. loop[e] # Idle /\ d \in Chans /\ d # c
    <3>1. loop[e] # Idle
      BY <1>9 DEF Loop, LoopWrites, LoopFails
    <3>. QED BY <1>1, <3>1 DEF IInv, Domains
  <2>2. /\ UNCHANGED <<pump, avail, read, eof, told>> /\ loop' = [loop EXCEPT ![e] = Idle]
        /\ wrote' = wrote \/ wrote' = [wrote EXCEPT ![e][d] = @ + loop[e].n]
        /\ answer' = answer \/ answer' = [answer EXCEPT ![d] = IF @ = "none" THEN "ok" ELSE @]
        /\ listed' = listed \/ listed' = [listed EXCEPT ![e] = @ \ {d}]
    <3>1. CASE LoopWrites(e)
      BY <3>1 DEF LoopWrites
    <3>2. CASE LoopFails(e)
      BY <2>1, <3>2, CloseDoes DEF LoopFails, logVars
    <3>. QED BY <1>9, <3>1, <3>2 DEF Loop
  <2>. HIDE DEF d
  <2>3. /\ answer'[c] = answer[c] /\ listed'["guest"] \subseteq listed["guest"]
        /\ \A x \in End : wrote'[x][c] = wrote[x][c]
        /\ \A x \in End : loop'[x] # Idle => loop'[x] = loop[x]
    BY <1>0, <2>1, <2>2
  <2>. QED BY <1>1, <2>2, <2>3 DEF FreshGuest, FreshEnds
<1>10. ASSUME RelayRoutes PROVE Good
  BY <1>3, <1>10 DEF RelayRoutes, endVars
<1>11. ASSUME GuestCloses \/ GuestLeaves \/ ShareEnds PROVE Good
  <2>1. /\ UNCHANGED <<answer, avail, loop, read, wrote, eof, told, pump>>
        /\ listed' = listed \/ \E e \in End : listed' = [listed EXCEPT ![e] = {}]
    BY <1>0, <1>11 DEF GuestCloses, GuestLeaves, ShareEnds, endVars, logVars
  <2>2. listed'["guest"] \subseteq listed["guest"]
    BY <1>0, <2>1
  <2>. QED BY <1>3, <2>1, <2>2
<1>12. ASSUME UNCHANGED vars PROVE Good
  BY <1>3, <1>12 DEF vars, endVars, logVars
<1>. QED BY <1>2, <1>4, <1>5, <1>6, <1>7, <1>8, <1>9, <1>10, <1>11, <1>12 DEF Next

\* So it does of every such channel.
LEMMA FreshKept ==
  ASSUME IInv, TypeOK, Depths, Fresh, [Next]_vars
  PROVE  Fresh'
<1>1. ASSUME NEW c \in Chans, pump'["host"][c] \in {"none", "opening"} PROVE FreshAt(c)'
  <2>1. pump["host"][c] \in {"none", "opening"}
    BY <1>1, StepsAreSteady DEF Steady
  <2>2. FreshAt(c)
    BY <2>1, FreshIs
  <2>3. FreshWires(c)' /\ FreshGuest(c)' /\ FreshEnds(c)'
    BY <1>1, <2>1, <2>2, FreshWiresKept, FreshEndsKept
  <2>. QED BY <2>3 DEF FreshAt
<1>. QED BY <1>1 DEF Fresh, FreshAt, FreshWires, FreshGuest, FreshEnds

-----------------------------------------------------------------------------
(* How many bytes are on their way. *)

Counted == {"DATA", "WINDOW"}

\* The bytes of one frame.
LEMMA SizeFacts ==
  /\ \A f \in Wire \cup {Idle}, c \in Chans, t \in Counted :
       /\ Size(f, c, t) \in Nat
       /\ f.type # t \/ f.chan # c => Size(f, c, t) = 0
       /\ f.type = t /\ f.chan = c => Size(f, c, t) = f.n
  /\ \A c \in Chans, t \in Counted : Size(Idle, c, t) = 0
<1>1. \A f \in Wire \cup {Idle}, c \in Chans, t \in Counted : Size(f, c, t) \in Nat
  BY SizeType DEF Counted
<1>2. \A f \in Wire \cup {Idle}, c \in Chans, t \in Counted :
        /\ f.type # t \/ f.chan # c => Size(f, c, t) = 0
        /\ f.type = t /\ f.chan = c => Size(f, c, t) = f.n
  BY DEF Size
<1>3. \A c \in Chans, t \in Counted : Size(Idle, c, t) = 0
  BY DEF Size, Idle, Counted
<1>. QED BY <1>1, <1>2, <1>3

\* What is on its way is a number of bytes.
LEMMA FlowTypes ==
  ASSUME Domains, NEW e \in End, NEW c \in Chans, NEW t \in Counted
  PROVE  /\ Between(e, c, t) \in Nat /\ Underway(e, c, t) \in Nat /\ Size(loop[e], c, t) \in Nat
         /\ Underway(e, c, t) = Between(e, c, t) + Size(loop[e], c, t)
<1>1. hostIn \in Seq(Wire) /\ hostOut \in Seq(Wire) /\ queue[c] \in Seq(Wire)
  BY DEF Domains
<1>2. Bytes(hostIn, c, t) \in Nat /\ Bytes(hostOut, c, t) \in Nat /\ Bytes(queue[c], c, t) \in Nat
  BY <1>1, BytesType DEF Counted
<1>3. loop[e] \in Wire \cup {Idle}
  BY DEF Domains, Wire
<1>4. Size(loop[e], c, t) \in Nat
  BY <1>3, SizeFacts
<1>. QED BY <1>2, <1>4 DEF Between, Underway

\* Whether a frame an end sends leaves it, and is taken by the relay.
Goes(e, f) == IF e = "guest" THEN f.chan \in routed ELSE share = "up" /\ share' = "up"

\* A frame that is sent adds to one direction; a close, and the relay's, to none.
LEMMA SendsFlow ==
  ASSUME Domains, NEW e \in End, NEW f \in Wire, Sends(e, f), queue' = queue,
         NEW c \in Chans, NEW t \in Counted
  PROVE  /\ Between(e, c, t)' = Between(e, c, t)
         /\ Between(Peer(e), c, t)' = Between(Peer(e), c, t) + (IF Goes(e, f) THEN Size(f, c, t) ELSE 0)
<1>1. hostIn \in Seq(Wire) /\ hostOut \in Seq(Wire) /\ queue[c] \in Seq(Wire)
  BY DEF Domains
<1>2. /\ Bytes(hostIn, c, t) \in Nat /\ Bytes(hostOut, c, t) \in Nat /\ Bytes(queue[c], c, t) \in Nat
      /\ Bytes(Append(hostIn, f), c, t) = Bytes(hostIn, c, t) + Size(f, c, t)
      /\ Bytes(Append(hostOut, f), c, t) = Bytes(hostOut, c, t) + Size(f, c, t)
      /\ Size(f, c, t) \in Nat
  <2>1. Bytes(hostIn, c, t) \in Nat /\ Bytes(hostOut, c, t) \in Nat /\ Bytes(queue[c], c, t) \in Nat
    BY <1>1, BytesType DEF Counted
  <2>2. Bytes(Append(hostIn, f), c, t) = Bytes(hostIn, c, t) + Size(f, c, t)
    BY <1>1, BytesAppend DEF Counted
  <2>3. Bytes(Append(hostOut, f), c, t) = Bytes(hostOut, c, t) + Size(f, c, t)
    BY <1>1, BytesAppend DEF Counted
  <2>4. Size(f, c, t) \in Nat
    BY SizeFacts
  <2>. QED BY <2>1, <2>2, <2>3, <2>4
<1>3. CASE e = "guest"
  <2>1. /\ hostIn' = IF f.chan \in routed THEN Append(hostIn, f) ELSE hostIn
        /\ hostOut' = hostOut
    BY <1>3 DEF Sends, GuestSends
  <2>. QED BY <1>2, <1>3, <2>1, PeerFacts DEF Between, Goes
<1>4. CASE e = "host"
  <2>1. /\ hostIn' = hostIn
        /\ hostOut' = IF Goes(e, f) THEN Append(hostOut, f) ELSE hostOut
    BY <1>4 DEF Sends, HostSends, Goes
  <2>. QED BY <1>2, <1>4, <2>1, PeerFacts DEF Between
<1>. QED BY <1>3, <1>4 DEF End

LEMMA StillFlow ==
  ASSUME hostIn' = hostIn, hostOut' = hostOut, queue' = queue,
         NEW e \in End, NEW c \in Chans, NEW t \in Counted
  PROVE  Between(e, c, t)' = Between(e, c, t)
BY DEF Between

LEMMA CloseFlow ==
  ASSUME Domains, NEW e \in End, NEW d \in Chans, CloseTelling(e, d), queue' = queue,
         NEW x \in End, NEW c \in Chans, NEW t \in Counted
  PROVE  Between(x, c, t)' = Between(x, c, t)
<1>1. CASE d \in listed[e]
  <2>. DEFINE f == Control(d, "CLOSE")
  <2>1. f \in Wire /\ f.type = "CLOSE"
    BY FrameFacts
  <2>2. Sends(e, f)
    BY <1>1 DEF CloseTelling
  <2>. HIDE DEF f
  <2>3. Size(f, c, t) = 0
    BY <2>1, SizeFacts DEF Counted
  <2>4. Between(e, c, t)' = Between(e, c, t) /\ Between(Peer(e), c, t)' = Between(Peer(e), c, t) + 0
    BY <2>1, <2>2, <2>3, SendsFlow
  <2>5. Between(Peer(e), c, t) \in Nat
    BY FlowTypes, PeerFacts
  <2>6. x = e \/ x = Peer(e)
    BY PeerFacts DEF End
  <2>. QED BY <2>4, <2>5, <2>6
<1>2. CASE d \notin listed[e]
  BY <1>2, StillFlow DEF CloseTelling, SendsNothing
<1>. QED BY <1>1, <1>2

LEMMA ForgetFlow ==
  ASSUME Domains, ForgetGuest, hostOut' = hostOut, queue' = queue,
         NEW x \in End, NEW c \in Chans, NEW t \in Counted
  PROVE  Between(x, c, t)' = Between(x, c, t)
<1>1. PICK s \in Seq(Wire) : hostIn' = hostIn \o s /\ \A i \in DOMAIN s : s[i].type = "CLOSE"
  BY ForgettingIsTyped
<1>2. \A i \in DOMAIN s : Size(s[i], c, t) = 0
  <2>1. \A i \in DOMAIN s : s[i] \in Wire
    OBVIOUS
  <2>. QED BY <1>1, <2>1, SizeFacts DEF Counted
<1>3. Bytes(hostIn', c, t) = Bytes(hostIn, c, t)
  <2>1. hostIn \in Seq(Wire)
    BY DEF Domains
  <2>. QED BY <1>1, <1>2, <2>1, BytesConcat DEF Counted
<1>. QED BY <1>3 DEF Between

\* A frame that is taken leaves its direction.
LEMMA TakesFlow ==
  ASSUME Domains, hostIn # <<>>, hostIn' = Tail(hostIn), hostOut' = hostOut, queue' = queue,
         NEW c \in Chans, NEW t \in Counted
  PROVE  /\ Between("host", c, t) = Between("host", c, t)' + Size(Head(hostIn), c, t)
         /\ Between("guest", c, t)' = Between("guest", c, t)
<1>1. hostIn \in Seq(Wire)
  BY DEF Domains
<1>2. Bytes(hostIn, c, t) = Bytes(Tail(hostIn), c, t) + Size(Head(hostIn), c, t)
  BY <1>1, BytesTail DEF Counted
<1>. QED BY <1>2 DEF Between

LEMMA GuestTakesFlow ==
  ASSUME Domains, NEW d \in Chans, queue[d] # <<>>, queue' = [queue EXCEPT ![d] = Tail(@)],
         hostOut' = hostOut, hostIn' = hostIn, NEW c \in Chans, NEW t \in Counted
  PROVE  /\ Between("guest", c, t) = Between("guest", c, t)' + Size(Head(queue[d]), c, t)
         /\ Between("host", c, t)' = Between("host", c, t)
<1>1. queue[d] \in Seq(Wire) /\ queue[c] \in Seq(Wire) /\ hostOut \in Seq(Wire)
  BY DEF Domains
<1>2. Bytes(queue[d], c, t) = Bytes(Tail(queue[d]), c, t) + Size(Head(queue[d]), c, t)
  BY <1>1, BytesTail DEF Counted
<1>3. Head(queue[d]) \in Wire /\ Head(queue[d]).chan = d /\ Tail(queue[d]) \in Seq(Wire)
  BY <1>1, TailElements DEF Domains
<1>4. Bytes(hostOut, c, t) \in Nat /\ Bytes(queue[c], c, t) \in Nat /\ Bytes(Tail(queue[d]), c, t) \in Nat
  BY <1>1, <1>3, BytesType DEF Counted
<1>5. Size(Head(queue[d]), c, t) \in Nat /\ (c # d => Size(Head(queue[d]), c, t) = 0)
  BY <1>3, SizeFacts
<1>6. queue'[d] = Tail(queue[d]) /\ (c # d => queue'[c] = queue[c])
  BY DEF Domains
<1>7. CASE c = d
  BY <1>2, <1>4, <1>5, <1>6, <1>7 DEF Between
<1>8. CASE c # d
  BY <1>4, <1>5, <1>6, <1>8 DEF Between
<1>. QED BY <1>7, <1>8

\* The relay keeps what it routes and only loses what it does not.
LEMMA RouteFlow ==
  ASSUME Domains, RelayRoutes, NEW c \in Chans, NEW t \in Counted
  PROVE  /\ Between("host", c, t)' = Between("host", c, t)
         /\ Between("guest", c, t)' <= Between("guest", c, t)
         /\ c \in routed' => Between("guest", c, t)' = Between("guest", c, t)
         /\ Head(hostOut).chan # c => Between("guest", c, t)' = Between("guest", c, t)
         /\ Size(Head(hostOut), c, t) = 0 => Between("guest", c, t)' = Between("guest", c, t)
<1>. DEFINE f == Head(hostOut)
            d == f.chan
            closing == f.type \in Closing
            overrun == d \in routed /\ ~Fits(d) /\ ~closing
            shut == Control(d, "CLOSE")
            g == IF overrun THEN shut ELSE f
            drops == d \notin routed \/ (closing /\ ~Fits(d))
<1>1. /\ hostOut # <<>> /\ hostOut' = Tail(hostOut)
      /\ queue' = IF drops THEN queue ELSE [queue EXCEPT ![d] = Append(@, g)]
      /\ routed' = IF closing \/ overrun THEN routed \ {d} ELSE routed
      /\ hostIn' = IF overrun THEN Append(hostIn, shut) ELSE hostIn
  BY DEF RelayRoutes
<1>2. hostIn \in Seq(Wire) /\ hostOut \in Seq(Wire) /\ queue \in [Chans -> Seq(Wire)]
  BY DEF Domains
<1>3. f \in Wire /\ Tail(hostOut) \in Seq(Wire)
  BY <1>1, <1>2, TailElements
<1>4. d \in Chans
  BY <1>3, WireFacts
<1>5. shut \in Wire /\ shut.type = "CLOSE"
  BY <1>4, FrameFacts
<1>6. Bytes(hostOut, c, t) = Bytes(Tail(hostOut), c, t) + Size(f, c, t)
  BY <1>1, <1>2, BytesTail DEF Counted
<1>. HIDE DEF shut, f
<1>7. Size(shut, c, t) = 0 /\ Size(f, c, t) \in Nat /\ (d # c => Size(f, c, t) = 0) /\ (closing => Size(f, c, t) = 0)
  <2>1. Size(shut, c, t) = 0
    BY <1>5, SizeFacts DEF Counted
  <2>2. Size(f, c, t) \in Nat /\ (d # c => Size(f, c, t) = 0)
    BY <1>3, SizeFacts
  <2>3. closing => Size(f, c, t) = 0
    BY <1>3, SizeFacts DEF Counted, Closing
  <2>. QED BY <2>1, <2>2, <2>3
<1>8. Bytes(hostIn', c, t) = Bytes(hostIn, c, t)
  <2>1. CASE overrun
    <3>1. Bytes(Append(hostIn, shut), c, t) = Bytes(hostIn, c, t) + 0
      BY <1>2, <1>5, <1>7, BytesAppend DEF Counted
    <3>2. Bytes(hostIn, c, t) \in Nat
      BY <1>2, BytesType DEF Counted
    <3>. QED BY <1>1, <2>1, <3>1, <3>2
  <2>2. CASE ~overrun
    BY <1>1, <2>2
  <2>. QED BY <2>1, <2>2
<1>9. /\ Bytes(Tail(hostOut), c, t) \in Nat /\ Bytes(queue[c], c, t) \in Nat
  BY <1>2, <1>3, BytesType DEF Counted
<1>10. Bytes(queue'[c], c, t) = IF d = c /\ ~drops /\ ~overrun THEN Bytes(queue[c], c, t) + Size(f, c, t)
                                 ELSE Bytes(queue[c], c, t)
  <2>1. CASE drops \/ d # c
    <3>1. queue'[c] = queue[c]
      BY <1>1, <1>2, <2>1
    <3>. QED BY <2>1, <3>1
  <2>2. CASE ~drops /\ d = c
    <3>1. queue'[c] = Append(queue[c], g)
      BY <1>1, <1>2, <2>2
    <3>2. g \in Wire /\ (overrun => Size(g, c, t) = 0) /\ (~overrun => Size(g, c, t) = Size(f, c, t))
      BY <1>3, <1>5, <1>7
    <3>. HIDE DEF g
    <3>3. Bytes(queue'[c], c, t) = Bytes(queue[c], c, t) + Size(g, c, t)
      BY <1>2, <3>1, <3>2, BytesAppend DEF Counted
    <3>. QED BY <1>9, <2>2, <3>2, <3>3
  <2>. QED BY <2>1, <2>2
<1>11. Between("host", c, t)' = Between("host", c, t)
  BY <1>8 DEF Between
<1>12. /\ Between("guest", c, t) = Bytes(Tail(hostOut), c, t) + Size(f, c, t) + Bytes(queue[c], c, t)
       /\ Between("guest", c, t)' = Bytes(Tail(hostOut), c, t) + Bytes(queue'[c], c, t)
  BY <1>1, <1>6 DEF Between
<1>13. c \in routed' => Between("guest", c, t)' = Between("guest", c, t)
  <2>1. CASE d = c /\ ~drops /\ ~overrun
    BY <1>7, <1>9, <1>10, <1>12, <2>1
  <2>2. CASE d # c
    BY <1>7, <1>9, <1>10, <1>12, <2>2
  <2>3. CASE d = c /\ (drops \/ overrun)
    BY <1>1, <2>3
  <2>. QED BY <2>1, <2>2, <2>3
<1>14. (d # c \/ Size(f, c, t) = 0) => Between("guest", c, t)' = Between("guest", c, t)
  BY <1>7, <1>9, <1>10, <1>12
<1>15. Between("guest", c, t)' <= Between("guest", c, t)
  BY <1>7, <1>9, <1>10, <1>12
<1>. QED BY <1>11, <1>13, <1>14, <1>15 DEF f

\* Nothing is on its way for a channel the host has not dialled.
LEMMA FreshFlow ==
  ASSUME Domains, NEW c \in Chans, FreshAt(c), NEW e \in End, NEW t \in Counted
  PROVE  Between(e, c, t) = 0 /\ Underway(e, c, t) = 0
<1>1. hostIn \in Seq(Wire) /\ hostOut \in Seq(Wire) /\ queue[c] \in Seq(Wire)
  BY DEF Domains
<1>2. \A i \in DOMAIN hostIn : Size(hostIn[i], c, t) = 0
  <2>1. \A i \in DOMAIN hostIn : hostIn[i] \in Wire /\ (hostIn[i].type # t \/ hostIn[i].chan # c)
    BY <1>1 DEF FreshAt, FreshWires, Counted
  <2>. QED BY <2>1, SizeFacts
<1>3. \A i \in DOMAIN hostOut : Size(hostOut[i], c, t) = 0
  <2>1. \A i \in DOMAIN hostOut : hostOut[i] \in Wire /\ hostOut[i].chan # c
    BY <1>1 DEF FreshAt, FreshWires
  <2>. QED BY <2>1, SizeFacts
<1>4. \A i \in DOMAIN queue[c] : Size(queue[c][i], c, t) = 0
  BY DEF FreshAt, FreshWires
<1>5. Bytes(hostIn, c, t) = 0 /\ Bytes(hostOut, c, t) = 0 /\ Bytes(queue[c], c, t) = 0
  BY <1>1, <1>2, <1>3, <1>4, BytesNone DEF Counted
<1>6. Size(loop[e], c, t) = 0
  <2>1. loop[e] \in Wire \cup {Idle} /\ (loop[e] # Idle => loop[e].chan # c)
    BY DEF Domains, Wire, FreshAt, FreshEnds
  <2>. QED BY <2>1, SizeFacts
<1>. QED BY <1>5, <1>6 DEF Between, Underway

\* Who sends no bytes.
LEMMA QuietFlow ==
  ASSUME Domains, TypeOK, NEW c \in Chans,
         \/ GuestAccepts \/ \E d \in Chans : GuestAnswered(d) \/ HostDialled(d)
         \/ \E x \in End, d \in Chans : \/ PumpReads(x, d) \/ PumpReserves(x, d)
                                        \/ PumpMeetsEOF(x, d) \/ PumpEnds(x, d)
         \/ GuestCloses \/ GuestLeaves \/ ShareEnds \/ UNCHANGED vars
  PROVE  /\ UNCHANGED <<wrote, loop>>
         /\ \A e \in End, t \in Counted : Between(e, c, t)' = Between(e, c, t)
<1>. SUFFICES ASSUME NEW e \in End, NEW t \in Counted
              PROVE  UNCHANGED <<wrote, loop>> /\ Between(e, c, t)' = Between(e, c, t)
  <2>1. "guest" \in End /\ "DATA" \in Counted
    BY DEF End, Counted
  <2>. QED BY <2>1
<1>1. CASE GuestAccepts
  <2>. DEFINE f == Control(nextChan + 1, "OPEN")
  <2>1. hostIn' = Append(hostIn, f) /\ UNCHANGED <<wrote, loop, hostOut, queue>>
    BY <1>1 DEF GuestAccepts, logVars
  <2>2. f \in Wire /\ f.type = "OPEN"
    <3>1. nextChan + 1 \in Chans
      BY <1>1, EndsAssumption DEF GuestAccepts, Domains, Chans
    <3>. QED BY <3>1, FrameFacts
  <2>. HIDE DEF f
  <2>3. Size(f, c, t) = 0 /\ hostIn \in Seq(Wire)
    BY <2>2, SizeFacts DEF Counted, Domains
  <2>4. Bytes(hostIn', c, t) = Bytes(hostIn, c, t) + 0 /\ Bytes(hostIn, c, t) \in Nat
    BY <2>1, <2>2, <2>3, BytesAppend, BytesType DEF Counted
  <2>. QED BY <2>1, <2>4 DEF Between
<1>2. ASSUME NEW d \in Chans, HostDialled(d)
      PROVE  UNCHANGED <<wrote, loop>> /\ Between(e, c, t)' = Between(e, c, t)
  <2>1. PICK u \in {"OPEN", "ERROR"} : HostSends(Control(d, u))
    BY <1>2 DEF HostDialled
  <2>. DEFINE f == Control(d, u)
  <2>2. f \in Wire /\ f.type \notin Counted
    BY FrameFacts DEF Counted
  <2>3. Sends("host", f) /\ UNCHANGED <<wrote, loop, queue>>
    BY <1>2, <2>1 DEF Sends, HostDialled, logVars
  <2>. HIDE DEF f
  <2>4. Size(f, c, t) = 0
    BY <2>2, SizeFacts
  <2>5. Between("host", c, t)' = Between("host", c, t) /\ Between("guest", c, t)' = Between("guest", c, t) + 0
    BY <2>2, <2>3, <2>4, SendsFlow, PeerFacts DEF End
  <2>6. Between("guest", c, t) \in Nat
    BY FlowTypes DEF End
  <2>. QED BY <2>3, <2>5, <2>6 DEF End
<1>3. ASSUME NEW d \in Chans, GuestAnswered(d)
      PROVE  UNCHANGED <<wrote, loop>> /\ Between(e, c, t)' = Between(e, c, t)
  <2>1. UNCHANGED <<wrote, loop, queue>> /\ (CloseTelling("guest", d) \/ SendsNothing)
    BY <1>3 DEF GuestAnswered, logVars
  <2>2. "guest" \in End
    BY DEF End
  <2>. QED BY <2>1, <2>2, CloseFlow, StillFlow DEF SendsNothing
<1>4. ASSUME NEW x \in End, NEW d \in Chans,
             PumpReads(x, d) \/ PumpReserves(x, d) \/ PumpMeetsEOF(x, d) \/ PumpEnds(x, d)
      PROVE  UNCHANGED <<wrote, loop>> /\ Between(e, c, t)' = Between(e, c, t)
  <2>1. UNCHANGED <<wrote, loop, queue>> /\ (CloseTelling(x, d) \/ (hostIn' = hostIn /\ hostOut' = hostOut))
    BY <1>4 DEF PumpReads, PumpReserves, PumpMeetsEOF, PumpEnds, wireVars, logVars
  <2>. QED BY <2>1, CloseFlow, StillFlow
<1>5. CASE GuestCloses \/ GuestLeaves \/ ShareEnds \/ UNCHANGED vars
  <2>1. UNCHANGED <<wrote, loop, queue, hostOut>> /\ (ForgetGuest \/ hostIn' = hostIn)
    BY <1>5 DEF GuestCloses, GuestLeaves, ShareEnds, vars, endVars, wireVars, logVars
  <2>. QED BY <2>1, ForgetFlow, StillFlow
<1>. QED BY <1>1, <1>2, <1>3, <1>4, <1>5

-----------------------------------------------------------------------------
(* The books. *)

Sending(e, c) == IF pump[e][c] = "sending" THEN hold[e][c] ELSE 0

\* The terms of the books.
LEMMA BookTypes ==
  ASSUME IInv, TypeOK, NEW e \in End, NEW c \in Chans
  PROVE  /\ avail[e][c] \in Nat /\ wrote[Peer(e)][c] \in Nat /\ hold[e][c] \in Nat /\ read[e][c] \in Nat
         /\ Sending(e, c) \in Nat /\ InitialWindow \in Nat
         /\ Underway(Peer(e), c, "DATA") \in Nat /\ Underway(e, c, "WINDOW") \in Nat
         /\ Window(e, c) = avail[e][c] + Underway(Peer(e), c, "DATA") + Underway(e, c, "WINDOW") + Sending(e, c)
         /\ Carried(e, c) = wrote[Peer(e)][c] + Underway(Peer(e), c, "DATA") + hold[e][c]
<1>1. Peer(e) \in End
  BY PeerFacts
<1>2. Underway(Peer(e), c, "DATA") \in Nat /\ Underway(e, c, "WINDOW") \in Nat
  BY <1>1, FlowTypes DEF IInv, Counted
<1>3. avail[e][c] \in Nat /\ wrote[Peer(e)][c] \in Nat /\ read[e][c] \in Nat
  BY <1>1, LocalTypes
<1>4. hold[e][c] \in Nat
  BY DEF IInv, Domains
<1>5. Sending(e, c) \in Nat /\ InitialWindow \in Nat
  BY <1>4, EndsAssumption DEF Sending
<1>6. Window(e, c) = avail[e][c] + Underway(Peer(e), c, "DATA") + Underway(e, c, "WINDOW") + Sending(e, c)
  BY DEF Window, Sending
<1>7. Carried(e, c) = wrote[Peer(e)][c] + Underway(Peer(e), c, "DATA") + hold[e][c]
  BY DEF Carried
<1>. QED BY <1>2, <1>3, <1>4, <1>5, <1>6, <1>7

\* Balanced in terms of its parts.
LEMMA BalancedIs ==
  ASSUME NEW e, NEW c
  PROVE  Balanced(e, c) <=>
           /\ avail[e][c] + Underway(Peer(e), c, "DATA") + Underway(e, c, "WINDOW") + Sending(e, c)
                <= InitialWindow
           /\ wrote[Peer(e)][c] + Underway(Peer(e), c, "DATA") + hold[e][c] <= read[e][c]
           /\ Whole(c) /\ share = "up" =>
                avail[e][c] + Underway(Peer(e), c, "DATA") + Underway(e, c, "WINDOW") + Sending(e, c)
                  = InitialWindow
           /\ Whole(c) /\ (e = "guest" \/ share = "up") =>
                wrote[Peer(e)][c] + Underway(Peer(e), c, "DATA") + hold[e][c] = read[e][c]
BY DEF Balanced, Window, Carried, Sending

\* No stream becomes whole but by a dial, and sharing does not begin again.
LEMMA WholeStays ==
  ASSUME IInv, TypeOK, [Next]_vars, NEW c \in Chans
  PROVE  /\ share' = "up" => share = "up"
         /\ Whole(c)' => Whole(c) \/ HostDialled(c)
<1>1. Steady(c)
  BY StepsAreSteady
<1>2. ASSUME GuestAccepts, c = nextChan + 1 PROVE c \notin listed'["host"]
  <2>1. nextChan \in Nat
    BY LocalTypes
  <2>2. pump["host"][c] = "none"
    BY <1>2, <2>1 DEF IInv, NumbersUsed
  <2>3. c \notin listed["host"]
    BY <2>2 DEF IInv, NumbersUsed
  <2>. QED BY <1>2, <2>3, LocalTypes DEF GuestAccepts
<1>. QED BY <1>1, <1>2 DEF Steady, Whole

\* What gets lost only makes room.
LEMMA LossesBalance ==
  ASSUME IInv, TypeOK, NEW e \in End, NEW c \in Chans, Balanced(e, c),
         UNCHANGED <<avail[e][c], wrote[Peer(e)][c], hold[e][c], read[e][c]>>,
         pump'[e][c] = "sending" <=> pump[e][c] = "sending",
         Whole(c)' => Whole(c), share' = "up" => share = "up",
         Underway(Peer(e), c, "DATA")' \in Nat, Underway(e, c, "WINDOW")' \in Nat,
         Underway(Peer(e), c, "DATA")' <= Underway(Peer(e), c, "DATA"),
         Underway(e, c, "WINDOW")' <= Underway(e, c, "WINDOW"),
         Whole(c)' => /\ Underway(Peer(e), c, "DATA")' = Underway(Peer(e), c, "DATA")
                      /\ Underway(e, c, "WINDOW")' = Underway(e, c, "WINDOW")
  PROVE  Balanced(e, c)'
<1>1. /\ avail[e][c] \in Nat /\ wrote[Peer(e)][c] \in Nat /\ hold[e][c] \in Nat /\ read[e][c] \in Nat
      /\ Sending(e, c) \in Nat /\ InitialWindow \in Nat
      /\ Underway(Peer(e), c, "DATA") \in Nat /\ Underway(e, c, "WINDOW") \in Nat
  BY BookTypes
<1>2. Sending(e, c)' = Sending(e, c)
  BY DEF Sending
<1>. QED BY <1>1, <1>2 DEF Balanced, Window, Carried, Sending

\* The same when nothing is lost.
LEMMA StillBalances ==
  ASSUME IInv, TypeOK, NEW e \in End, NEW c \in Chans, Balanced(e, c),
         UNCHANGED <<avail[e][c], wrote[Peer(e)][c], hold[e][c], read[e][c]>>,
         pump'[e][c] = "sending" <=> pump[e][c] = "sending",
         Whole(c)' => Whole(c), share' = "up" => share = "up",
         Underway(Peer(e), c, "DATA")' = Underway(Peer(e), c, "DATA"),
         Underway(e, c, "WINDOW")' = Underway(e, c, "WINDOW")
  PROVE  Balanced(e, c)'
<1>1. Underway(Peer(e), c, "DATA") \in Nat /\ Underway(e, c, "WINDOW") \in Nat
  BY BookTypes
<1>. QED BY <1>1, LossesBalance

LEMMA UnderwayIs ==
  ASSUME NEW e, NEW c, NEW t
  PROVE  Underway(e, c, t) = Between(e, c, t) + Size(loop[e], c, t)
BY DEF Underway

\* Who leaves the loops, the sockets and what is on its way alone.
LEMMA IdleBalances ==
  ASSUME IInv, TypeOK, Books, [Next]_vars, NEW c \in Chans, ~HostDialled(c),
         UNCHANGED <<avail, wrote, hold, read, loop>>,
         \A e \in End : pump'[e][c] = "sending" <=> pump[e][c] = "sending",
         \A e \in End, t \in Counted : Between(e, c, t)' = Between(e, c, t)
  PROVE  \A e \in End : Balanced(e, c)'
<1>. SUFFICES ASSUME NEW e \in End PROVE Balanced(e, c)'
  OBVIOUS
<1>1. \A x \in End, t \in Counted : Underway(x, c, t)' = Underway(x, c, t)
  BY DEF Underway
<1>2. Underway(Peer(e), c, "DATA")' = Underway(Peer(e), c, "DATA")
      /\ Underway(e, c, "WINDOW")' = Underway(e, c, "WINDOW")
  BY <1>1, PeerFacts DEF Counted
<1>3. Balanced(e, c)
  BY DEF Books
<1>. QED BY <1>2, <1>3, WholeStays, StillBalances

\* A new stream has its window, and nothing on its way.
LEMMA AcceptBalances ==
  ASSUME IInv, TypeOK, Depths, Fresh, Books, GuestAccepts, NEW c \in Chans, NEW e \in End
  PROVE  Balanced(e, c)'
<1>. DEFINE d == nextChan + 1
<1>1. /\ avail' = [avail EXCEPT !["guest"][d] = InitialWindow]
      /\ pump' = [pump EXCEPT !["guest"][d] = "opening"]
      /\ UNCHANGED <<hold, loop, hostOut, queue, read, wrote, share>>
  BY DEF GuestAccepts, logVars
<1>2. d \in Chans /\ nextChan \in Nat
  <2>1. nextChan \in 0..MaxChannels /\ nextChan < MaxChannels /\ MaxChannels \in Nat
    BY EndsAssumption DEF GuestAccepts, TypeOK
  <2>. QED BY <2>1 DEF Chans
<1>3. pump["host"][d] = "none" /\ FreshAt(d)
  <2>1. pump["host"][d] = "none"
    BY <1>2 DEF IInv, NumbersUsed
  <2>. QED BY <1>2, <2>1, FreshIs
<1>5. \A x \in End, t \in Counted : Between(x, c, t)' = Between(x, c, t)
  BY QuietFlow DEF IInv
<1>. HIDE DEF d
<1>6. \A x \in End, t \in Counted : Underway(x, c, t)' = Underway(x, c, t)
  BY <1>1, <1>5 DEF Underway
<1>7. /\ Underway(Peer(e), c, "DATA")' = Underway(Peer(e), c, "DATA")
      /\ Underway(e, c, "WINDOW")' = Underway(e, c, "WINDOW")
  BY <1>6, PeerFacts DEF Counted
<1>8. Balanced(e, c) /\ (Whole(c)' => Whole(c)) /\ (share' = "up" => share = "up")
  <2>1. ~HostDialled(c)
    BY <1>1, <1>2, LocalTypes DEF HostDialled, GuestAccepts
  <2>2. [Next]_vars
    BY DEF Next
  <2>. QED BY <2>1, <2>2, WholeStays DEF Books
<1>9. CASE e = "guest" /\ c = d
  <2>1. Underway(Peer(e), c, "DATA") = 0 /\ Underway(e, c, "WINDOW") = 0
    BY <1>2, <1>3, <1>9, FreshFlow, PeerFacts DEF Counted, IInv
  <2>2. avail'[e][c] = InitialWindow /\ pump'[e][c] = "opening"
    BY <1>1, <1>9, LocalTypes
  <2>3. Sending(e, c)' = 0
    BY <2>2 DEF Sending
  <2>4. /\ wrote'[Peer(e)][c] = wrote[Peer(e)][c] /\ hold'[e][c] = hold[e][c] /\ read'[e][c] = read[e][c]
    BY <1>1
  <2>5. ~Whole(c)'
    <3>1. ~Whole(c)
      BY <1>2, <1>3, <1>9 DEF Whole, IInv, NumbersUsed
    <3>. QED BY <1>8, <3>1
  <2>6. InitialWindow \in Nat
    BY EndsAssumption
  <2>7. Window(e, c)' = InitialWindow
    BY <1>7, <2>1, <2>2, <2>3, <2>6 DEF Window, Sending
  <2>8. Carried(e, c)' <= read'[e][c]
    <3>1. Carried(e, c)' = Carried(e, c)
      BY <1>7, <2>4 DEF Carried
    <3>. QED BY <1>8, <2>4, <3>1 DEF Balanced
  <2>. QED BY <2>5, <2>6, <2>7, <2>8 DEF Balanced
<1>10. CASE ~(e = "guest" /\ c = d)
  <2>1. avail'[e][c] = avail[e][c] /\ pump'[e][c] = pump[e][c]
    BY <1>1, <1>10, LocalTypes
  <2>. QED BY <1>1, <1>7, <1>8, <2>1, StillBalances
<1>. QED BY <1>9, <1>10

\* So it has when the host has dialled; the stream is whole from here.
LEMMA DialBalances ==
  ASSUME IInv, TypeOK, Depths, Fresh, Books, NEW d \in Chans, HostDialled(d), NEW c \in Chans, NEW e \in End
  PROVE  Balanced(e, c)'
<1>1. PICK p \in {"reading", "ended"} :
        /\ pump' = [pump EXCEPT !["host"][d] = p]
        /\ avail' = IF p = "reading" THEN [avail EXCEPT !["host"][d] = InitialWindow] ELSE avail
        /\ listed' = IF p = "reading" THEN [listed EXCEPT !["host"] = @ \cup {d}] ELSE listed
  BY DEF HostDialled
<1>3. /\ UNCHANGED <<hold, loop, queue, read, wrote>> /\ pump["host"][d] = "opening"
      /\ routed' = routed /\ (share' = "up" => share = "up")
  BY DialDoes DEF logVars
<1>5. \A x \in End, t \in Counted : Between(x, c, t)' = Between(x, c, t)
  BY QuietFlow DEF IInv
<1>6. \A x \in End, t \in Counted : Underway(x, c, t)' = Underway(x, c, t)
  BY <1>3, <1>5 DEF Underway
<1>7. /\ Underway(Peer(e), c, "DATA")' = Underway(Peer(e), c, "DATA")
      /\ Underway(e, c, "WINDOW")' = Underway(e, c, "WINDOW")
  BY <1>6, PeerFacts DEF Counted
<1>8. Balanced(e, c)
  BY DEF Books
<1>9. CASE c # d
  <2>1. avail'[e][c] = avail[e][c] /\ pump'[e][c] = pump[e][c]
    BY <1>1, <1>9, LocalTypes
  <2>2. Whole(c)' => Whole(c)
    BY <1>1, <1>3, <1>9, LocalTypes DEF Whole
  <2>. QED BY <1>3, <1>7, <1>8, <2>1, <2>2, StillBalances
<1>10. CASE c = d
  <2>1. FreshAt(c)
    BY <1>3, <1>10, FreshIs
  <2>2. Underway(Peer(e), c, "DATA") = 0 /\ Underway(e, c, "WINDOW") = 0
    BY <2>1, FreshFlow, PeerFacts DEF Counted, IInv
  <2>3. wrote[Peer(e)][c] = 0 /\ read[e][c] = 0
    BY <2>1, PeerFacts DEF FreshAt, FreshEnds
  <2>4. pump[e][c] \in {"none", "opening"}
    BY <1>3, <1>10, <2>1 DEF FreshAt, FreshGuest, End
  <2>5. hold[e][c] = 0 /\ pump'[e][c] # "sending"
    BY <1>1, <1>10, <2>4, LocalTypes DEF Depths
  <2>6. InitialWindow \in Nat
    BY EndsAssumption
  <2>7. Carried(e, c)' = 0 /\ read'[e][c] = 0
    BY <1>3, <1>7, <2>2, <2>3, <2>5 DEF Carried
  <2>8. Window(e, c)' = avail'[e][c]
    <3>1. avail'[e][c] \in Nat
      BY <1>1, <2>6, LocalTypes
    <3>. QED BY <1>7, <2>2, <2>5, <3>1 DEF Window
  <2>9. avail'[e][c] <= InitialWindow
    BY <1>1, <2>6, LocalTypes
  <2>10. Whole(c)' => avail'[e][c] = InitialWindow
    <3>. SUFFICES ASSUME Whole(c)' PROVE avail'[e][c] = InitialWindow
      OBVIOUS
    <3>1. c \in listed'["guest"] /\ c \in listed'["host"]
      BY DEF Whole
    <3>2. c \notin listed["host"]
      BY <1>3, <1>10 DEF IInv, NumbersUsed
    <3>3. p = "reading" /\ c \in listed["guest"]
      BY <1>1, <3>1, <3>2, LocalTypes
    <3>4. avail["guest"][c] = InitialWindow
      BY <2>1, <3>3 DEF FreshAt, FreshGuest
    <3>. QED BY <1>1, <1>10, <3>3, <3>4, LocalTypes
  <2>. QED BY <2>6, <2>7, <2>8, <2>9, <2>10 DEF Balanced
<1>. QED BY <1>9, <1>10

\* A pump reads, and pays for what it read.
LEMMA PumpReadBalances ==
  ASSUME IInv, TypeOK, Depths, Books, NEW x \in End, NEW d \in Chans,
         PumpReads(x, d) \/ PumpReserves(x, d), NEW c \in Chans, NEW e \in End
  PROVE  Balanced(e, c)'
<1>1. UNCHANGED <<listed, loop, hostIn, hostOut, queue, routed, share, wrote>>
  BY DEF PumpReads, PumpReserves, wireVars, logVars
<1>2. \A y \in End, t \in Counted : Underway(y, c, t)' = Underway(y, c, t)
  BY <1>1, StillFlow DEF Underway
<1>3. /\ Underway(Peer(e), c, "DATA")' = Underway(Peer(e), c, "DATA")
      /\ Underway(e, c, "WINDOW")' = Underway(e, c, "WINDOW")
  BY <1>2, PeerFacts DEF Counted
<1>4. Balanced(e, c) /\ (Whole(c)' <=> Whole(c)) /\ share' = share /\ wrote'[Peer(e)][c] = wrote[Peer(e)][c]
  BY <1>1 DEF Books, Whole
<1>5. /\ avail[e][c] \in Nat /\ wrote[Peer(e)][c] \in Nat /\ hold[e][c] \in Nat /\ read[e][c] \in Nat
      /\ Sending(e, c) \in Nat /\ InitialWindow \in Nat
      /\ Underway(Peer(e), c, "DATA") \in Nat /\ Underway(e, c, "WINDOW") \in Nat
  BY BookTypes
<1>6. hold \in [End -> [Chans -> Nat]]
  BY DEF IInv, Domains
<1>7. CASE ~(e = x /\ c = d)
  <2>1. UNCHANGED <<avail[e][c], hold[e][c], read[e][c], pump[e][c]>>
    BY <1>6, <1>7, LocalTypes DEF PumpReads, PumpReserves, logVars
  <2>. QED BY <1>3, <1>4, <2>1, StillBalances
<1>8. CASE e = x /\ c = d /\ PumpReads(x, d)
  <2>1. PICK n \in Chunks : /\ read' = [read EXCEPT ![x][d] = @ + n] /\ hold' = [hold EXCEPT ![x][d] = n]
                            /\ pump' = [pump EXCEPT ![x][d] = "waiting"] /\ avail' = avail
                            /\ pump[x][d] = "reading"
    BY <1>8 DEF PumpReads
  <2>2. n \in Nat
    BY EndsAssumption
  <2>3. /\ read'[e][c] = read[e][c] + n /\ hold'[e][c] = n /\ hold[e][c] = 0
        /\ avail'[e][c] = avail[e][c]
    BY <1>6, <1>8, <2>1, LocalTypes DEF Depths
  <2>4. Sending(e, c)' = 0 /\ Sending(e, c) = 0
    BY <1>8, <2>1, LocalTypes DEF Sending
  <2>. QED BY <1>3, <1>4, <1>5, <2>2, <2>3, <2>4 DEF Balanced, Window, Carried, Sending
<1>9. CASE e = x /\ c = d /\ PumpReserves(x, d)
  <2>1. /\ avail' = [avail EXCEPT ![x][d] = @ - hold[x][d]] /\ avail[x][d] >= hold[x][d]
        /\ pump' = [pump EXCEPT ![x][d] = "sending"] /\ pump[x][d] = "waiting"
        /\ hold' = hold /\ read' = read
    BY <1>9 DEF PumpReserves, logVars
  <2>2. avail'[e][c] = avail[e][c] - hold[e][c] /\ avail'[e][c] \in Nat
    BY <1>5, <1>9, <2>1, LocalTypes
  <2>3. Sending(e, c)' = hold[e][c] /\ Sending(e, c) = 0
    BY <1>9, <2>1, LocalTypes DEF Sending
  <2>4. /\ Window(e, c)' = Window(e, c)
    BY <1>3, <1>5, <2>2, <2>3 DEF Window, Sending
  <2>5. Carried(e, c)' = Carried(e, c) /\ read'[e][c] = read[e][c]
    BY <1>3, <1>4, <2>1 DEF Carried
  <2>. QED BY <1>4, <2>4, <2>5 DEF Balanced
<1>. QED BY <1>7, <1>8, <1>9

\* What it holds goes on its way.
LEMMA PumpSendBalances ==
  ASSUME IInv, TypeOK, Depths, Books, NEW x \in End, NEW d \in Chans, PumpSends(x, d),
         NEW c \in Chans, NEW e \in End
  PROVE  Balanced(e, c)'
<1>. DEFINE n == hold[x][d]
            f == Sized(d, "DATA", n)
<1>1. /\ UNCHANGED <<listed, avail, loop, queue, read, wrote>>
      /\ hold' = [hold EXCEPT ![x][d] = 0] /\ pump' = [pump EXCEPT ![x][d] = "reading"]
      /\ Sends(x, f) /\ pump[x][d] = "sending"
  BY DEF PumpSends, logVars
<1>2. f \in Wire /\ f.type = "DATA" /\ f.chan = d /\ f.n = n /\ n \in Nat
  BY FrameFacts DEF IInv, Domains, Sized
<1>3. hold \in [End -> [Chans -> Nat]]
  BY DEF IInv, Domains
<1>. HIDE DEF f, n
<1>4. routed' = routed /\ (share' = "up" => share = "up")
  BY <1>1, <1>2, SendsDoes
<1>5. Whole(c)' <=> Whole(c)
  BY <1>1, <1>4 DEF Whole
<1>6. /\ avail[e][c] \in Nat /\ wrote[Peer(e)][c] \in Nat /\ hold[e][c] \in Nat /\ read[e][c] \in Nat
      /\ Sending(e, c) \in Nat /\ InitialWindow \in Nat
      /\ Underway(Peer(e), c, "DATA") \in Nat /\ Underway(e, c, "WINDOW") \in Nat
  BY BookTypes
<1>7. ASSUME NEW t \in Counted
      PROVE  /\ Underway(x, c, t)' = Underway(x, c, t)
             /\ t # "DATA" \/ c # d => Underway(Peer(x), c, t)' = Underway(Peer(x), c, t)
             /\ t = "DATA" /\ c = d => Underway(Peer(x), c, t)' = Underway(Peer(x), c, t) + (IF Goes(x, f) THEN n ELSE 0)
  <2>1. /\ Between(x, c, t)' = Between(x, c, t)
        /\ Between(Peer(x), c, t)' = Between(Peer(x), c, t) + (IF Goes(x, f) THEN Size(f, c, t) ELSE 0)
    BY <1>1, <1>2, SendsFlow DEF IInv
  <2>2. /\ Between(Peer(x), c, t) \in Nat /\ Size(loop[Peer(x)], c, t) \in Nat
    BY FlowTypes, PeerFacts DEF IInv
  <2>3. /\ t # "DATA" \/ c # d => Size(f, c, t) = 0
        /\ t = "DATA" /\ c = d => Size(f, c, t) = n
    BY <1>2, SizeFacts DEF Counted
  <2>4. \A y \in End : /\ Underway(y, c, t)' = Between(y, c, t)' + Size(loop[y], c, t)
                       /\ Underway(y, c, t) = Between(y, c, t) + Size(loop[y], c, t)
    BY <1>1 DEF Underway
  <2>. QED BY <1>2, <2>1, <2>2, <2>3, <2>4, PeerFacts
<1>8. Balanced(e, c)
  BY DEF Books
<1>9. CASE c # d
  <2>1. hold'[e][c] = hold[e][c] /\ pump'[e][c] = pump[e][c]
    BY <1>1, <1>3, <1>9, LocalTypes
  <2>2. \A y \in End, t \in Counted : Underway(y, c, t)' = Underway(y, c, t)
    <3>. SUFFICES ASSUME NEW y \in End, NEW t \in Counted PROVE Underway(y, c, t)' = Underway(y, c, t)
      OBVIOUS
    <3>1. y = x \/ y = Peer(x)
      BY PeerFacts DEF End
    <3>. QED BY <1>7, <1>9, <3>1
  <2>3. /\ Underway(Peer(e), c, "DATA")' = Underway(Peer(e), c, "DATA")
        /\ Underway(e, c, "WINDOW")' = Underway(e, c, "WINDOW")
    BY <2>2, PeerFacts DEF Counted
  <2>. QED BY <1>1, <1>4, <1>5, <1>8, <2>1, <2>3, StillBalances
<1>10. CASE c = d /\ e # x
  <2>1. hold'[e][c] = hold[e][c] /\ pump'[e][c] = pump[e][c]
    BY <1>1, <1>3, <1>10, LocalTypes
  <2>2. x = Peer(e) /\ e = Peer(x)
    BY <1>10, PeerFacts DEF End
  <2>3. /\ Underway(Peer(e), c, "DATA")' = Underway(Peer(e), c, "DATA")
        /\ Underway(e, c, "WINDOW")' = Underway(e, c, "WINDOW")
    BY <1>7, <2>2 DEF Counted
  <2>. QED BY <1>1, <1>4, <1>5, <1>8, <2>1, <2>3, StillBalances
<1>11. CASE c = d /\ e = x
  <2>1. hold'[e][c] = 0 /\ pump'[e][c] = "reading" /\ pump[e][c] = "sending" /\ hold[e][c] = n
    BY <1>1, <1>3, <1>11, LocalTypes DEF n
  <2>2. Sending(e, c)' = 0 /\ Sending(e, c) = n
    BY <2>1 DEF Sending
  <2>3. /\ Underway(Peer(e), c, "DATA")' = Underway(Peer(e), c, "DATA") + (IF Goes(e, f) THEN n ELSE 0)
        /\ Underway(e, c, "WINDOW")' = Underway(e, c, "WINDOW")
    BY <1>7, <1>11 DEF Counted
  <2>4. Whole(c) /\ (e = "guest" \/ share' = "up") => Goes(e, f)
    BY <1>2, <1>4, <1>11 DEF Goes, Whole
  <2>5. avail'[e][c] = avail[e][c] /\ wrote'[Peer(e)][c] = wrote[Peer(e)][c] /\ read'[e][c] = read[e][c]
    BY <1>1
  <2>6. CASE Goes(e, f)
    BY <1>2, <1>4, <1>5, <1>6, <1>8, <2>1, <2>2, <2>3, <2>5, <2>6 DEF Balanced, Window, Carried, Sending
  <2>7. CASE ~Goes(e, f)
    <3>1. ~(Whole(c)' /\ (e = "guest" \/ share' = "up"))
      BY <1>5, <2>4, <2>7
    <3>2. ~(Whole(c)' /\ share' = "up")
      BY <3>1
    <3>3. Underway(Peer(e), c, "DATA")' = Underway(Peer(e), c, "DATA")
      BY <1>6, <2>3, <2>7
    <3>4. Window(e, c)' <= InitialWindow
      BY <1>2, <1>6, <1>8, <2>1, <2>2, <2>3, <2>5, <3>3 DEF Balanced, Window, Sending
    <3>5. Carried(e, c)' <= read'[e][c]
      BY <1>2, <1>6, <1>8, <2>1, <2>5, <3>3 DEF Balanced, Carried
    <3>. QED BY <3>1, <3>2, <3>4, <3>5 DEF Balanced
  <2>. QED BY <2>6, <2>7
<1>. QED BY <1>9, <1>10, <1>11

\* What a loop has written comes back as credit.
LEMMA LoopWriteBalances ==
  ASSUME IInv, TypeOK, Books, NEW x \in End, LoopWrites(x), NEW c \in Chans, NEW e \in End
  PROVE  Balanced(e, c)'
<1>. DEFINE d == loop[x].chan
            n == loop[x].n
            f == Sized(d, "WINDOW", n)
<1>1. /\ UNCHANGED <<listed, avail, pump, hold, queue, read>>
      /\ loop' = [loop EXCEPT ![x] = Idle] /\ wrote' = [wrote EXCEPT ![x][d] = @ + n]
      /\ Sends(x, f) /\ loop[x] # Idle
  BY DEF LoopWrites, Credits
<1>2. d \in Chans /\ n \in Nat /\ loop[x] \in Wire /\ loop[x].type = "DATA" /\ loop \in [End -> {Idle} \cup Frames]
  <2>1. loop[x] \in [type : {"DATA"}, chan : Chans, n : Nat]
    BY <1>1 DEF IInv, Domains
  <2>. QED BY <2>1, LocalTypes DEF Wire
<1>3. f \in Wire /\ f.type = "WINDOW" /\ f.chan = d /\ f.n = n
  BY <1>2, FrameFacts DEF Sized
<1>. HIDE DEF f, n, d
<1>4. routed' = routed /\ (share' = "up" => share = "up")
  BY <1>1, <1>3, SendsDoes
<1>5. Whole(c)' <=> Whole(c)
  BY <1>1, <1>4 DEF Whole
<1>6. /\ avail[e][c] \in Nat /\ wrote[Peer(e)][c] \in Nat /\ hold[e][c] \in Nat /\ read[e][c] \in Nat
      /\ Sending(e, c) \in Nat /\ InitialWindow \in Nat
      /\ Underway(Peer(e), c, "DATA") \in Nat /\ Underway(e, c, "WINDOW") \in Nat
  BY BookTypes
<1>7. ASSUME NEW t \in Counted
      PROVE  /\ Underway(x, c, t) = Underway(x, c, t)' + (IF t = "DATA" /\ c = d THEN n ELSE 0)
             /\ Underway(Peer(x), c, t)' = Underway(Peer(x), c, t)
                  + (IF t = "WINDOW" /\ c = d /\ Goes(x, f) THEN n ELSE 0)
             /\ Underway(x, c, t)' \in Nat
  <2>1. /\ Between(x, c, t)' = Between(x, c, t)
        /\ Between(Peer(x), c, t)' = Between(Peer(x), c, t) + (IF Goes(x, f) THEN Size(f, c, t) ELSE 0)
    BY <1>1, <1>3, SendsFlow DEF IInv
  <2>2. /\ Between(Peer(x), c, t) \in Nat /\ Size(loop[Peer(x)], c, t) \in Nat /\ Between(x, c, t) \in Nat
    BY FlowTypes, PeerFacts DEF IInv
  <2>3. /\ t # "WINDOW" \/ c # d => Size(f, c, t) = 0
        /\ t = "WINDOW" /\ c = d => Size(f, c, t) = n
    BY <1>3, SizeFacts DEF Counted
  <2>4. /\ t # "DATA" \/ c # d => Size(loop[x], c, t) = 0
        /\ t = "DATA" /\ c = d => Size(loop[x], c, t) = n
    BY <1>2, SizeFacts DEF Counted, n, d
  <2>5. loop'[x] = Idle /\ loop'[Peer(x)] = loop[Peer(x)]
    BY <1>1, <1>2, PeerFacts
  <2>6. Size(loop'[x], c, t) = 0
    BY <2>5, SizeFacts
  <2>7. /\ Underway(x, c, t)' = Between(x, c, t)' + 0
        /\ Underway(x, c, t) = Between(x, c, t) + Size(loop[x], c, t)
        /\ Underway(Peer(x), c, t)' = Between(Peer(x), c, t)' + Size(loop[Peer(x)], c, t)
        /\ Underway(Peer(x), c, t) = Between(Peer(x), c, t) + Size(loop[Peer(x)], c, t)
    BY <2>5, <2>6 DEF Underway
  <2>. QED BY <1>2, <2>1, <2>2, <2>3, <2>4, <2>7
<1>8. Balanced(e, c)
  BY DEF Books
<1>9. CASE c # d
  <2>1. wrote'[Peer(e)][c] = wrote[Peer(e)][c]
    BY <1>1, <1>9, LocalTypes, PeerFacts
  <2>2. \A y \in End, t \in Counted : Underway(y, c, t)' = Underway(y, c, t)
    <3>. SUFFICES ASSUME NEW y \in End, NEW t \in Counted PROVE Underway(y, c, t)' = Underway(y, c, t)
      OBVIOUS
    <3>1. y = x \/ y = Peer(x)
      BY PeerFacts DEF End
    <3>2. Underway(x, c, t) \in Nat /\ Underway(Peer(x), c, t) \in Nat
      BY FlowTypes, PeerFacts DEF IInv
    <3>. QED BY <1>7, <1>9, <3>1, <3>2
  <2>3. /\ Underway(Peer(e), c, "DATA")' = Underway(Peer(e), c, "DATA")
        /\ Underway(e, c, "WINDOW")' = Underway(e, c, "WINDOW")
    BY <2>2, PeerFacts DEF Counted
  <2>. QED BY <1>1, <1>4, <1>5, <1>8, <2>1, <2>3, StillBalances
<1>10. CASE c = d /\ e = x
  <2>1. wrote'[Peer(e)][c] = wrote[Peer(e)][c]
    BY <1>1, <1>10, LocalTypes, PeerFacts
  <2>2. Underway(Peer(e), c, "DATA")' = Underway(Peer(e), c, "DATA") + 0
        /\ Underway(e, c, "WINDOW") = Underway(e, c, "WINDOW")' + 0
        /\ Underway(e, c, "WINDOW")' \in Nat
    BY <1>7, <1>10 DEF Counted
  <2>3. /\ Underway(Peer(e), c, "DATA")' = Underway(Peer(e), c, "DATA")
        /\ Underway(e, c, "WINDOW")' = Underway(e, c, "WINDOW")
    BY <1>6, <2>2
  <2>. QED BY <1>1, <1>4, <1>5, <1>8, <2>1, <2>3, StillBalances
<1>11. CASE c = d /\ e # x
  <2>0. x = Peer(e) /\ e = Peer(x)
    BY <1>11, PeerFacts DEF End
  <2>1. wrote'[Peer(e)][c] = wrote[Peer(e)][c] + n
    BY <1>1, <1>11, <2>0, LocalTypes, PeerFacts
  <2>2. /\ Underway(Peer(e), c, "DATA") = Underway(Peer(e), c, "DATA")' + n
        /\ Underway(Peer(e), c, "DATA")' \in Nat
        /\ Underway(e, c, "WINDOW")' = Underway(e, c, "WINDOW") + (IF Goes(x, f) THEN n ELSE 0)
    BY <1>7, <1>11, <2>0 DEF Counted
  <2>3. Whole(c) /\ share' = "up" => Goes(x, f)
    BY <1>3, <1>4, <1>11 DEF Goes, Whole
  <2>4. avail'[e][c] = avail[e][c] /\ hold'[e][c] = hold[e][c] /\ read'[e][c] = read[e][c]
        /\ Sending(e, c)' = Sending(e, c)
    BY <1>1 DEF Sending
  <2>5. Carried(e, c)' = Carried(e, c)
    BY <1>2, <1>6, <2>1, <2>2, <2>4 DEF Carried
  <2>6. CASE Goes(x, f)
    <3>1. Window(e, c)' = Window(e, c)
      BY <1>2, <1>6, <2>2, <2>4, <2>6 DEF Window, Sending
    <3>. QED BY <1>4, <1>5, <1>8, <2>4, <2>5, <3>1 DEF Balanced
  <2>7. CASE ~Goes(x, f)
    <3>0. Underway(e, c, "WINDOW")' = Underway(e, c, "WINDOW")
      BY <1>6, <2>2, <2>7
    <3>1. Window(e, c)' <= InitialWindow
      BY <1>2, <1>6, <1>8, <2>2, <2>4, <3>0 DEF Balanced, Window, Sending
    <3>2. ~(Whole(c)' /\ share' = "up")
      BY <1>5, <2>3, <2>7
    <3>. QED BY <1>4, <1>5, <1>8, <2>4, <2>5, <3>1, <3>2 DEF Balanced
  <2>. QED BY <2>6, <2>7
<1>. QED BY <1>9, <1>10, <1>11

\* What it could not write is lost, with the stream.
LEMMA LoopFailBalances ==
  ASSUME IInv, TypeOK, Books, NEW x \in End, LoopFails(x), NEW c \in Chans, NEW e \in End
  PROVE  Balanced(e, c)'
<1>. DEFINE d == loop[x].chan
<1>1. /\ UNCHANGED <<avail, pump, hold, queue, read, wrote>>
      /\ loop' = [loop EXCEPT ![x] = Idle] /\ CloseTelling(x, d) /\ loop[x] # Idle
  BY DEF LoopFails, logVars
<1>2. d \in Chans /\ loop[x] \in Wire /\ loop \in [End -> {Idle} \cup Frames]
  <2>1. loop[x] \in [type : {"DATA"}, chan : Chans, n : Nat]
    BY <1>1 DEF IInv, Domains
  <2>. QED BY <2>1, LocalTypes DEF Wire
<1>3. c # d => \A t \in Counted : Size(loop[x], c, t) = 0
  BY <1>2, SizeFacts
<1>. HIDE DEF d
<1>4. \A y \in End, t \in Counted : Between(y, c, t)' = Between(y, c, t)
  BY <1>1, <1>2, CloseFlow DEF IInv
<1>5. ASSUME NEW y \in End, NEW t \in Counted
      PROVE  /\ Underway(y, c, t)' \in Nat /\ Underway(y, c, t)' <= Underway(y, c, t)
             /\ c # d => Underway(y, c, t)' = Underway(y, c, t)
  <2>1. /\ Between(y, c, t) \in Nat /\ Size(loop[y], c, t) \in Nat
    BY FlowTypes DEF IInv
  <2>2. loop'[y] = loop[y] \/ (y = x /\ Size(loop'[y], c, t) = 0)
    BY <1>1, <1>2, SizeFacts
  <2>3. /\ Underway(y, c, t)' = Between(y, c, t) + Size(loop'[y], c, t)
        /\ Underway(y, c, t) = Between(y, c, t) + Size(loop[y], c, t)
    BY <1>4 DEF Underway
  <2>. QED BY <1>3, <2>1, <2>2, <2>3
<1>6. /\ Whole(c)' => Whole(c) /\ c # d
      /\ share' = "up" => share = "up"
  <2>1. /\ listed' = [listed EXCEPT ![x] = @ \ {d}]
        /\ routed' = IF x = "guest" /\ d \in listed[x] THEN routed \ {d} ELSE routed
        /\ share' = "up" => share = "up"
    BY <1>1, <1>2, CloseDoes
  <2>2. d \notin listed'[x] /\ \A y \in End : listed'[y] \subseteq listed[y]
    BY <2>1, LocalTypes
  <2>3. \A y \in End : y \in {"guest", "host"}
    BY DEF End
  <2>4. Whole(c)' => c \in listed'["guest"] /\ c \in listed'["host"] /\ c \in routed'
    BY DEF Whole
  <2>. QED BY <2>1, <2>2, <2>3, <2>4 DEF Whole, End
<1>7. Balanced(e, c)
  BY DEF Books
<1>8. /\ Underway(Peer(e), c, "DATA")' \in Nat /\ Underway(e, c, "WINDOW")' \in Nat
      /\ Underway(Peer(e), c, "DATA")' <= Underway(Peer(e), c, "DATA")
      /\ Underway(e, c, "WINDOW")' <= Underway(e, c, "WINDOW")
      /\ c # d => /\ Underway(Peer(e), c, "DATA")' = Underway(Peer(e), c, "DATA")
                  /\ Underway(e, c, "WINDOW")' = Underway(e, c, "WINDOW")
  BY <1>5, PeerFacts DEF Counted
<1>. QED BY <1>1, <1>6, <1>7, <1>8, LossesBalance

\* A frame passes from the wire to the loop, or to the credit.
LEMMA HandleBalances ==
  ASSUME IInv, TypeOK, Books, NEW x \in End, NEW f \in Wire, Handle(x, f), loop[x] = Idle,
         UNCHANGED <<hold, routed, share, read, wrote>>,
         f.type = "OPEN" /\ x = "host" => pump["host"][f.chan] = "none",
         NEW c \in Chans,
         \A t \in Counted : /\ Between(x, c, t) = Between(x, c, t)' + Size(f, c, t)
                            /\ Between(x, c, t)' \in Nat
                            /\ Between(Peer(x), c, t)' = Between(Peer(x), c, t),
         NEW e \in End
  PROVE  Balanced(e, c)'
<1>. DEFINE known == f.chan \in listed[x]
<1>1. /\ pump' = IF f.type = "OPEN" /\ x = "host" THEN [pump EXCEPT ![x][f.chan] = "opening"] ELSE pump
      /\ listed' = IF f.type \in Closing THEN [listed EXCEPT ![x] = @ \ {f.chan}] ELSE listed
      /\ loop' = IF f.type = "DATA" /\ known THEN [loop EXCEPT ![x] = f] ELSE loop
      /\ avail' = IF f.type = "WINDOW" /\ known THEN [avail EXCEPT ![x][f.chan] = @ + f.n] ELSE avail
  BY HandleDoes
<1>2. pump'[e][c] = "sending" <=> pump[e][c] = "sending"
  BY <1>1, LocalTypes
<1>3. (Whole(c)' => Whole(c)) /\ share' = share
  BY <1>1, LocalTypes DEF Whole
<1>4. /\ UNCHANGED <<wrote[Peer(e)][c], hold[e][c], read[e][c]>> /\ Balanced(e, c)
  BY DEF Books
<1>5. /\ avail[e][c] \in Nat /\ wrote[Peer(e)][c] \in Nat /\ hold[e][c] \in Nat /\ read[e][c] \in Nat
      /\ Sending(e, c) \in Nat /\ InitialWindow \in Nat
      /\ Underway(Peer(e), c, "DATA") \in Nat /\ Underway(e, c, "WINDOW") \in Nat
  BY BookTypes
<1>6. ASSUME NEW t \in Counted
      PROVE  /\ Underway(Peer(x), c, t)' = Underway(Peer(x), c, t)
             /\ Underway(x, c, t) = Between(x, c, t)' + Size(f, c, t)
             /\ Underway(x, c, t)' = Between(x, c, t)' + (IF f.type = "DATA" /\ known THEN Size(f, c, t) ELSE 0)
             /\ Between(x, c, t)' \in Nat /\ Size(f, c, t) \in Nat
             /\ f.type # t \/ f.chan # c => Size(f, c, t) = 0
             /\ f.type = t /\ f.chan = c => Size(f, c, t) = f.n
  <2>1. /\ f.type # t \/ f.chan # c => Size(f, c, t) = 0
        /\ f.type = t /\ f.chan = c => Size(f, c, t) = f.n
        /\ Size(f, c, t) \in Nat /\ Size(Idle, c, t) = 0
    BY SizeFacts
  <2>2. loop'[Peer(x)] = loop[Peer(x)]
    BY <1>1, LocalTypes, PeerFacts
  <2>3. Underway(Peer(x), c, t)' = Underway(Peer(x), c, t)
    BY <2>2 DEF Underway
  <2>4. /\ Underway(x, c, t) = Between(x, c, t) + Size(loop[x], c, t)
        /\ Underway(x, c, t)' = Between(x, c, t)' + Size(loop'[x], c, t)
    BY DEF Underway
  <2>5. loop'[x] = IF f.type = "DATA" /\ known THEN f ELSE Idle
    BY <1>1, LocalTypes
  <2>6. /\ Between(x, c, t) = Between(x, c, t)' + Size(f, c, t) /\ Between(x, c, t)' \in Nat
    OBVIOUS
  <2>7. Underway(x, c, t) = Between(x, c, t)' + Size(f, c, t)
    BY <2>1, <2>4, <2>6
  <2>8. Underway(x, c, t)' = Between(x, c, t)' + (IF f.type = "DATA" /\ known THEN Size(f, c, t) ELSE 0)
    BY <2>1, <2>4, <2>5
  <2>. QED BY <2>1, <2>3, <2>6, <2>7, <2>8
<1>7. Whole(c)' => c \in listed[x]
  BY <1>3 DEF Whole, End
<1>8. CASE e = x
  <2>1. Underway(Peer(e), c, "DATA")' = Underway(Peer(e), c, "DATA")
    BY <1>6, <1>8 DEF Counted
  <2>2. CASE ~(f.type = "WINDOW" /\ known /\ f.chan = c)
    <3>1. avail'[e][c] = avail[e][c]
      BY <1>1, <1>8, <2>2, LocalTypes
    <3>2. /\ Underway(e, c, "WINDOW")' \in Nat /\ Underway(e, c, "WINDOW")' <= Underway(e, c, "WINDOW")
          /\ Whole(c)' => Underway(e, c, "WINDOW")' = Underway(e, c, "WINDOW")
      <4>. DEFINE B == Between(x, c, "WINDOW")'
                  S == Size(f, c, "WINDOW")
      <4>1. /\ Underway(x, c, "WINDOW") = B + S
            /\ Underway(x, c, "WINDOW")' = B + (IF f.type = "DATA" /\ known THEN S ELSE 0)
            /\ B \in Nat /\ S \in Nat /\ (f.type # "WINDOW" \/ f.chan # c => S = 0)
        BY <1>6 DEF Counted
      <4>. HIDE DEF B, S
      <4>2. Whole(c)' => S = 0
        BY <1>7, <2>2, <4>1
      <4>. QED BY <1>8, <4>1, <4>2
    <3>. QED BY <1>2, <1>3, <1>4, <1>5, <2>1, <3>1, <3>2, LossesBalance
  <2>3. CASE f.type = "WINDOW" /\ known /\ f.chan = c
    <3>0. f.n \in Nat
      BY <2>3 DEF Wire
    <3>1. avail'[e][c] = avail[e][c] + f.n
      BY <1>1, <1>8, <2>3, LocalTypes
    <3>2. Underway(e, c, "WINDOW") = Underway(e, c, "WINDOW")' + f.n /\ Underway(e, c, "WINDOW")' \in Nat
      BY <1>6, <1>8, <2>3, <3>0 DEF Counted
    <3>3. Sending(e, c)' = Sending(e, c)
      BY <1>2, <1>4 DEF Sending
    <3>4. Window(e, c)' = Window(e, c)
      BY <1>5, <2>1, <3>0, <3>1, <3>2, <3>3 DEF Window, Sending
    <3>5. Carried(e, c)' = Carried(e, c)
      BY <1>4, <2>1 DEF Carried
    <3>. QED BY <1>3, <1>4, <3>4, <3>5 DEF Balanced
  <2>. QED BY <2>2, <2>3
<1>9. CASE e # x
  <2>0. x = Peer(e) /\ e = Peer(x)
    BY <1>9, PeerFacts DEF End
  <2>1. Underway(e, c, "WINDOW")' = Underway(e, c, "WINDOW")
    BY <1>6, <2>0 DEF Counted
  <2>2. avail'[e][c] = avail[e][c]
    BY <1>1, <1>9, LocalTypes
  <2>3. /\ Underway(x, c, "DATA")' \in Nat /\ Underway(x, c, "DATA")' <= Underway(x, c, "DATA")
        /\ Whole(c)' => Underway(x, c, "DATA")' = Underway(x, c, "DATA")
    <3>. DEFINE B == Between(x, c, "DATA")'
                S == Size(f, c, "DATA")
    <3>1. /\ Underway(x, c, "DATA") = B + S
          /\ Underway(x, c, "DATA")' = B + (IF f.type = "DATA" /\ known THEN S ELSE 0)
          /\ B \in Nat /\ S \in Nat /\ (f.type # "DATA" \/ f.chan # c => S = 0)
      BY <1>6 DEF Counted
    <3>. HIDE DEF B, S
    <3>2. Whole(c)' => S = 0 \/ (f.type = "DATA" /\ known)
      BY <1>7, <3>1
    <3>. QED BY <3>1, <3>2
  <2>4. Whole(c)' => Underway(Peer(e), c, "DATA")' = Underway(Peer(e), c, "DATA")
    BY <2>0, <2>3
  <2>. QED BY <1>2, <1>3, <1>4, <1>5, <2>0, <2>1, <2>2, <2>3, LossesBalance
<1>. QED BY <1>8, <1>9

\* Both ends take frames so.
LEMMA TakesBalance ==
  ASSUME IInv, TypeOK, Books, HostTakes \/ \E d \in Chans : GuestTakes(d), NEW c \in Chans, NEW e \in End
  PROVE  Balanced(e, c)'
<1>1. CASE HostTakes
  <2>. DEFINE f == Head(hostIn)
  <2>1. /\ Handle("host", f) /\ loop["host"] = Idle /\ hostIn # <<>> /\ hostIn' = Tail(hostIn)
        /\ UNCHANGED <<hold, routed, share, read, wrote, hostOut, queue>>
    BY <1>1 DEF HostTakes
  <2>2. hostIn \in Seq(Wire) /\ Tail(hostIn) \in Seq(Wire)
    BY <2>1, TailElements DEF IInv, Domains
  <2>3. f \in Wire /\ (f.type = "OPEN" => pump["host"][f.chan] = "none")
    BY <2>1, <2>2, TailElements DEF IInv, OpenIsFirst
  <2>4. ASSUME NEW t \in Counted
        PROVE  /\ Between("host", c, t) = Between("host", c, t)' + Size(f, c, t)
               /\ Between("host", c, t)' \in Nat
               /\ Between(Peer("host"), c, t)' = Between(Peer("host"), c, t)
    <3>1. Bytes(Tail(hostIn), c, t) \in Nat
      BY <2>2, BytesType DEF Counted
    <3>2. Between("host", c, t)' \in Nat
      BY <2>1, <3>1 DEF Between
    <3>. QED BY <2>1, <3>2, TakesFlow, PeerFacts DEF IInv
  <2>. HIDE DEF f
  <2>. QED BY <2>1, <2>3, <2>4, HandleBalances DEF End
<1>2. ASSUME NEW d \in Chans, GuestTakes(d) PROVE Balanced(e, c)'
  <2>. DEFINE f == Head(queue[d])
  <2>1. /\ Handle("guest", f) /\ loop["guest"] = Idle /\ queue[d] # <<>> /\ queue' = [queue EXCEPT ![d] = Tail(@)]
        /\ UNCHANGED <<hold, routed, share, read, wrote, hostOut, hostIn>>
    BY <1>2 DEF GuestTakes
  <2>2. queue[d] \in Seq(Wire) /\ Tail(queue[d]) \in Seq(Wire) /\ queue[c] \in Seq(Wire) /\ hostOut \in Seq(Wire)
    BY <2>1, TailElements DEF IInv, Domains
  <2>3. f \in Wire
    BY <2>1, <2>2, TailElements
  <2>4. ASSUME NEW t \in Counted
        PROVE  /\ Between("guest", c, t) = Between("guest", c, t)' + Size(f, c, t)
               /\ Between("guest", c, t)' \in Nat
               /\ Between(Peer("guest"), c, t)' = Between(Peer("guest"), c, t)
    <3>0. queue'[c] \in Seq(Wire)
      BY <2>1, <2>2 DEF IInv, Domains
    <3>1. Bytes(queue'[c], c, t) \in Nat /\ Bytes(hostOut', c, t) \in Nat
      BY <2>1, <2>2, <3>0, BytesType DEF Counted
    <3>2. Between("guest", c, t)' \in Nat
      BY <3>1 DEF Between
    <3>3. Domains
      BY DEF IInv
    <3>4. /\ Between("guest", c, t) = Between("guest", c, t)' + Size(Head(queue[d]), c, t)
          /\ Between("host", c, t)' = Between("host", c, t)
      BY <2>1, <3>3, GuestTakesFlow
    <3>. QED BY <3>2, <3>4, PeerFacts
  <2>. HIDE DEF f
  <2>. QED BY <2>1, <2>3, <2>4, HandleBalances DEF End
<1>. QED BY <1>1, <1>2

\* The relay loses nothing of a stream that stays whole.
LEMMA RouteBalances ==
  ASSUME IInv, TypeOK, Books, RelayRoutes, NEW c \in Chans, NEW e \in End
  PROVE  Balanced(e, c)'
<1>1. UNCHANGED <<listed, avail, pump, hold, loop, share, read, wrote>> /\ [Next]_vars /\ ~HostDialled(c)
  <2>1. UNCHANGED <<listed, avail, pump, hold, loop, share, read, wrote>>
    BY DEF RelayRoutes, endVars
  <2>2. ~HostDialled(c)
    <3>. SUFFICES ASSUME HostDialled(c) PROVE FALSE
      OBVIOUS
    <3>1. pump["host"][c] = "opening" /\ \E p \in {"reading", "ended"} : pump' = [pump EXCEPT !["host"][c] = p]
      BY DialDoes
    <3>. QED BY <2>1, <3>1, LocalTypes
  <2>. QED BY <2>1, <2>2 DEF Next
<1>2. ASSUME NEW x \in End, NEW t \in Counted
      PROVE  /\ Underway(x, c, t)' \in Nat /\ Underway(x, c, t)' <= Underway(x, c, t)
             /\ c \in routed' => Underway(x, c, t)' = Underway(x, c, t)
  <2>1. /\ Between(x, c, t)' <= Between(x, c, t)
        /\ c \in routed' => Between(x, c, t)' = Between(x, c, t)
    <3>1. Between("host", c, t) \in Nat
      BY FlowTypes DEF IInv, End
    <3>. QED BY <3>1, RouteFlow DEF IInv, End
  <2>2. /\ Between(x, c, t) \in Nat /\ Size(loop[x], c, t) \in Nat
    BY FlowTypes DEF IInv
  <2>3. Between(x, c, t)' \in Nat
    <3>1. Domains'
      BY <1>1, DomainsKept DEF IInv
    <3>2. hostIn' \in Seq(Wire) /\ hostOut' \in Seq(Wire) /\ queue'[c] \in Seq(Wire)
      BY <3>1 DEF Domains
    <3>3. Bytes(hostIn', c, t) \in Nat /\ Bytes(hostOut', c, t) \in Nat /\ Bytes(queue'[c], c, t) \in Nat
      BY <3>2, BytesType DEF Counted
    <3>. QED BY <3>3 DEF Between
  <2>4. /\ Underway(x, c, t)' = Between(x, c, t)' + Size(loop[x], c, t)
        /\ Underway(x, c, t) = Between(x, c, t) + Size(loop[x], c, t)
    BY <1>1 DEF Underway
  <2>. QED BY <2>1, <2>2, <2>3, <2>4
<1>3. /\ Underway(Peer(e), c, "DATA")' \in Nat /\ Underway(e, c, "WINDOW")' \in Nat
      /\ Underway(Peer(e), c, "DATA")' <= Underway(Peer(e), c, "DATA")
      /\ Underway(e, c, "WINDOW")' <= Underway(e, c, "WINDOW")
      /\ c \in routed' => /\ Underway(Peer(e), c, "DATA")' = Underway(Peer(e), c, "DATA")
                          /\ Underway(e, c, "WINDOW")' = Underway(e, c, "WINDOW")
  BY <1>2, PeerFacts DEF Counted
<1>4. (Whole(c)' => Whole(c) /\ c \in routed') /\ (share' = "up" => share = "up")
  BY <1>1, WholeStays DEF Whole
<1>5. Balanced(e, c)
  BY DEF Books
<1>. QED BY <1>1, <1>3, <1>4, <1>5, LossesBalance

\* The rest moves no bytes.
LEMMA RestBalances ==
  ASSUME IInv, TypeOK, Books, NEW c \in Chans,
         \/ \E d \in Chans : GuestAnswered(d)
         \/ \E x \in End, d \in Chans : PumpMeetsEOF(x, d) \/ PumpEnds(x, d)
         \/ GuestCloses \/ GuestLeaves \/ ShareEnds \/ UNCHANGED vars
  PROVE  \A e \in End : Balanced(e, c)'
<1>1. Domains
  BY DEF IInv
<1>2. ASSUME UNCHANGED <<avail, wrote, hold, read, loop>>, [Next]_vars,
             pump' = pump \/ \E x \in End, d \in Chans :
               /\ pump[x][d] \in {"opening", "reading", "waiting"}
               /\ pump' = [pump EXCEPT ![x][d] = "ended"] \/ pump' = [pump EXCEPT ![x][d] = "reading"]
               /\ x = "host" => pump[x][d] # "opening",
             \A e \in End, t \in Counted : Between(e, c, t)' = Between(e, c, t)
      PROVE  \A e \in End : Balanced(e, c)'
  <2>0. \A e \in End : /\ pump'[e][c] = "sending" <=> pump[e][c] = "sending"
                       /\ e = "host" /\ pump[e][c] = "opening" => pump'[e][c] = "opening"
    <3>1. CASE pump' = pump
      BY <3>1
    <3>2. ASSUME NEW x \in End, NEW d \in Chans, NEW p \in {"ended", "reading"},
                 pump[x][d] \in {"opening", "reading", "waiting"}, x = "host" => pump[x][d] # "opening",
                 pump' = [pump EXCEPT ![x][d] = p], NEW e \in End
          PROVE  /\ pump'[e][c] = "sending" <=> pump[e][c] = "sending"
                 /\ e = "host" /\ pump[e][c] = "opening" => pump'[e][c] = "opening"
      <4>1. CASE e = x /\ c = d
        BY <3>2, <4>1, LocalTypes
      <4>2. CASE ~(e = x /\ c = d)
        <5>1. pump'[e][c] = pump[e][c]
          BY <3>2, <4>2, LocalTypes
        <5>. QED BY <5>1
      <4>. QED BY <4>1, <4>2
    <3>. QED BY <1>2, <3>1, <3>2
  <2>1. \A e \in End : pump'[e][c] = "sending" <=> pump[e][c] = "sending"
    BY <2>0
  <2>2. ~HostDialled(c)
    <3>. SUFFICES ASSUME HostDialled(c) PROVE FALSE
      OBVIOUS
    <3>1. pump["host"][c] = "opening" /\ pump'["host"][c] \in {"reading", "ended"}
      BY DialDoes, LocalTypes
    <3>2. "host" \in End
      BY LocalTypes
    <3>. QED BY <2>0, <3>1, <3>2
  <2>. QED BY <1>2, <2>1, <2>2, IdleBalances
<1>3. ASSUME NEW d \in Chans, GuestAnswered(d) PROVE \A e \in End : Balanced(e, c)'
  <2>1. /\ UNCHANGED <<avail, wrote, hold, read, loop, queue>> /\ pump["guest"][d] = "opening"
        /\ \/ pump' = [pump EXCEPT !["guest"][d] = "ended"] /\ CloseTelling("guest", d)
           \/ pump' = [pump EXCEPT !["guest"][d] = "reading"] /\ SendsNothing
    BY <1>3 DEF GuestAnswered, logVars
  <2>2. \A e \in End, t \in Counted : Between(e, c, t)' = Between(e, c, t)
    BY <1>1, QuietFlow, <1>3
  <2>3. [Next]_vars /\ "guest" \in End /\ "guest" # "host"
    BY <1>3, LocalTypes DEF Next
  <2>4. \E x \in End, y \in Chans :
               /\ pump[x][y] \in {"opening", "reading", "waiting"}
               /\ pump' = [pump EXCEPT ![x][y] = "ended"] \/ pump' = [pump EXCEPT ![x][y] = "reading"]
               /\ x = "host" => pump[x][y] # "opening"
    BY <2>1, <2>3
  <2>. QED BY <1>2, <2>1, <2>2, <2>3, <2>4
<1>4. ASSUME NEW x \in End, NEW d \in Chans, PumpMeetsEOF(x, d) \/ PumpEnds(x, d)
      PROVE  \A e \in End : Balanced(e, c)'
  <2>1. /\ UNCHANGED <<avail, wrote, hold, read, loop, queue>> /\ pump[x][d] \in {"reading", "waiting"}
        /\ pump' = [pump EXCEPT ![x][d] = "ended"]
        /\ CloseTelling(x, d) \/ (hostIn' = hostIn /\ hostOut' = hostOut)
    BY <1>4 DEF PumpMeetsEOF, PumpEnds, wireVars, logVars
  <2>2. \A e \in End, t \in Counted : Between(e, c, t)' = Between(e, c, t)
    BY <1>1, QuietFlow, <1>4
  <2>3. [Next]_vars
    BY <1>4 DEF Next, Pump, Runs
  <2>. QED BY <1>2, <2>1, <2>2, <2>3
<1>5. ASSUME GuestCloses \/ GuestLeaves \/ ShareEnds \/ UNCHANGED vars
      PROVE  \A e \in End : Balanced(e, c)'
  <2>1. /\ UNCHANGED <<avail, wrote, hold, read, loop, queue, hostOut, pump>>
        /\ ForgetGuest \/ hostIn' = hostIn
    BY <1>5 DEF GuestCloses, GuestLeaves, ShareEnds, vars, endVars, wireVars, logVars
  <2>2. \A e \in End, t \in Counted : Between(e, c, t)' = Between(e, c, t)
    BY <1>1, QuietFlow, <1>5
  <2>3. [Next]_vars
    BY <1>5 DEF Next
  <2>. QED BY <1>2, <2>1, <2>2, <2>3
<1>. QED BY <1>3, <1>4, <1>5

\* So the books balance after every step.
LEMMA BooksKept ==
  ASSUME IInv, TypeOK, Depths, Fresh, Books, [Next]_vars
  PROVE  Books'
<1>. SUFFICES ASSUME NEW e \in End, NEW c \in Chans PROVE Balanced(e, c)'
  BY DEF Books
<1>1. CASE GuestAccepts
  BY <1>1, AcceptBalances
<1>2. CASE HostTakes \/ \E d \in Chans : GuestTakes(d)
  BY <1>2, TakesBalance
<1>3. CASE RelayRoutes
  BY <1>3, RouteBalances
<1>4. ASSUME NEW d \in Chans, HostDialled(d) PROVE Balanced(e, c)'
  BY <1>4, DialBalances
<1>5. ASSUME NEW x \in End, Loop(x) PROVE Balanced(e, c)'
  BY <1>5, LoopWriteBalances, LoopFailBalances DEF Loop
<1>6. ASSUME NEW x \in End, NEW d \in Chans, PumpReads(x, d) \/ PumpReserves(x, d) \/ PumpSends(x, d)
      PROVE  Balanced(e, c)'
  BY <1>6, PumpReadBalances, PumpSendBalances
<1>7. CASE \/ \E d \in Chans : GuestAnswered(d)
           \/ \E x \in End, d \in Chans : PumpMeetsEOF(x, d) \/ PumpEnds(x, d)
           \/ GuestCloses \/ GuestLeaves \/ ShareEnds \/ UNCHANGED vars
  BY <1>7, RestBalances
<1>. QED BY <1>1, <1>2, <1>3, <1>4, <1>5, <1>6, <1>7 DEF Next, Pump, Runs

-----------------------------------------------------------------------------
(* The depths of the queues, and the domains. *)

\* The relay's own CLOSE is the one frame beyond a queue's depth.
LEMMA QueueDepthsKept ==
  ASSUME IInv, TypeOK, Depths, Fresh, [Next]_vars, NEW c \in Chans
  PROVE  /\ Len(queue'[c]) <= QueueDepth + 1
         /\ c \in routed' => Len(queue'[c]) <= QueueDepth
<1>1. QueueStep
  BY WireSteps
<1>2. /\ queue \in [Chans -> Seq(Frames)] /\ queue[c] \in Seq(Frames) /\ Len(queue[c]) \in Nat
      /\ Len(queue[c]) <= QueueDepth + 1 /\ QueueDepth \in Nat
      /\ c \in routed => Len(queue[c]) <= QueueDepth
  BY EndsAssumption DEF TypeOK, Depths
<1>3. c \notin routed /\ c \in routed' => queue[c] = <<>>
  BY StaysUnrouted
<1>4. CASE queue'[c] = queue[c]
  BY <1>2, <1>3, <1>4
<1>5. CASE queue[c] # <<>> /\ queue'[c] = Tail(queue[c])
  <2>1. Len(queue'[c]) = Len(queue[c]) - 1
    BY <1>2, <1>5
  <2>. QED BY <1>2, <1>3, <1>5, <2>1
<1>6. ASSUME NEW f \in Frames, queue'[c] = Append(queue[c], f), c \in routed,
             c \in routed' => Fits(c)
      PROVE  /\ Len(queue'[c]) <= QueueDepth + 1
             /\ c \in routed' => Len(queue'[c]) <= QueueDepth
  <2>1. Len(queue'[c]) = Len(queue[c]) + 1
    BY <1>2, <1>6
  <2>. QED BY <1>2, <1>6, <2>1 DEF Fits
<1>. QED BY <1>1, <1>2, <1>4, <1>5, <1>6 DEF QueueStep

Held(e, c) ==
  /\ pump[e][c] \in {"none", "opening", "reading"} => hold[e][c] = 0
  /\ pump[e][c] \in {"waiting", "sending"} => hold[e][c] \in Chunks

\* A pump passes to its next place, and holds nothing unless it read it.
PumpStep(e, c) ==
  \/ pump'[e][c] = pump[e][c] /\ hold'[e][c] = hold[e][c]
  \/ /\ pump[e][c] \in {"none", "opening"} /\ hold'[e][c] = hold[e][c]
     /\ pump'[e][c] \in {"opening", "reading", "ended"}
  \/ pump[e][c] = "reading" /\ pump'[e][c] = "waiting" /\ hold'[e][c] \in Chunks
  \/ pump[e][c] = "waiting" /\ pump'[e][c] = "sending" /\ hold'[e][c] = hold[e][c]
  \/ pump[e][c] = "sending" /\ pump'[e][c] = "reading" /\ hold'[e][c] = 0
  \/ /\ pump[e][c] \in {"reading", "waiting"} /\ pump'[e][c] = "ended" /\ hold'[e][c] = hold[e][c]

\* Every step moves a pump so, or not.
LEMMA PumpsStep ==
  ASSUME IInv, TypeOK, Fresh, [Next]_vars, NEW e \in End, NEW c \in Chans
  PROVE  PumpStep(e, c)
<1>. USE DEF PumpStep
<1>0. hold \in [End -> [Chans -> Nat]]
  BY DEF IInv, Domains
<1>1. CASE UNCHANGED <<pump, hold>>
  BY <1>1
<1>2. ASSUME GuestAccepts PROVE PumpStep(e, c)
  <2>1. pump' = [pump EXCEPT !["guest"][nextChan + 1] = "opening"] /\ hold' = hold
    BY <1>2 DEF GuestAccepts
  <2>2. c = nextChan + 1 => pump["guest"][c] \in {"none", "opening"}
    <3>1. c = nextChan + 1 => pump["host"][c] = "none"
      BY LocalTypes DEF IInv, NumbersUsed
    <3>. QED BY <3>1 DEF Fresh
  <2>. QED BY <2>1, <2>2, LocalTypes
<1>3. ASSUME NEW x \in End, NEW d \in Chans, NEW p, pump' = [pump EXCEPT ![x][d] = p], hold' = hold,
             \/ pump[x][d] = "opening" /\ p \in {"reading", "ended"}
             \/ pump[x][d] \in {"reading", "waiting"} /\ p = "ended"
             \/ pump[x][d] = "waiting" /\ p = "sending"
      PROVE  PumpStep(e, c)
  <2>1. CASE e = x /\ c = d
    BY <1>3, <2>1, LocalTypes
  <2>2. CASE ~(e = x /\ c = d)
    BY <1>3, <2>2, LocalTypes
  <2>. QED BY <2>1, <2>2
<1>4. ASSUME NEW d \in Chans, GuestAnswered(d) PROVE PumpStep(e, c)
  <2>1. "guest" \in End /\ \E p \in {"reading", "ended"} : pump' = [pump EXCEPT !["guest"][d] = p]
        /\ hold' = hold /\ pump["guest"][d] = "opening"
    BY <1>4, LocalTypes DEF GuestAnswered
  <2>. QED BY <1>3, <2>1
<1>5. ASSUME NEW d \in Chans, HostDialled(d) PROVE PumpStep(e, c)
  <2>1. "host" \in End /\ \E p \in {"reading", "ended"} : pump' = [pump EXCEPT !["host"][d] = p]
        /\ hold' = hold /\ pump["host"][d] = "opening"
    BY <1>5, LocalTypes DEF HostDialled
  <2>. QED BY <1>3, <2>1
<1>6. ASSUME NEW x \in End, NEW d \in Chans, PumpReserves(x, d) \/ PumpMeetsEOF(x, d) \/ PumpEnds(x, d)
      PROVE  PumpStep(e, c)
  BY <1>3, <1>6 DEF PumpReserves, PumpMeetsEOF, PumpEnds
<1>7. ASSUME NEW x \in End, NEW d \in Chans, PumpReads(x, d) PROVE PumpStep(e, c)
  <2>1. PICK n \in Chunks : /\ pump' = [pump EXCEPT ![x][d] = "waiting"] /\ pump[x][d] = "reading"
                            /\ hold' = [hold EXCEPT ![x][d] = n]
    BY <1>7 DEF PumpReads
  <2>2. CASE e = x /\ c = d
    BY <1>0, <2>1, <2>2, LocalTypes
  <2>3. CASE ~(e = x /\ c = d)
    BY <1>0, <2>1, <2>3, LocalTypes
  <2>. QED BY <2>2, <2>3
<1>8. ASSUME NEW x \in End, NEW d \in Chans, PumpSends(x, d) PROVE PumpStep(e, c)
  <2>1. /\ pump' = [pump EXCEPT ![x][d] = "reading"] /\ pump[x][d] = "sending"
        /\ hold' = [hold EXCEPT ![x][d] = 0]
    BY <1>8 DEF PumpSends
  <2>2. CASE e = x /\ c = d
    BY <1>0, <2>1, <2>2, LocalTypes
  <2>3. CASE ~(e = x /\ c = d)
    BY <1>0, <2>1, <2>3, LocalTypes
  <2>. QED BY <2>2, <2>3
<1>9. ASSUME HostTakes PROVE PumpStep(e, c)
  <2>. DEFINE f == Head(hostIn)
  <2>1. f \in Wire /\ f = hostIn[1] /\ 1 \in DOMAIN hostIn
    BY <1>9, TailElements DEF HostTakes, IInv, Domains
  <2>2. Handle("host", f) /\ hold' = hold
    BY <1>9 DEF HostTakes
  <2>3. f.type = "OPEN" => pump["host"][f.chan] = "none"
    BY <2>1 DEF IInv, OpenIsFirst
  <2>. HIDE DEF f
  <2>4. pump' = IF f.type = "OPEN" THEN [pump EXCEPT !["host"][f.chan] = "opening"] ELSE pump
    BY <2>1, <2>2, LocalTypes, HandleDoes
  <2>. QED BY <2>2, <2>3, <2>4, LocalTypes
<1>10. ASSUME NEW d \in Chans, GuestTakes(d) PROVE PumpStep(e, c)
  <2>1. Head(queue[d]) \in Wire /\ Handle("guest", Head(queue[d])) /\ hold' = hold
    <3>1. queue[d] \in Seq(Wire) /\ queue[d] # <<>>
      BY <1>10 DEF GuestTakes, IInv, Domains
    <3>. QED BY <1>10, <3>1, TailElements DEF GuestTakes
  <2>2. pump' = pump
    BY <2>1, HandleDoes, LocalTypes
  <2>. QED BY <1>1, <2>1, <2>2
<1>11. ASSUME \/ \E x \in End : Loop(x)
              \/ RelayRoutes \/ GuestCloses \/ GuestLeaves \/ ShareEnds \/ UNCHANGED vars
       PROVE  PumpStep(e, c)
  <2>1. UNCHANGED <<pump, hold>>
    BY <1>11 DEF Loop, LoopWrites, LoopFails, RelayRoutes, GuestCloses, GuestLeaves, ShareEnds, vars, endVars
  <2>. QED BY <1>1, <2>1
<1>. HIDE DEF PumpStep
<1>. QED BY <1>2, <1>4, <1>5, <1>6, <1>7, <1>8, <1>9, <1>10, <1>11 DEF Next, Pump, Runs

\* So the depths are kept.
LEMMA DepthsKept ==
  ASSUME IInv, TypeOK, Depths, Fresh, [Next]_vars
  PROVE  Depths'
<1>1. \A c \in routed' : Len(queue'[c]) <= QueueDepth
  <2>1. routed' \subseteq Chans
    BY DomainsKept DEF IInv, Domains
  <2>. QED BY <2>1, QueueDepthsKept
<1>2. ASSUME NEW e \in End, NEW c \in Chans
      PROVE  /\ pump'[e][c] \in {"none", "opening", "reading"} => hold'[e][c] = 0
             /\ pump'[e][c] \in {"waiting", "sending"} => hold'[e][c] \in Chunks
  <2>1. Held(e, c)
    BY DEF Depths, Held
  <2>. QED BY <2>1, PumpsStep DEF PumpStep, Held
<1>. QED BY <1>1, <1>2 DEF Depths

\* The frames on their way, and those in hand.
LEMMA WiresTyped ==
  ASSUME IInv, TypeOK, Depths, [Next]_vars
  PROVE  hostIn' \in Seq(Frames) /\ hostOut' \in Seq(Frames) /\ queue' \in [Chans -> Seq(Frames)]
         /\ Len(hostOut') <= SenderDepth
<1>1. InStep /\ OutStep /\ QueueStep
  BY WireSteps
<1>2. hostIn \in Seq(Frames) /\ hostOut \in Seq(Frames) /\ queue \in [Chans -> Seq(Frames)]
      /\ Len(hostOut) <= SenderDepth /\ SenderDepth \in Nat
  BY EndsAssumption DEF TypeOK
<1>. HIDE DEF Frames
<1>3. hostIn' \in Seq(Frames)
  <2>1. ASSUME hostIn # <<>>, hostIn' = Tail(hostIn) PROVE hostIn' \in Seq(Frames)
    BY <1>2, <2>1
  <2>2. ASSUME NEW f \in Frames, hostIn' = Append(hostIn, f) PROVE hostIn' \in Seq(Frames)
    BY <1>2, <2>2
  <2>3. ASSUME NEW s \in Seq(Frames), hostIn' = hostIn \o s PROVE hostIn' \in Seq(Frames)
    BY <1>2, <2>3
  <2>. QED BY <1>1, <1>2, <2>1, <2>2, <2>3 DEF InStep
<1>4. hostOut' \in Seq(Frames) /\ Len(hostOut') <= SenderDepth
  <2>1. ASSUME hostOut # <<>>, hostOut' = Tail(hostOut)
        PROVE  hostOut' \in Seq(Frames) /\ Len(hostOut') <= SenderDepth
    BY <1>2, <2>1
  <2>2. ASSUME NEW f \in Frames, hostOut' = Append(hostOut, f), Len(hostOut) # SenderDepth
        PROVE  hostOut' \in Seq(Frames) /\ Len(hostOut') <= SenderDepth
    BY <1>2, <2>2
  <2>. QED BY <1>1, <1>2, <2>1, <2>2 DEF OutStep
<1>5. queue' \in [Chans -> Seq(Frames)]
  <2>1. ASSUME NEW c \in Chans, queue[c] # <<>>, queue' = [queue EXCEPT ![c] = Tail(@)]
        PROVE  queue' \in [Chans -> Seq(Frames)]
    BY <1>2, <2>1
  <2>2. ASSUME NEW c \in Chans, NEW f \in Frames, queue' = [queue EXCEPT ![c] = Append(@, f)]
        PROVE  queue' \in [Chans -> Seq(Frames)]
    <3>1. queue[c] \in Seq(Frames)
      BY <1>2
    <3>2. Append(queue[c], f) \in Seq(Frames)
      BY <3>1
    <3>. QED BY <1>2, <2>2, <3>2
  <2>. QED BY <1>1, <1>2, <2>1, <2>2 DEF QueueStep
<1>. QED BY <1>3, <1>4, <1>5

\* The rest of what the ends keep, but for the bounds that follow from the books.
Kept ==
  /\ avail \in [End -> [Chans -> Nat]]
  /\ answer \in [Chans -> {"none", "ok", "refused"}]
  /\ loop \in [End -> {Idle} \cup Frames]
  /\ read \in [End -> [Chans -> Nat]] /\ wrote \in [End -> [Chans -> Nat]]
  /\ \A e \in End, c \in Chans : read[e][c] <= MaxBytes(e)

Logged ==
  /\ guest \in {"up", "closing", "left"} /\ share \in {"up", "failed", "over"}
  /\ eof \in [End -> SUBSET Chans] /\ told \in [End -> SUBSET Chans]
  /\ retired \subseteq Chans /\ dropped \subseteq Chans /\ late \subseteq Chans

\* What a step may do to them.
EndStep ==
  /\ \/ avail' = avail
     \/ \E e \in End, c \in Chans :
          \/ avail' = [avail EXCEPT ![e][c] = InitialWindow]
          \/ avail[e][c] >= hold[e][c] /\ avail' = [avail EXCEPT ![e][c] = @ - hold[e][c]]
          \/ \E n \in Nat : avail' = [avail EXCEPT ![e][c] = @ + n]
  /\ \/ answer' = answer
     \/ \E c \in Chans, a \in {"ok", "refused"} : answer' = [answer EXCEPT ![c] = IF @ = "none" THEN a ELSE @]
  /\ \/ loop' = loop
     \/ \E e \in End, f \in {Idle} \cup Frames : loop' = [loop EXCEPT ![e] = f]
  /\ \/ read' = read
     \/ \E e \in End, c \in Chans, n \in Chunks :
          read[e][c] + n <= MaxBytes(e) /\ read' = [read EXCEPT ![e][c] = @ + n]
  /\ \/ wrote' = wrote
     \/ \E e \in End, c \in Chans, n \in Nat : wrote' = [wrote EXCEPT ![e][c] = @ + n]

LogStep ==
  /\ guest' \in {guest, "closing", "left"} /\ share' \in {share, "failed", "over"}
  /\ eof' = eof \/ \E e \in End, c \in Chans : eof' = [eof EXCEPT ![e] = @ \cup {c}]
  /\ told' = told \/ \E e \in End, c \in Chans : told' = [told EXCEPT ![e] = @ \cup {c}]
  /\ retired' = retired \/ \E c \in Chans : retired' = retired \cup {c}
  /\ dropped' = dropped \/ \E c \in Chans : dropped' = dropped \cup {c}
  /\ late' = late \/ \E c \in Chans : late' = late \cup {c}

\* Frames change the ends that way.
LEMMA HandleEnds ==
  ASSUME TypeOK, NEW e \in End, NEW f \in Frames, Handle(e, f), UNCHANGED <<read, wrote, eof, retired, dropped, guest, share>>
  PROVE  EndStep /\ LogStep
<1>1. /\ loop' = IF f.type = "DATA" /\ f.chan \in listed[e] THEN [loop EXCEPT ![e] = f] ELSE loop
      /\ avail' = IF f.type = "WINDOW" /\ f.chan \in listed[e]
                  THEN [avail EXCEPT ![e][f.chan] = @ + f.n] ELSE avail
      /\ told' = IF f.type \in Closing /\ f.chan \in listed[e]
                 THEN [told EXCEPT ![e] = @ \cup {f.chan}] ELSE told
      /\ \/ answer' = answer
         \/ \E a \in {"ok", "refused"} : answer' = [answer EXCEPT ![f.chan] = IF @ = "none" THEN a ELSE @]
      /\ late' = late \/ late' = late \cup {f.chan}
  BY HandleDoes, FramesFacts
<1>2. f.chan \in Chans /\ (f.type = "WINDOW" => f.n \in Nat)
  <2>1. f.chan \in Chans
    BY FramesFacts, WireFacts
  <2>2. f.type = "WINDOW" => f.n \in Chunks
    BY FramesFacts
  <2>3. Chunks \subseteq Nat
    BY EndsAssumption
  <2>. QED BY <2>1, <2>2, <2>3
<1>3. EndStep
  BY <1>1, <1>2 DEF EndStep
<1>4. LogStep
  BY <1>1, <1>2 DEF LogStep
<1>. QED BY <1>3, <1>4

\* So does every step.
LEMMA EndsStep ==
  ASSUME IInv, TypeOK, Depths, [Next]_vars
  PROVE  EndStep /\ LogStep
<1>1. ASSUME GuestAccepts PROVE EndStep /\ LogStep
  <2>1. nextChan + 1 \in Chans /\ "guest" \in End
    BY <1>1, EndsAssumption, LocalTypes DEF GuestAccepts, Chans
  <2>. QED BY <1>1, <2>1 DEF GuestAccepts, EndStep, LogStep, logVars
<1>2. ASSUME NEW c \in Chans, GuestAnswered(c) PROVE EndStep /\ LogStep
  <2>1. /\ UNCHANGED <<avail, loop, guest, logVars>>
        /\ CloseTelling("guest", c) \/ (SendsNothing /\ answer' = answer)
    BY <1>2 DEF GuestAnswered
  <2>2. share' \in {share, "failed"} /\ (answer' = answer \/ answer' = [answer EXCEPT ![c] = IF @ = "none" THEN "ok" ELSE @])
    BY <2>1, CloseDoes, LocalTypes DEF SendsNothing
  <2>. QED BY <2>1, <2>2 DEF EndStep, LogStep, logVars
<1>3. ASSUME NEW c \in Chans, HostDialled(c) PROVE EndStep /\ LogStep
  <2>1. /\ UNCHANGED <<answer, loop, guest, logVars>> /\ share' \in {share, "failed"} /\ "host" \in End
        /\ avail' = avail \/ avail' = [avail EXCEPT !["host"][c] = InitialWindow]
    BY <1>3, DialDoes, LocalTypes
  <2>. QED BY <2>1 DEF EndStep, LogStep, logVars
<1>4. ASSUME NEW e \in End, NEW c \in Chans, PumpReads(e, c) PROVE EndStep /\ LogStep
  BY <1>4 DEF PumpReads, EndStep, LogStep
<1>5. ASSUME NEW e \in End, NEW c \in Chans, PumpMeetsEOF(e, c) PROVE EndStep /\ LogStep
  <2>1. /\ UNCHANGED <<avail, loop, guest, read, wrote, told, retired, dropped, late>>
        /\ CloseTelling(e, c) /\ eof' = [eof EXCEPT ![e] = @ \cup {c}]
    BY <1>5 DEF PumpMeetsEOF
  <2>2. share' \in {share, "failed"} /\ (answer' = answer \/ answer' = [answer EXCEPT ![c] = IF @ = "none" THEN "ok" ELSE @])
    BY <2>1, CloseDoes
  <2>. QED BY <2>1, <2>2 DEF EndStep, LogStep
<1>6. ASSUME NEW e \in End, NEW c \in Chans, PumpReserves(e, c) \/ PumpEnds(e, c) PROVE EndStep /\ LogStep
  BY <1>6 DEF PumpReserves, PumpEnds, EndStep, LogStep, logVars
<1>7. ASSUME NEW e \in End, NEW c \in Chans, PumpSends(e, c) PROVE EndStep /\ LogStep
  <2>1. /\ UNCHANGED <<avail, answer, loop, guest, logVars>>
        /\ Sends(e, Sized(c, "DATA", hold[e][c]))
    BY <1>7 DEF PumpSends
  <2>2. share' \in {share, "failed"}
    BY <2>1, SendsDoes
  <2>. QED BY <2>1, <2>2 DEF EndStep, LogStep, logVars
<1>8. ASSUME HostTakes PROVE EndStep /\ LogStep
  <2>1. Head(hostIn) \in Frames
    BY <1>8, SeqFacts DEF HostTakes
  <2>. QED BY <1>8, <2>1, HandleEnds, LocalTypes DEF HostTakes
<1>9. ASSUME NEW c \in Chans, GuestTakes(c) PROVE EndStep /\ LogStep
  <2>1. Head(queue[c]) \in Frames
    BY <1>9, SeqFacts DEF GuestTakes
  <2>. QED BY <1>9, <2>1, HandleEnds, LocalTypes DEF GuestTakes
<1>10. ASSUME NEW e \in End, LoopWrites(e) PROVE EndStep /\ LogStep
  <2>1. /\ UNCHANGED <<avail, answer, guest, read, eof, told, retired, dropped, late>>
        /\ loop' = [loop EXCEPT ![e] = Idle] /\ loop[e] # Idle
        /\ wrote' = [wrote EXCEPT ![e][loop[e].chan] = @ + loop[e].n]
        /\ Sends(e, Sized(loop[e].chan, "WINDOW", loop[e].n))
    BY <1>10 DEF LoopWrites, Credits
  <2>2. share' \in {share, "failed"}
    BY <2>1, SendsDoes
  <2>3. loop[e].chan \in Chans /\ loop[e].n \in Nat
    BY <2>1 DEF IInv, Domains
  <2>. QED BY <2>1, <2>2, <2>3 DEF EndStep, LogStep
<1>11. ASSUME NEW e \in End, LoopFails(e) PROVE EndStep /\ LogStep
  <2>1. /\ UNCHANGED <<avail, guest, logVars>> /\ CloseTelling(e, loop[e].chan)
        /\ loop' = [loop EXCEPT ![e] = Idle] /\ loop[e] # Idle
    BY <1>11 DEF LoopFails
  <2>2. loop[e].chan \in Chans
    BY <2>1 DEF IInv, Domains
  <2>3. share' \in {share, "failed"} /\ \E c \in Chans : (answer' = answer \/ answer' = [answer EXCEPT ![c] = IF @ = "none" THEN "ok" ELSE @])
    BY <2>1, <2>2, CloseDoes
  <2>. QED BY <2>1, <2>3 DEF EndStep, LogStep, logVars
<1>12. ASSUME RelayRoutes PROVE EndStep /\ LogStep
  <2>1. /\ UNCHANGED <<endVars, guest, share, read, wrote, eof, told, late>>
        /\ retired' = retired \/ retired' = retired \cup {Head(hostOut).chan}
        /\ dropped' = dropped \/ dropped' = dropped \cup {Head(hostOut).chan}
    BY <1>12 DEF RelayRoutes
  <2>2. Head(hostOut).chan \in Chans
    <3>1. hostOut # <<>>
      BY <1>12 DEF RelayRoutes
    <3>. QED BY <3>1, SeqFacts, TailElements, WireFacts
  <2>. QED BY <2>1, <2>2 DEF EndStep, LogStep, endVars
<1>13. ASSUME GuestCloses \/ GuestLeaves \/ ShareEnds \/ UNCHANGED vars PROVE EndStep /\ LogStep
  BY <1>13 DEF GuestCloses, GuestLeaves, ShareEnds, vars, endVars, logVars, EndStep, LogStep
<1>. QED BY <1>1, <1>2, <1>3, <1>4, <1>5, <1>6, <1>7, <1>8, <1>9, <1>10, <1>11, <1>12, <1>13
         DEF Next, Pump, Runs, Loop

\* So they stay typed.
LEMMA KeptAndLogged ==
  ASSUME IInv, TypeOK, Depths, [Next]_vars
  PROVE  Kept' /\ Logged'
<1>1. EndStep /\ LogStep
  BY EndsStep
<1>2. /\ avail \in [End -> [Chans -> 0..InitialWindow]] /\ InitialWindow \in Nat
      /\ hold \in [End -> [Chans -> Nat]] /\ Chunks \subseteq Nat
  BY LocalTypes, EndsAssumption DEF IInv, Domains
<1>3. avail' \in [End -> [Chans -> Nat]]
  <2>1. avail \in [End -> [Chans -> Nat]]
    BY <1>2
  <2>2. ASSUME NEW e \in End, NEW c \in Chans, avail[e][c] >= hold[e][c], avail' = [avail EXCEPT ![e][c] = @ - hold[e][c]]
        PROVE  avail' \in [End -> [Chans -> Nat]]
    <3>1. avail[e][c] - hold[e][c] \in Nat
      BY <1>2, <2>1, <2>2
    <3>. QED BY <2>1, <2>2, <3>1
  <2>3. ASSUME NEW e \in End, NEW c \in Chans, NEW n \in Nat,
               avail' = [avail EXCEPT ![e][c] = @ + n] \/ avail' = [avail EXCEPT ![e][c] = n]
        PROVE  avail' \in [End -> [Chans -> Nat]]
    BY <2>1, <2>3
  <2>. QED BY <1>1, <1>2, <2>1, <2>2, <2>3 DEF EndStep
<1>4. answer' \in [Chans -> {"none", "ok", "refused"}]
  <2>0. answer \in [Chans -> {"none", "ok", "refused"}]
    BY LocalTypes
  <2>1. ASSUME NEW c \in Chans, NEW a \in {"ok", "refused"},
               answer' = [answer EXCEPT ![c] = IF @ = "none" THEN a ELSE @]
        PROVE  answer' \in [Chans -> {"none", "ok", "refused"}]
    BY <2>0, <2>1
  <2>. QED BY <1>1, <2>0, <2>1 DEF EndStep
<1>5. loop' \in [End -> {Idle} \cup Frames]
  <2>0. loop \in [End -> {Idle} \cup Frames]
    BY LocalTypes
  <2>. HIDE DEF Frames, Idle
  <2>1. ASSUME NEW e \in End, NEW f \in {Idle} \cup Frames, loop' = [loop EXCEPT ![e] = f]
        PROVE  loop' \in [End -> {Idle} \cup Frames]
    BY <2>0, <2>1
  <2>. QED BY <1>1, <2>0, <2>1 DEF EndStep
<1>6. /\ read' \in [End -> [Chans -> Nat]]
      /\ \A e \in End, c \in Chans : read'[e][c] <= MaxBytes(e)
  <2>1. read \in [End -> [Chans -> Nat]] /\ \A e \in End, c \in Chans : read[e][c] <= MaxBytes(e)
    BY DEF TypeOK
  <2>2. ASSUME NEW x \in End, NEW d \in Chans, NEW n \in Chunks,
               read[x][d] + n <= MaxBytes(x), read' = [read EXCEPT ![x][d] = @ + n]
        PROVE  /\ read' \in [End -> [Chans -> Nat]]
               /\ \A e \in End, c \in Chans : read'[e][c] <= MaxBytes(e)
    BY <1>2, <2>1, <2>2
  <2>. QED BY <1>1, <2>1, <2>2 DEF EndStep
<1>7. wrote' \in [End -> [Chans -> Nat]]
  <2>1. ASSUME NEW e \in End, NEW c \in Chans, NEW n \in Nat, wrote' = [wrote EXCEPT ![e][c] = @ + n]
        PROVE  wrote' \in [End -> [Chans -> Nat]]
    BY <2>1, LocalTypes
  <2>2. wrote \in [End -> [Chans -> Nat]]
    BY LocalTypes
  <2>. QED BY <1>1, <2>1, <2>2 DEF EndStep
<1>8. Logged'
  <2>1. /\ guest \in {"up", "closing", "left"} /\ share \in {"up", "failed", "over"}
        /\ eof \in [End -> SUBSET Chans] /\ told \in [End -> SUBSET Chans]
        /\ retired \subseteq Chans /\ dropped \subseteq Chans /\ late \subseteq Chans
    BY DEF TypeOK
  <2>2. guest' \in {"up", "closing", "left"} /\ share' \in {"up", "failed", "over"}
    BY <1>1, <2>1 DEF LogStep
  <2>3. eof' \in [End -> SUBSET Chans] /\ told' \in [End -> SUBSET Chans]
    BY <1>1, <2>1 DEF LogStep
  <2>4. retired' \subseteq Chans /\ dropped' \subseteq Chans /\ late' \subseteq Chans
    BY <1>1, <2>1 DEF LogStep
  <2>. QED BY <2>2, <2>3, <2>4 DEF Logged
<1>. QED BY <1>3, <1>4, <1>5, <1>6, <1>7, <1>8 DEF Kept

\* What is on its way after a step is a number of bytes.
LEMMA NextFlowTypes ==
  ASSUME Domains', NEW e \in End, NEW c \in Chans, NEW t \in Counted
  PROVE  Between(e, c, t)' \in Nat /\ Underway(e, c, t)' \in Nat /\ Size(loop[e], c, t)' \in Nat
<1>1. hostIn' \in Seq(Wire) /\ hostOut' \in Seq(Wire) /\ queue'[c] \in Seq(Wire)
  BY DEF Domains
<1>2. Bytes(hostIn', c, t) \in Nat /\ Bytes(hostOut', c, t) \in Nat /\ Bytes(queue'[c], c, t) \in Nat
  BY <1>1, BytesType DEF Counted
<1>3. loop'[e] \in Wire \cup {Idle}
  BY DEF Domains, Wire
<1>4. Size(loop'[e], c, t) \in Nat
  BY <1>3, SizeFacts
<1>. QED BY <1>2, <1>4 DEF Between, Underway

\* The books bound what an end may send, and what the other has written.
LEMMA BooksBound ==
  ASSUME Domains', Kept', Books', NEW e \in End, NEW c \in Chans
  PROVE  avail'[e][c] \in 0..InitialWindow /\ wrote'[Peer(e)][c] <= MaxBytes(e)
<1>1. Underway(Peer(e), c, "DATA")' \in Nat /\ Underway(e, c, "WINDOW")' \in Nat
  BY NextFlowTypes, PeerFacts DEF Counted
<1>2. /\ avail'[e][c] \in Nat /\ wrote'[Peer(e)][c] \in Nat /\ read'[e][c] \in Nat
      /\ read'[e][c] <= MaxBytes(e)
  BY PeerFacts DEF Kept
<1>3. hold'[e][c] \in Nat
  BY DEF Domains
<1>4. InitialWindow \in Nat /\ MaxBytes(e) \in Nat
  BY EndsAssumption DEF MaxBytes
<1>5. Window(e, c)' <= InitialWindow /\ Carried(e, c)' <= read'[e][c]
  BY DEF Books, Balanced
<1>6. avail'[e][c] <= InitialWindow
  BY <1>1, <1>2, <1>3, <1>4, <1>5 DEF Window
<1>7. wrote'[Peer(e)][c] <= MaxBytes(e)
  BY <1>1, <1>2, <1>3, <1>4, <1>5 DEF Carried
<1>. QED BY <1>2, <1>4, <1>6, <1>7

\* The books give the bounds that remain.
LEMMA TypeKept ==
  ASSUME IInv, TypeOK, Depths, Fresh, Books, [Next]_vars
  PROVE  TypeOK'
<1>1. Domains' /\ Kept' /\ Logged' /\ Books' /\ Depths'
  BY DomainsKept, KeptAndLogged, BooksKept, DepthsKept DEF IInv
<1>2. /\ hostIn' \in Seq(Frames) /\ hostOut' \in Seq(Frames) /\ queue' \in [Chans -> Seq(Frames)]
      /\ Len(hostOut') <= SenderDepth
  BY WiresTyped
<1>3. avail' \in [End -> [Chans -> 0..InitialWindow]]
  <2>1. avail' \in [End -> [Chans -> Nat]]
    BY <1>1 DEF Kept
  <2>2. \A e \in End, c \in Chans : avail'[e][c] \in 0..InitialWindow
    BY <1>1, BooksBound
  <2>. QED BY <2>1, <2>2
<1>4. \A e \in End, c \in Chans : read'[e][c] <= MaxBytes(e) /\ wrote'[e][c] <= MaxBytes(Peer(e))
  <2>. SUFFICES ASSUME NEW e \in End, NEW c \in Chans
                PROVE  read'[e][c] <= MaxBytes(e) /\ wrote'[e][c] <= MaxBytes(Peer(e))
    OBVIOUS
  <2>1. read'[e][c] <= MaxBytes(e)
    BY <1>1 DEF Kept
  <2>2. Peer(e) \in End /\ Peer(Peer(e)) = e
    BY PeerFacts
  <2>3. wrote'[Peer(Peer(e))][c] <= MaxBytes(Peer(e))
    BY <1>1, <2>2, BooksBound
  <2>. QED BY <2>1, <2>2, <2>3
<1>5. \A c \in Chans : Len(queue'[c]) <= QueueDepth + 1
  BY QueueDepthsKept
<1>6. hold' \in [End -> [Chans -> {0} \cup Chunks]]
  <2>1. hold' \in [End -> [Chans -> Nat]]
    BY <1>1 DEF Domains
  <2>2. ASSUME NEW e \in End, NEW c \in Chans PROVE hold'[e][c] \in {0} \cup Chunks
    <3>1. hold[e][c] \in {0} \cup Chunks
      BY DEF TypeOK
    <3>. QED BY <3>1, PumpsStep DEF PumpStep
  <2>. QED BY <2>1, <2>2
<1>7. /\ listed' \in [End -> SUBSET Chans]
      /\ pump' \in [End -> [Chans -> {"none", "opening", "reading", "waiting", "sending", "ended"}]]
      /\ nextChan' \in 0..MaxChannels /\ routed' \subseteq Chans
  BY <1>1 DEF Domains
<1>8. /\ answer' \in [Chans -> {"none", "ok", "refused"}] /\ loop' \in [End -> {Idle} \cup Frames]
      /\ read' \in [End -> [Chans -> Nat]] /\ wrote' \in [End -> [Chans -> Nat]]
  BY <1>1 DEF Kept
<1>9. /\ guest' \in {"up", "closing", "left"} /\ share' \in {"up", "failed", "over"}
      /\ eof' \in [End -> SUBSET Chans] /\ told' \in [End -> SUBSET Chans]
      /\ retired' \subseteq Chans /\ dropped' \subseteq Chans /\ late' \subseteq Chans
  BY <1>1 DEF Logged
<1>. QED BY <1>2, <1>3, <1>4, <1>5, <1>6, <1>7, <1>8, <1>9 DEF TypeOK

-----------------------------------------------------------------------------
(* The bytes of an end that has sent its last. *)

\* The relay is about to drop bytes the host sent for c.
Drops(e, c) ==
  /\ e = "host" /\ c \notin routed /\ hostOut # <<>>
  /\ Head(hostOut).type = "DATA" /\ Head(hostOut).chan = c

\* They reach the other end, unless it or the relay lets go of the stream.
BytesGoOn(e, c) ==
  \/ wrote'[Peer(e)][c] + Underway(Peer(e), c, "DATA")' = wrote[Peer(e)][c] + Underway(Peer(e), c, "DATA")
  \/ c \notin listed'[Peer(e)] \/ c \in retired' \/ Drops(e, c)

\* Taking a frame loses its bytes only where the stream is no longer listed.
LEMMA HandleGoesOn ==
  ASSUME TypeOK, NEW x \in End, NEW f \in Wire, Handle(x, f), loop[x] = Idle, wrote' = wrote,
         NEW e \in End, NEW c \in Chans,
         /\ Between(x, c, "DATA") = Between(x, c, "DATA")' + Size(f, c, "DATA")
         /\ Between(x, c, "DATA")' \in Nat
         /\ Between(Peer(x), c, "DATA")' = Between(Peer(x), c, "DATA")
  PROVE  BytesGoOn(e, c)
<1>. DEFINE known == f.chan \in listed[x]
<1>1. /\ listed' = IF f.type \in Closing THEN [listed EXCEPT ![x] = @ \ {f.chan}] ELSE listed
      /\ loop' = IF f.type = "DATA" /\ known THEN [loop EXCEPT ![x] = f] ELSE loop
  BY HandleDoes
<1>2. /\ f.type # "DATA" \/ f.chan # c => Size(f, c, "DATA") = 0
      /\ Size(f, c, "DATA") \in Nat /\ Size(Idle, c, "DATA") = 0
  BY SizeFacts DEF Counted
<1>3. CASE x = Peer(e)
  <2>1. loop'[x] = IF f.type = "DATA" /\ known THEN f ELSE Idle
    BY <1>1, LocalTypes
  <2>2. /\ Underway(x, c, "DATA") = Between(x, c, "DATA") + Size(loop[x], c, "DATA")
        /\ Underway(x, c, "DATA")' = Between(x, c, "DATA")' + Size(loop'[x], c, "DATA")
    BY DEF Underway
  <2>3. CASE Size(f, c, "DATA") = 0 \/ (f.type = "DATA" /\ known)
    <3>1. Underway(x, c, "DATA")' = Underway(x, c, "DATA")
      BY <1>2, <2>1, <2>2, <2>3
    <3>. QED BY <1>3, <3>1 DEF BytesGoOn
  <2>4. CASE ~(Size(f, c, "DATA") = 0 \/ (f.type = "DATA" /\ known))
    <3>1. f.chan = c /\ f.type = "DATA" /\ c \notin listed[x]
      BY <1>2, <2>4
    <3>2. c \notin listed'[x]
      BY <1>1, <3>1 DEF Closing
    <3>. QED BY <1>3, <3>2 DEF BytesGoOn
  <2>. QED BY <2>3, <2>4
<1>4. CASE x # Peer(e)
  <2>1. Peer(e) = Peer(x)
    BY <1>4, PeerFacts DEF End
  <2>2. loop'[Peer(x)] = loop[Peer(x)]
    BY <1>1, LocalTypes, PeerFacts
  <2>3. Underway(Peer(x), c, "DATA")' = Underway(Peer(x), c, "DATA")
    BY <2>2 DEF Underway
  <2>. QED BY <2>1, <2>3 DEF BytesGoOn
<1>. QED BY <1>3, <1>4

\* So it is of every step.
LEMMA SentGoesOn ==
  ASSUME IInv, TypeOK, Depths, [Next]_vars, NEW e \in End, NEW c \in Chans, pump[e][c] = "ended"
  PROVE  BytesGoOn(e, c)
<1>. DEFINE p == Peer(e)
<1>0. Domains /\ p \in End /\ e = Peer(p)
  BY PeerFacts DEF IInv
<1>still. ASSUME UNCHANGED <<wrote, loop>>, Between(p, c, "DATA")' = Between(p, c, "DATA")
      PROVE  BytesGoOn(e, c)
  <2>1. Underway(p, c, "DATA")' = Underway(p, c, "DATA")
    BY <1>still DEF Underway
  <2>. QED BY <1>still, <2>1 DEF BytesGoOn
<1>1. ASSUME \/ GuestAccepts \/ \E d \in Chans : GuestAnswered(d) \/ HostDialled(d)
             \/ \E x \in End, d \in Chans : \/ PumpReads(x, d) \/ PumpReserves(x, d)
                                            \/ PumpMeetsEOF(x, d) \/ PumpEnds(x, d)
             \/ GuestCloses \/ GuestLeaves \/ ShareEnds \/ UNCHANGED vars
      PROVE  BytesGoOn(e, c)
  <2>1. UNCHANGED <<wrote, loop>> /\ Between(p, c, "DATA")' = Between(p, c, "DATA")
    BY <1>0, <1>1, QuietFlow DEF Counted
  <2>. QED BY <1>still, <2>1
<1>2. ASSUME NEW x \in End, NEW d \in Chans, PumpSends(x, d) PROVE BytesGoOn(e, c)
  <2>. DEFINE f == Sized(d, "DATA", hold[x][d])
  <2>1. Sends(x, f) /\ UNCHANGED <<wrote, loop, queue>> /\ pump[x][d] = "sending"
    BY <1>2 DEF PumpSends, logVars
  <2>2. f \in Wire /\ f.chan = d
    BY FrameFacts DEF IInv, Domains, Sized
  <2>. HIDE DEF f
  <2>3. Between(p, c, "DATA")' = Between(p, c, "DATA")
    <3>1. CASE x = p
      BY <1>0, <2>1, <2>2, <3>1, SendsFlow DEF Counted
    <3>2. CASE x # p
      <4>1. x = e /\ d # c
        BY <2>1, <3>2, PeerFacts DEF End
      <4>2. Size(f, c, "DATA") = 0
        BY <2>2, <4>1, SizeFacts DEF Counted
      <4>3. Between(p, c, "DATA")' = Between(p, c, "DATA") + 0
        BY <1>0, <2>1, <2>2, <4>1, <4>2, SendsFlow DEF Counted
      <4>4. Between(p, c, "DATA") \in Nat
        BY <1>0, FlowTypes DEF Counted
      <4>. QED BY <4>3, <4>4
    <3>. QED BY <3>1, <3>2
  <2>. QED BY <1>still, <2>1, <2>3
<1>3. ASSUME NEW x \in End, LoopWrites(x) PROVE BytesGoOn(e, c)
  <2>. DEFINE d == loop[x].chan
              n == loop[x].n
              f == Sized(d, "WINDOW", n)
  <2>1. /\ loop' = [loop EXCEPT ![x] = Idle] /\ wrote' = [wrote EXCEPT ![x][d] = @ + n]
        /\ Sends(x, f) /\ loop[x] # Idle /\ queue' = queue
    BY <1>3 DEF LoopWrites, Credits
  <2>2. d \in Chans /\ n \in Nat /\ loop[x] \in Wire /\ loop[x].type = "DATA"
    <3>1. loop[x] \in [type : {"DATA"}, chan : Chans, n : Nat]
      BY <2>1 DEF IInv, Domains
    <3>. QED BY <3>1 DEF Wire
  <2>3. f \in Wire /\ f.type = "WINDOW"
    BY <2>2, FrameFacts
  <2>4. /\ Size(loop[x], c, "DATA") = (IF c = d THEN n ELSE 0) /\ Size(f, c, "DATA") = 0
        /\ Size(Idle, c, "DATA") = 0
    BY <2>2, <2>3, SizeFacts DEF Counted
  <2>. HIDE DEF f, d, n
  <2>5. Between(p, c, "DATA") \in Nat /\ Between(p, c, "DATA")' = Between(p, c, "DATA")
    <3>1. Between(p, c, "DATA") \in Nat
      BY <1>0, FlowTypes DEF Counted
    <3>2. CASE x = p
      BY <1>0, <2>1, <2>3, <3>1, <3>2, SendsFlow DEF Counted
    <3>3. CASE x # p
      <4>1. x = e
        BY <3>3, PeerFacts DEF End
      <4>2. Between(p, c, "DATA")' = Between(p, c, "DATA") + 0
        BY <1>0, <2>1, <2>3, <2>4, <4>1, SendsFlow DEF Counted
      <4>. QED BY <3>1, <4>2
    <3>. QED BY <3>2, <3>3
  <2>6. /\ Underway(p, c, "DATA") = Between(p, c, "DATA") + Size(loop[p], c, "DATA")
        /\ Underway(p, c, "DATA")' = Between(p, c, "DATA")' + Size(loop'[p], c, "DATA")
    BY DEF Underway
  <2>7. wrote[p][c] \in Nat
    BY <1>0, LocalTypes
  <2>8. CASE x = p
    <3>1. loop'[p] = Idle /\ wrote'[p][c] = wrote[p][c] + (IF c = d THEN n ELSE 0)
      BY <1>0, <2>1, <2>2, <2>7, <2>8, LocalTypes
    <3>2. wrote'[p][c] + Underway(p, c, "DATA")' = wrote[p][c] + Underway(p, c, "DATA")
      BY <2>2, <2>4, <2>5, <2>6, <2>7, <2>8, <3>1
    <3>. QED BY <3>2 DEF BytesGoOn
  <2>9. CASE x # p
    <3>1. loop'[p] = loop[p] /\ wrote'[p][c] = wrote[p][c]
      BY <1>0, <2>1, <2>9, LocalTypes
    <3>2. Underway(p, c, "DATA")' = Underway(p, c, "DATA")
      BY <2>5, <2>6, <3>1
    <3>. QED BY <3>1, <3>2 DEF BytesGoOn
  <2>. QED BY <2>8, <2>9
<1>4. ASSUME NEW x \in End, LoopFails(x) PROVE BytesGoOn(e, c)
  <2>. DEFINE d == loop[x].chan
  <2>1. /\ loop' = [loop EXCEPT ![x] = Idle] /\ wrote' = wrote
        /\ CloseTelling(x, d) /\ loop[x] # Idle /\ queue' = queue
    BY <1>4 DEF LoopFails, logVars
  <2>2. d \in Chans /\ loop[x] \in Wire
    <3>1. loop[x] \in [type : {"DATA"}, chan : Chans, n : Nat]
      BY <2>1 DEF IInv, Domains
    <3>. QED BY <3>1 DEF Wire
  <2>3. c # d => Size(loop[x], c, "DATA") = 0 /\ Size(Idle, c, "DATA") = 0
    BY <2>2, SizeFacts DEF Counted
  <2>. HIDE DEF d
  <2>4. listed' = [listed EXCEPT ![x] = @ \ {d}]
    BY <2>1, <2>2, CloseDoes
  <2>5. Between(p, c, "DATA")' = Between(p, c, "DATA")
    BY <1>0, <2>1, <2>2, CloseFlow DEF Counted
  <2>6. CASE x = p /\ c = d
    <3>1. c \notin listed'[p]
      BY <1>0, <2>4, <2>6, LocalTypes
    <3>. QED BY <3>1 DEF BytesGoOn
  <2>7. CASE ~(x = p /\ c = d)
    <3>1. Size(loop'[p], c, "DATA") = Size(loop[p], c, "DATA")
      BY <1>0, <2>1, <2>3, <2>7, LocalTypes
    <3>2. Underway(p, c, "DATA")' = Underway(p, c, "DATA")
      BY <2>5, <3>1 DEF Underway
    <3>. QED BY <2>1, <3>2 DEF BytesGoOn
  <2>. QED BY <2>6, <2>7
<1>5. ASSUME HostTakes PROVE BytesGoOn(e, c)
  <2>1. /\ Handle("host", Head(hostIn)) /\ loop["host"] = Idle /\ hostIn # <<>> /\ hostIn' = Tail(hostIn)
        /\ UNCHANGED <<wrote, hostOut, queue>>
    BY <1>5 DEF HostTakes
  <2>2. Head(hostIn) \in Wire /\ Tail(hostIn) \in Seq(Wire)
    BY <2>1, TailElements DEF IInv, Domains
  <2>3. Bytes(hostIn', c, "DATA") \in Nat
    BY <2>1, <2>2, BytesType
  <2>4. Between("host", c, "DATA")' \in Nat
    BY <2>3 DEF Between
  <2>5. /\ Between("host", c, "DATA") = Between("host", c, "DATA")' + Size(Head(hostIn), c, "DATA")
        /\ Between(Peer("host"), c, "DATA")' = Between(Peer("host"), c, "DATA")
    BY <1>0, <2>1, TakesFlow, PeerFacts DEF Counted
  <2>. QED BY <2>1, <2>2, <2>4, <2>5, HandleGoesOn DEF End
<1>6. ASSUME NEW d \in Chans, GuestTakes(d) PROVE BytesGoOn(e, c)
  <2>1. /\ Handle("guest", Head(queue[d])) /\ loop["guest"] = Idle /\ queue[d] # <<>>
        /\ queue' = [queue EXCEPT ![d] = Tail(@)] /\ UNCHANGED <<wrote, hostOut, hostIn>>
    BY <1>6 DEF GuestTakes
  <2>2. Head(queue[d]) \in Wire /\ Tail(queue[d]) \in Seq(Wire) /\ queue[c] \in Seq(Wire) /\ hostOut \in Seq(Wire)
    <3>1. queue[d] \in Seq(Wire) /\ queue[c] \in Seq(Wire) /\ hostOut \in Seq(Wire)
      BY DEF IInv, Domains
    <3>. QED BY <2>1, <3>1, TailElements
  <2>3. queue'[c] \in Seq(Wire)
    BY <2>1, <2>2 DEF IInv, Domains
  <2>4. Bytes(queue'[c], c, "DATA") \in Nat /\ Bytes(hostOut', c, "DATA") \in Nat
    BY <2>1, <2>2, <2>3, BytesType
  <2>5. Between("guest", c, "DATA")' \in Nat
    BY <2>4 DEF Between
  <2>6. /\ Between("guest", c, "DATA") = Between("guest", c, "DATA")' + Size(Head(queue[d]), c, "DATA")
        /\ Between(Peer("guest"), c, "DATA")' = Between(Peer("guest"), c, "DATA")
    BY <1>0, <2>1, GuestTakesFlow, PeerFacts DEF Counted
  <2>. QED BY <2>1, <2>2, <2>5, <2>6, HandleGoesOn DEF End
<1>7. ASSUME RelayRoutes PROVE BytesGoOn(e, c)
  <2>1. UNCHANGED <<wrote, loop>> /\ hostOut # <<>>
    BY <1>7 DEF RelayRoutes, endVars
  <2>2. CASE e = "guest"
    <3>1. Between(p, c, "DATA")' = Between(p, c, "DATA")
      BY <1>0, <1>7, <2>2, RouteFlow, PeerFacts DEF Counted
    <3>. QED BY <1>still, <2>1, <3>1
  <2>3. CASE e = "host" /\ Between("guest", c, "DATA")' = Between("guest", c, "DATA")
    BY <1>still, <2>1, <2>3, PeerFacts
  <2>4. CASE e = "host" /\ Between("guest", c, "DATA")' # Between("guest", c, "DATA")
    <3>1. c \notin routed' /\ Head(hostOut).chan = c /\ Size(Head(hostOut), c, "DATA") # 0
      BY <1>0, <1>7, <2>4, RouteFlow DEF Counted
    <3>2. Head(hostOut).type = "DATA"
      <4>1. Head(hostOut) \in Wire
        BY <2>1, TailElements DEF IInv, Domains
      <4>. QED BY <3>1, <4>1, SizeFacts DEF Counted
    <3>3. Steady(c)
      BY StepsAreSteady
    <3>4. c \in routed => c \notin listed'["guest"] \/ c \in retired'
      BY <3>1, <3>2, <3>3 DEF Steady, Closing
    <3>. QED BY <2>1, <2>4, <3>1, <3>2, <3>4, PeerFacts DEF BytesGoOn, Drops
  <2>. QED BY <2>2, <2>3, <2>4 DEF End
<1>. QED BY <1>1, <1>2, <1>3, <1>4, <1>5, <1>6, <1>7 DEF Next, Pump, Runs, Loop

-----------------------------------------------------------------------------
(* How an end parts with a stream. *)

\* An end that has closed a stream, or was told of its end, does not open it again.
LEMMA ClosedForGood ==
  ASSUME IInv, TypeOK, Fresh, [Next]_vars, NEW x \in End, NEW c \in Chans, c \in eof[x] \/ c \in told[x]
  PROVE  /\ pump["host"][c] \notin {"none", "opening"} /\ c <= nextChan
         /\ \A e \in End : c \in listed'[e] => c \in listed[e]
<1>1. pump["host"][c] \notin {"none", "opening"}
  BY DEF Fresh
<1>2. c <= nextChan
  BY <1>1 DEF IInv, NumbersUsed
<1>3. ~(c = nextChan + 1)
  BY <1>2, LocalTypes
<1>. QED BY <1>1, <1>2, <1>3, StepsAreSteady, LocalTypes DEF Steady

\* The frame that tells an end of the end of c, before it is taken.
LEMMA ToldBy ==
  ASSUME IInv, TypeOK, [Next]_vars, NEW e \in End, NEW c \in Chans, c \in told'[e] \ told[e]
  PROVE  /\ c \in listed[e] /\ c \notin listed'[e] /\ listed'[Peer(e)] = listed[Peer(e)]
         /\ UNCHANGED <<wrote, read, eof, retired>> /\ loop[e] = Idle
         /\ e = "host" => hostIn # <<>> /\ Head(hostIn).chan = c /\ Head(hostIn).type \in Closing
         /\ e = "guest" => queue[c] # <<>> /\ Head(queue[c]).type \in Closing
<1>1. \/ e = "host" /\ HostTakes /\ c \in listed[e]
      \/ e = "guest" /\ GuestTakes(c) /\ c \in listed[e]
  BY StepsAreSteady DEF Steady
<1>2. CASE e = "host" /\ HostTakes
  <2>. DEFINE f == Head(hostIn)
  <2>1. f \in Wire /\ hostIn # <<>> /\ Handle("host", f) /\ UNCHANGED <<wrote, read, eof, retired>> /\ loop[e] = Idle
    BY <1>2, TailElements DEF HostTakes, IInv, Domains
  <2>. HIDE DEF f
  <2>2. /\ told' = IF f.type \in Closing /\ f.chan \in listed[e]
                   THEN [told EXCEPT ![e] = @ \cup {f.chan}] ELSE told
        /\ listed' = IF f.type \in Closing THEN [listed EXCEPT ![e] = @ \ {f.chan}] ELSE listed
    BY <1>2, <2>1, HandleDoes
  <2>3. f.type \in Closing /\ f.chan = c
    BY <2>2, LocalTypes
  <2>4. c \notin listed'[e] /\ listed'[Peer(e)] = listed[Peer(e)]
    BY <2>2, <2>3, LocalTypes, PeerFacts
  <2>. QED BY <1>1, <1>2, <2>1, <2>3, <2>4 DEF f
<1>3. CASE e = "guest" /\ GuestTakes(c)
  <2>. DEFINE f == Head(queue[c])
  <2>1. f \in Wire /\ f.chan = c /\ queue[c] # <<>> /\ Handle("guest", f) /\ UNCHANGED <<wrote, read, eof, retired>> /\ loop[e] = Idle
    <3>1. queue[c] # <<>> /\ queue[c] \in Seq(Wire) /\ \A i \in DOMAIN queue[c] : queue[c][i].chan = c
      BY <1>3 DEF GuestTakes, IInv, Domains
    <3>. QED BY <1>3, <3>1, TailElements DEF GuestTakes
  <2>. HIDE DEF f
  <2>2. /\ told' = IF f.type \in Closing /\ f.chan \in listed[e]
                   THEN [told EXCEPT ![e] = @ \cup {f.chan}] ELSE told
        /\ listed' = IF f.type \in Closing THEN [listed EXCEPT ![e] = @ \ {f.chan}] ELSE listed
    BY <1>3, <2>1, HandleDoes
  <2>3. f.type \in Closing
    BY <2>2, LocalTypes
  <2>4. c \notin listed'[e] /\ listed'[Peer(e)] = listed[Peer(e)]
    BY <2>1, <2>2, <2>3, LocalTypes, PeerFacts
  <2>. QED BY <1>1, <1>3, <2>1, <2>3, <2>4 DEF f
<1>. QED BY <1>1, <1>2, <1>3

\* The news of an end comes when the relay routes the stream no longer.
LEMMA NewsIsUnrouted ==
  ASSUME TypeOK, EndsAreLast, NEW c \in Chans,
         \/ hostIn # <<>> /\ Head(hostIn).chan = c /\ Head(hostIn).type \in Closing
         \/ queue[c] # <<>> /\ Head(queue[c]).type \in Closing
  PROVE  c \notin routed
<1>1. \A i \in DOMAIN hostIn : hostIn[i].type \in Closing => hostIn[i].chan \notin routed
  BY DEF EndsAreLast
<1>2. \A i \in DOMAIN queue[c] : queue[c][i].type \in Closing => c \notin routed
  BY DEF EndsAreLast
<1>3. hostIn \in Seq(Wire) /\ queue[c] \in Seq(Wire)
  BY SeqFacts
<1>. QED BY <1>1, <1>2, <1>3, TailElements

\* The first part of Partings, for an end that was told.
LEMMA ToldLetsGo ==
  ASSUME IInv, TypeOK, Depths, Fresh, EndsAreLast, Unrouted, Partings, [Next]_vars,
         NEW e \in End, NEW c \in told'[e]
  PROVE  c \notin listed'[e] /\ (c \in listed'[Peer(e)] => c \in retired')
<1>1. c \in Chans /\ Peer(e) \in End
  BY KeptAndLogged, PeerFacts DEF Logged
<1>2. CASE c \in told[e]
  <2>1. c \notin listed[e] /\ (c \in listed[Peer(e)] => c \in retired)
    BY <1>2 DEF Partings
  <2>2. \A x \in End : c \in listed'[x] => c \in listed[x]
    BY <1>1, <1>2, ClosedForGood
  <2>3. retired \subseteq retired'
    BY <1>1, StepsAreSteady DEF Steady
  <2>. QED BY <1>1, <2>1, <2>2, <2>3
<1>3. CASE c \notin told[e]
  <2>1. /\ c \in listed[e] /\ c \notin listed'[e] /\ listed'[Peer(e)] = listed[Peer(e)] /\ retired' = retired
        /\ \/ hostIn # <<>> /\ Head(hostIn).chan = c /\ Head(hostIn).type \in Closing
           \/ queue[c] # <<>> /\ Head(queue[c]).type \in Closing
    BY <1>1, <1>3, ToldBy DEF End
  <2>2. c \notin routed
    BY <1>1, <2>1, NewsIsUnrouted
  <2>3. c \in listed[Peer(e)] => c \in listed["guest"] /\ c \in listed["host"]
    BY <2>1, PeerFacts DEF End
  <2>4. c \in listed[Peer(e)] => c \in retired
    BY <2>2, <2>3 DEF Unrouted
  <2>. QED BY <2>1, <2>4
<1>. QED BY <1>2, <1>3

\* The second, for an end whose application is done.
LEMMA EofLetsGo ==
  ASSUME IInv, TypeOK, Depths, Fresh, Partings, [Next]_vars, NEW e \in End, NEW c \in eof'[e]
  PROVE  /\ c \notin listed'[e] /\ pump'[e][c] = "ended" /\ hold'[e][c] = 0
         /\ e = "guest" => c \notin routed'
<1>1. c \in Chans
  BY KeptAndLogged DEF Logged
<1>2. CASE c \in eof[e]
  <2>1. c \notin listed[e] /\ pump[e][c] = "ended" /\ hold[e][c] = 0 /\ (e = "guest" => c \notin routed)
    BY <1>2 DEF Partings
  <2>2. c \notin listed'[e] /\ c <= nextChan
    BY <1>1, <1>2, <2>1, ClosedForGood
  <2>3. pump'[e][c] = "ended" /\ hold'[e][c] = 0
    BY <1>1, <2>1, PumpsStep DEF PumpStep
  <2>. QED BY <1>1, <2>1, <2>2, <2>3, StaysUnrouted
<1>3. CASE c \notin eof[e]
  <2>1. PumpMeetsEOF(e, c)
    BY <1>1, <1>3, StepsAreSteady DEF Steady
  <2>2. /\ pump[e][c] = "reading" /\ c \in listed[e] /\ pump' = [pump EXCEPT ![e][c] = "ended"]
        /\ CloseTelling(e, c) /\ hold' = hold
    BY <2>1 DEF PumpMeetsEOF
  <2>3. /\ listed' = [listed EXCEPT ![e] = @ \ {c}]
        /\ e = "guest" => routed' = routed \ {c}
    BY <1>1, <2>2, CloseDoes
  <2>4. hold[e][c] = 0
    BY <1>1, <2>2 DEF Depths
  <2>5. pump'[e][c] = "ended" /\ c \notin listed'[e]
    BY <1>1, <2>2, <2>3, LocalTypes
  <2>. QED BY <2>2, <2>3, <2>4, <2>5
<1>. QED BY <1>2, <1>3

\* An end whose application is done has sent what it read, if the other end has the stream
\* and is to hear of it.
LEMMA EofIsCarried ==
  ASSUME IInv, TypeOK, Depths, Fresh, EndsAreLast, Unrouted, Books, [Next]_vars,
         NEW e \in End, NEW c \in Chans, PumpMeetsEOF(e, c),
         c \notin retired', c \in listed'[Peer(e)], News(Peer(e), c)'
  PROVE  Carried(e, c)' = read'[e][c]
<1>1. /\ pump[e][c] = "reading" /\ c \in listed[e] /\ CloseTelling(e, c)
      /\ UNCHANGED <<hold, read, wrote, loop, queue, retired>>
  BY DEF PumpMeetsEOF
<1>2. listed' = [listed EXCEPT ![e] = @ \ {c}]
  BY <1>1, CloseDoes
<1>3. c \in listed["guest"] /\ c \in listed["host"]
  BY <1>1, <1>2, LocalTypes, PeerFacts
<1>4. c \in routed
  BY <1>1, <1>3 DEF Unrouted
<1>5. e = "guest" \/ share = "up"
  <2>. SUFFICES ASSUME e = "host", share # "up" PROVE FALSE
    BY DEF End
  <2>1. hostOut' = hostOut
    BY <1>1 DEF CloseTelling, Sends, HostSends, SendsNothing
  <2>2. Ends(hostOut, c) \/ Ends(queue[c], c)
    BY <1>1, <2>1, PeerFacts DEF News
  <2>3. ~Ends(hostOut, c)
    BY <1>3 DEF Ends, IInv, HostLetGo
  <2>4. ~Ends(queue[c], c)
    BY <1>4 DEF Ends, EndsAreLast
  <2>. QED BY <2>2, <2>3, <2>4
<1>6. Carried(e, c) = read[e][c]
  BY <1>3, <1>4, <1>5 DEF Books, Balanced, Whole
<1>7. Underway(Peer(e), c, "DATA")' = Underway(Peer(e), c, "DATA")
  <2>1. Domains /\ Peer(e) \in End
    BY PeerFacts DEF IInv
  <2>2. Between(Peer(e), c, "DATA")' = Between(Peer(e), c, "DATA")
    BY <1>1, <2>1, CloseFlow DEF Counted
  <2>. QED BY <1>1, <2>2 DEF Underway
<1>8. Carried(e, c)' = Carried(e, c)
  BY <1>1, <1>7 DEF Carried
<1>. QED BY <1>1, <1>6, <1>8

\* The news of an end that has closed is not news that comes later.
LEMMA NewsWasThere ==
  ASSUME IInv, TypeOK, Depths, Fresh, EndsAreLast, Partings, [Next]_vars,
         NEW e \in End, NEW c \in Chans, c \in eof[e],
         c \notin retired', c \in listed'[Peer(e)], News(Peer(e), c)'
  PROVE  News(Peer(e), c)
<1>1. /\ c \notin listed[e] /\ pump[e][c] = "ended" /\ (e = "guest" => c \notin routed)
  BY DEF Partings
<1>2. InStep /\ OutStep /\ QueueStep
  BY WireSteps
<1>3. /\ hostIn \in Seq(Wire) /\ hostOut \in Seq(Wire) /\ queue[c] \in Seq(Wire)
      /\ queue \in [Chans -> Seq(Frames)]
  BY SeqFacts DEF TypeOK
<1>4. ASSUME NEW s \in Seq(Wire), s # <<>>, Ends(Tail(s), c) PROVE Ends(s, c)
  <2>1. PICK i \in DOMAIN Tail(s) : Tail(s)[i].chan = c /\ Tail(s)[i].type \in Closing
    BY <1>4 DEF Ends
  <2>2. Tail(s)[i] = s[i + 1] /\ i + 1 \in DOMAIN s
    BY <1>4, <2>1, TailElements
  <2>. QED BY <2>1, <2>2 DEF Ends
<1>5. ASSUME NEW s \in Seq(Wire), NEW f \in Frames, Ends(Append(s, f), c)
      PROVE  Ends(s, c) \/ (f.chan = c /\ f.type \in Closing)
  <2>1. PICK i \in DOMAIN Append(s, f) : Append(s, f)[i].chan = c /\ Append(s, f)[i].type \in Closing
    BY <1>5 DEF Ends
  <2>2. (i \in DOMAIN s /\ Append(s, f)[i] = s[i]) \/ Append(s, f)[i] = f
    BY <2>1, FramesFacts, AppendIsConcat
  <2>. QED BY <2>1, <2>2 DEF Ends
<1>6. CASE e = "guest"
  <2>1. Ends(hostIn', c)
    BY <1>6, PeerFacts DEF News
  <2>. SUFFICES Ends(hostIn, c)
    BY <1>6, PeerFacts DEF News
  <2>2. ASSUME NEW f \in Frames, hostIn' = Append(hostIn, f), MayEnterIn(f) PROVE Ends(hostIn, c)
    <3>1. ~(f.chan = c /\ f.type \in Closing)
      BY <1>1, <1>6, <2>2 DEF MayEnterIn, Closing
    <3>. QED BY <1>3, <1>5, <2>1, <2>2, <3>1
  <2>3. ASSUME NEW s \in Seq(Frames), hostIn' = hostIn \o s, \A i \in DOMAIN s : s[i].chan \in routed
        PROVE  Ends(hostIn, c)
    <3>0. s \in Seq(Wire)
      BY SeqFacts
    <3>1. PICK i \in DOMAIN hostIn' : hostIn'[i].chan = c /\ hostIn'[i].type \in Closing
      BY <2>1 DEF Ends
    <3>2. i \in DOMAIN hostIn \/ i - Len(hostIn) \in DOMAIN s
      BY <1>3, <2>3, <3>0, <3>1, ConcatElements
    <3>3. i \in DOMAIN hostIn
      <4>1. ASSUME i - Len(hostIn) \in DOMAIN s, i \notin DOMAIN hostIn PROVE FALSE
        <5>1. Len(hostIn) + (i - Len(hostIn)) = i
          BY <1>3, <2>3, <3>0, <3>1, ConcatElements
        <5>2. hostIn'[i] = s[i - Len(hostIn)]
          BY <1>3, <2>3, <3>0, <4>1, <5>1, ConcatElements
        <5>. QED BY <1>1, <1>6, <2>3, <3>1, <4>1, <5>2
      <4>. QED BY <3>2, <4>1
    <3>4. hostIn'[i] = hostIn[i]
      BY <1>3, <2>3, <3>0, <3>3, ConcatElements
    <3>. QED BY <3>1, <3>3, <3>4 DEF Ends
  <2>. QED BY <1>2, <1>3, <1>4, <2>1, <2>2, <2>3 DEF InStep
<1>7. CASE e = "host"
  <2>. SUFFICES Ends(hostOut, c) \/ Ends(queue[c], c)
    BY <1>7, PeerFacts DEF News
  <2>1. Ends(hostOut', c) \/ Ends(queue'[c], c)
    BY <1>7, PeerFacts DEF News
  <2>2. ASSUME Ends(hostOut', c) PROVE Ends(hostOut, c)
    <3>1. ASSUME NEW f \in Frames, hostOut' = Append(hostOut, f), MayEnterOut(f) PROVE Ends(hostOut, c)
      <4>1. ~(f.chan = c /\ f.type \in Closing)
        BY <1>1, <1>7, <3>1 DEF MayEnterOut, Closing
      <4>. QED BY <1>3, <1>5, <2>2, <3>1, <4>1
    <3>. QED BY <1>2, <1>3, <1>4, <2>2, <3>1 DEF OutStep
  <2>3. ASSUME Ends(queue'[c], c) PROVE Ends(hostOut, c) \/ Ends(queue[c], c)
    <3>1. CASE queue'[c] = queue[c]
      BY <2>3, <3>1
    <3>2. CASE queue[c] # <<>> /\ queue'[c] = Tail(queue[c])
      BY <1>3, <1>4, <2>3, <3>2
    <3>3. ASSUME NEW f \in Frames, queue'[c] = Append(queue[c], f), c \in routed,
                 f.type \in Closing => c \notin routed'
          PROVE  Ends(hostOut, c) \/ Ends(queue[c], c)
      <4>1. CASE f.type \notin Closing
        BY <1>3, <1>5, <2>3, <3>3, <4>1
      <4>2. CASE f.type \in Closing
        <5>1. c \in routed \ routed' /\ c \in listed'["guest"]
          BY <1>7, <3>3, <4>2, PeerFacts
        <5>2. hostOut # <<>> /\ Head(hostOut).chan = c /\ Head(hostOut).type \in Closing
          BY <5>1, StepsAreSteady DEF Steady
        <5>. QED BY <1>3, <5>2, TailElements DEF Ends
      <4>. QED BY <4>1, <4>2
    <3>. QED BY <1>2, <1>3, <3>1, <3>2, <3>3 DEF QueueStep
  <2>. QED BY <2>1, <2>2, <2>3
<1>. QED BY <1>6, <1>7 DEF End

\* What was on its way when it closed stays on its way, or is written.
\* What an end has read and written changes in two places.
LEMMA ReadsAndWrites ==
  ASSUME [Next]_vars
  PROVE  /\ \/ read' = read
            \/ \E x \in End, d \in Chans, n \in Chunks :
                 pump[x][d] = "reading" /\ read' = [read EXCEPT ![x][d] = @ + n]
         /\ \/ wrote' = wrote
            \/ \E x \in End : /\ loop[x] # Idle /\ loop[x].chan \in listed[x]
                              /\ wrote' = [wrote EXCEPT ![x][loop[x].chan] = @ + loop[x].n]
<1>1. ASSUME \/ GuestAccepts \/ HostTakes \/ RelayRoutes \/ GuestCloses \/ GuestLeaves \/ ShareEnds
             \/ \E c \in Chans : GuestAnswered(c) \/ HostDialled(c) \/ GuestTakes(c)
             \/ UNCHANGED vars
      PROVE  read' = read /\ wrote' = wrote
  BY <1>1 DEF GuestAccepts, HostTakes, RelayRoutes, GuestCloses, GuestLeaves, ShareEnds, GuestAnswered,
              HostDialled, GuestTakes, vars, logVars
<1>2. ASSUME NEW x \in End, NEW d \in Chans,
             PumpMeetsEOF(x, d) \/ PumpReserves(x, d) \/ PumpSends(x, d) \/ PumpEnds(x, d)
      PROVE  read' = read /\ wrote' = wrote
  BY <1>2 DEF PumpMeetsEOF, PumpReserves, PumpSends, PumpEnds, logVars
<1>3. ASSUME NEW x \in End, NEW d \in Chans, PumpReads(x, d)
      PROVE  wrote' = wrote /\ \E n \in Chunks : pump[x][d] = "reading" /\ read' = [read EXCEPT ![x][d] = @ + n]
  BY <1>3 DEF PumpReads
<1>4. ASSUME NEW x \in End, LoopFails(x) PROVE read' = read /\ wrote' = wrote
  BY <1>4 DEF LoopFails, logVars
<1>5. ASSUME NEW x \in End, LoopWrites(x)
      PROVE  /\ read' = read /\ loop[x] # Idle /\ loop[x].chan \in listed[x]
             /\ wrote' = [wrote EXCEPT ![x][loop[x].chan] = @ + loop[x].n]
  BY <1>5 DEF LoopWrites
<1>. QED BY <1>1, <1>2, <1>3, <1>4, <1>5 DEF Next, Pump, Runs, Loop

\* An end whose pump does not read, or that let go of the stream, is done with it.
LEMMA ReadStays ==
  ASSUME TypeOK, [Next]_vars, NEW e \in End, NEW c \in Chans, pump[e][c] # "reading"
  PROVE  read'[e][c] = read[e][c]
<1>1. ASSUME NEW x \in End, NEW d \in Chans, NEW n \in Chunks, pump[x][d] = "reading",
             read' = [read EXCEPT ![x][d] = @ + n]
      PROVE  read'[e][c] = read[e][c]
  <2>1. ~(x = e /\ d = c)
    BY <1>1
  <2>. QED BY <1>1, <2>1, LocalTypes
<1>. QED BY <1>1, ReadsAndWrites

LEMMA WroteStays ==
  ASSUME TypeOK, [Next]_vars, NEW e \in End, NEW c \in Chans, c \notin listed[e]
  PROVE  wrote'[e][c] = wrote[e][c]
<1>1. ASSUME NEW x \in End, loop[x].chan \in listed[x],
             wrote' = [wrote EXCEPT ![x][loop[x].chan] = @ + loop[x].n]
      PROVE  wrote'[e][c] = wrote[e][c]
  <2>1. ~(x = e /\ loop[x].chan = c)
    BY <1>1
  <2>. QED BY <1>1, <2>1, LocalTypes
<1>. QED BY <1>1, ReadsAndWrites

LEMMA StaysCarried ==
  ASSUME IInv, TypeOK, Depths, Fresh, EndsAreLast, Unrouted, Partings, [Next]_vars,
         NEW e \in End, NEW c \in Chans, c \in eof[e],
         c \notin retired', c \in listed'[Peer(e)], News(Peer(e), c)'
  PROVE  Carried(e, c)' = read'[e][c]
<1>1. pump[e][c] = "ended" /\ hold[e][c] = 0
  BY DEF Partings
<1>2. c \notin retired /\ c \in listed[Peer(e)] /\ Peer(e) \in End
  <2>1. retired \subseteq retired'
    BY StepsAreSteady DEF Steady
  <2>. QED BY <2>1, ClosedForGood, PeerFacts
<1>3. Carried(e, c) = read[e][c]
  BY <1>2, NewsWasThere DEF Partings
<1>4. hold'[e][c] = 0
  BY <1>1, PumpsStep DEF PumpStep
<1>5. read'[e][c] = read[e][c]
  BY <1>1, ReadStays
<1>6. ~Drops(e, c)
  <2>. SUFFICES ASSUME Drops(e, c) PROVE FALSE
    OBVIOUS
  <2>1. e = "host" /\ c \notin routed /\ hostOut # <<>> /\ Head(hostOut).type = "DATA" /\ Head(hostOut).chan = c
    BY DEF Drops
  <2>2. c \in listed["guest"]
    BY <1>2, <2>1, PeerFacts
  <2>3. \A i \in DOMAIN hostOut : hostOut[i].type = "DATA" => hostOut[i].chan # c
    BY <1>2, <2>1, <2>2 DEF Unrouted
  <2>. QED BY <2>1, <2>3, SeqFacts, TailElements
<1>7. wrote'[Peer(e)][c] + Underway(Peer(e), c, "DATA")' = wrote[Peer(e)][c] + Underway(Peer(e), c, "DATA")
  BY <1>1, <1>6, SentGoesOn DEF BytesGoOn
<1>. QED BY <1>1, <1>3, <1>4, <1>5, <1>7 DEF Carried

\* So Partings is kept.
LEMMA PartingsKept ==
  ASSUME IInv, TypeOK, Depths, Fresh, EndsAreLast, Unrouted, Books, Partings, [Next]_vars
  PROVE  Partings'
<1>1. ASSUME NEW e \in End, NEW c \in told'[e]
      PROVE  c \notin listed'[e] /\ (c \in listed'[Peer(e)] => c \in retired')
  BY ToldLetsGo
<1>2. ASSUME NEW e \in End, NEW c \in eof'[e]
      PROVE  /\ c \notin listed'[e] /\ pump'[e][c] = "ended" /\ hold'[e][c] = 0
             /\ e = "guest" => c \notin routed'
  BY EofLetsGo
<1>3. ASSUME NEW e \in End, NEW c \in eof'[e], c \notin retired', c \in listed'[Peer(e)], News(Peer(e), c)'
      PROVE  Carried(e, c)' = read'[e][c]
  <2>1. c \in Chans
    BY KeptAndLogged DEF Logged
  <2>2. c \in eof[e] \/ PumpMeetsEOF(e, c)
    BY <2>1, StepsAreSteady DEF Steady
  <2>. QED BY <1>3, <2>1, <2>2, EofIsCarried, StaysCarried
<1>. QED BY <1>1, <1>2, <1>3 DEF Partings

\* When an end is told, nothing is on its way to it any more.
LEMMA NothingBehindNews ==
  ASSUME IInv, TypeOK, EndsAreLast, Unrouted, [Next]_vars, NEW e \in End, NEW c \in Chans,
         c \in eof[e], c \in told'[Peer(e)] \ told[Peer(e)], c \notin retired
  PROVE  Underway(Peer(e), c, "DATA") = 0 /\ News(Peer(e), c)
<1>. DEFINE p == Peer(e)
<1>0. p \in End
  BY PeerFacts
<1>1. /\ c \in listed[p] /\ loop[p] = Idle
      /\ p = "host" => hostIn # <<>> /\ Head(hostIn).chan = c /\ Head(hostIn).type \in Closing
      /\ p = "guest" => queue[c] # <<>> /\ Head(queue[c]).type \in Closing
  BY <1>0, ToldBy
<1>2. hostIn \in Seq(Wire) /\ hostOut \in Seq(Wire) /\ queue[c] \in Seq(Wire)
  BY SeqFacts
<1>3. Size(loop[p], c, "DATA") = 0
  BY <1>1, SizeFacts DEF Counted
<1>4. CASE p = "host"
  <2>1. /\ Head(hostIn) = hostIn[1] /\ 1 \in DOMAIN hostIn /\ DOMAIN hostIn = 1..Len(hostIn)
        /\ hostIn[1].chan = c /\ hostIn[1].type \in Closing
    BY <1>1, <1>2, <1>4, TailElements
  <2>2. \A j \in DOMAIN hostIn : j > 1 /\ hostIn[j].type = "DATA" => hostIn[j].chan # c
    BY <2>1 DEF EndsAreLast
  <2>3. \A j \in DOMAIN hostIn : hostIn[j].type = "DATA" => hostIn[j].chan # c
    <3>1. \A j \in DOMAIN hostIn : j = 1 \/ j > 1
      BY <2>1
    <3>. QED BY <2>1, <2>2, <3>1 DEF Closing
  <2>4. \A j \in DOMAIN hostIn : Size(hostIn[j], c, "DATA") = 0
    <3>1. \A j \in DOMAIN hostIn : hostIn[j] \in Wire
      BY <1>2
    <3>. QED BY <2>3, <3>1, SizeFacts DEF Counted
  <2>5. Between(p, c, "DATA") = 0
    BY <1>2, <1>4, <2>4, BytesNone DEF Between
  <2>6. News(p, c)
    BY <1>4, <2>1 DEF News, Ends
  <2>. QED BY <1>3, <2>5, <2>6 DEF Underway
<1>5. CASE p = "guest"
  <2>1. /\ Head(queue[c]) = queue[c][1] /\ 1 \in DOMAIN queue[c] /\ DOMAIN queue[c] = 1..Len(queue[c])
        /\ queue[c][1].type \in Closing
    BY <1>1, <1>2, <1>5, TailElements
  <2>2. c \notin routed /\ 1 = Len(queue[c])
    BY <2>1 DEF EndsAreLast
  <2>3. queue[c][1] \in Wire /\ queue[c][1].chan = c /\ \A j \in DOMAIN queue[c] : j = 1
    <3>1. \A j \in DOMAIN queue[c] : queue[c][j].chan = c
      BY DEF IInv, Domains
    <3>. QED BY <1>2, <2>1, <2>2, <3>1
  <2>4. \A j \in DOMAIN queue[c] : Size(queue[c][j], c, "DATA") = 0
    BY <2>1, <2>3, SizeFacts DEF Counted, Closing
  <2>5. e = "host"
    BY <1>5, PeerFacts DEF End
  <2>6. \A j \in DOMAIN hostOut : hostOut[j].type = "DATA" => hostOut[j].chan # c
    BY <1>1, <1>5, <2>2, <2>5 DEF Unrouted
  <2>7. \A j \in DOMAIN hostOut : Size(hostOut[j], c, "DATA") = 0
    <3>1. \A j \in DOMAIN hostOut : hostOut[j] \in Wire
      BY <1>2
    <3>. QED BY <2>6, <3>1, SizeFacts DEF Counted
  <2>8. Between(p, c, "DATA") = 0
    BY <1>2, <1>5, <2>4, <2>7, BytesNone DEF Between
  <2>9. News(p, c)
    BY <1>5, <2>1, <2>3 DEF News, Ends
  <2>. QED BY <1>3, <2>8, <2>9 DEF Underway
<1>. QED BY <1>0, <1>4, <1>5 DEF End

\* So an end that is told has written everything.
LEMMA EofComesLastKept ==
  ASSUME IInv, TypeOK, Depths, Fresh, EndsAreLast, Unrouted, Books, Partings, EofComesLast, [Next]_vars
  PROVE  EofComesLast'
<1>. SUFFICES ASSUME NEW e \in End, NEW c \in (eof'[e] \cap told'[Peer(e)]) \ retired'
              PROVE  wrote'[Peer(e)][c] = read'[e][c]
  BY DEF EofComesLast
<1>. DEFINE p == Peer(e)
<1>1. c \in Chans /\ p \in End /\ Peer(p) = e
  BY KeptAndLogged, PeerFacts DEF Logged
<1>2. c \notin retired
  <2>1. retired \subseteq retired'
    BY <1>1, StepsAreSteady DEF Steady
  <2>. QED BY <2>1
<1>3. c \in eof[e]
  <2>. SUFFICES ASSUME c \notin eof[e] PROVE FALSE
    OBVIOUS
  <2>1. PumpMeetsEOF(e, c)
    BY <1>1, StepsAreSteady DEF Steady
  <2>2. c \in listed[e] /\ c \in told[p]
    BY <2>1 DEF PumpMeetsEOF
  <2>. QED BY <1>1, <1>2, <2>2 DEF Partings
<1>4. pump[e][c] = "ended" /\ hold[e][c] = 0
  BY <1>3 DEF Partings
<1>5. read'[e][c] = read[e][c]
  BY <1>1, <1>4, ReadStays
<1>6. CASE c \in told[p]
  <2>1. c \notin listed[p]
    BY <1>1, <1>6 DEF Partings
  <2>2. wrote'[p][c] = wrote[p][c]
    BY <1>1, <2>1, WroteStays
  <2>3. wrote[p][c] = read[e][c]
    BY <1>2, <1>3, <1>6 DEF EofComesLast
  <2>. QED BY <1>5, <2>2, <2>3
<1>7. CASE c \notin told[p]
  <2>1. Underway(p, c, "DATA") = 0 /\ News(p, c)
    BY <1>1, <1>2, <1>3, <1>7, NothingBehindNews
  <2>2. wrote' = wrote /\ c \in listed[p]
    BY <1>1, <1>7, ToldBy
  <2>3. Carried(e, c) = read[e][c]
    BY <1>2, <1>3, <2>1, <2>2 DEF Partings
  <2>4. wrote[p][c] \in Nat
    BY <1>1, LocalTypes
  <2>5. wrote[p][c] = read[e][c]
    BY <1>4, <2>1, <2>3, <2>4 DEF Carried
  <2>. QED BY <1>5, <2>2, <2>5
<1>. QED BY <1>6, <1>7

-----------------------------------------------------------------------------
(* The theorems. *)

\* What the two ends hold and what is on its way between them adds up, after every step.
THEOREM CreditInvariance == Spec => []CInv
<1>1. Init => CInv
  <2>. SUFFICES ASSUME Init PROVE CInv
    OBVIOUS
  <2>1. \A e \in End, c \in Chans : /\ pump[e][c] = "none" /\ hold[e][c] = 0 /\ avail[e][c] = 0
                                    /\ read[e][c] = 0 /\ wrote[e][c] = 0 /\ answer[c] = "none"
    BY DEF Init, PerEnd
  <2>2. \A e \in End : listed[e] = {} /\ loop[e] = Idle /\ eof[e] = {} /\ told[e] = {}
    BY DEF Init
  <2>3. /\ hostIn = <<>> /\ hostOut = <<>> /\ \A c \in Chans : queue[c] = <<>>
        /\ routed = {} /\ guest = "up" /\ share = "up" /\ nextChan = 0
        /\ DOMAIN <<>> = {} /\ Len(<<>>) = 0
    BY DEF Init
  <2>4. TypeOK
    <3>1. \A x : PerEnd(x) \in [End -> [Chans -> {x}]]
      BY DEF PerEnd
    <3>2. /\ pump \in [End -> [Chans -> {"none", "opening", "reading", "waiting", "sending", "ended"}]]
          /\ hold \in [End -> [Chans -> {0} \cup Chunks]] /\ avail \in [End -> [Chans -> 0..InitialWindow]]
          /\ read \in [End -> [Chans -> Nat]] /\ wrote \in [End -> [Chans -> Nat]]
      <4>1. pump \in [End -> [Chans -> {"none"}]] /\ hold \in [End -> [Chans -> {0}]]
            /\ avail \in [End -> [Chans -> {0}]] /\ read \in [End -> [Chans -> {0}]]
            /\ wrote \in [End -> [Chans -> {0}]]
        BY <3>1 DEF Init
      <4>2. 0 \in 0..InitialWindow
        BY EndsAssumption
      <4>. QED BY <4>1, <4>2
    <3>3. \A e \in End, c \in Chans : read[e][c] <= MaxBytes(e) /\ wrote[e][c] <= MaxBytes(Peer(e))
      <4>1. \A e : MaxBytes(e) \in Nat
        BY EndsAssumption DEF MaxBytes
      <4>. QED BY <2>1, <4>1
    <3>4. /\ hostIn \in Seq(Frames) /\ hostOut \in Seq(Frames) /\ queue \in [Chans -> Seq(Frames)]
          /\ Len(hostOut) <= SenderDepth /\ \A c \in Chans : Len(queue[c]) <= QueueDepth + 1
      BY EndsAssumption DEF Init
    <3>5. loop \in [End -> {Idle} \cup Frames] /\ answer \in [Chans -> {"none", "ok", "refused"}]
      BY DEF Init
    <3>6. /\ listed \in [End -> SUBSET Chans] /\ eof \in [End -> SUBSET Chans] /\ told \in [End -> SUBSET Chans]
          /\ routed \subseteq Chans /\ retired \subseteq Chans /\ dropped \subseteq Chans /\ late \subseteq Chans
          /\ guest \in {"up", "closing", "left"} /\ share \in {"up", "failed", "over"}
          /\ nextChan \in 0..MaxChannels
      BY EndsAssumption DEF Init
    <3>. QED BY <3>2, <3>3, <3>4, <3>5, <3>6 DEF TypeOK
  <2>5. Depths /\ EndsAreLast /\ Unrouted /\ Partings /\ EofComesLast
    <3>1. Depths
      BY <2>1, <2>3 DEF Depths
    <3>2. EndsAreLast
      BY <2>3 DEF EndsAreLast
    <3>3. Unrouted
      BY <2>2 DEF Unrouted, End
    <3>4. Partings /\ EofComesLast
      BY <2>2, PeerFacts DEF Partings, EofComesLast
    <3>. QED BY <3>1, <3>2, <3>3, <3>4
  <2>6. Fresh
    BY <2>1, <2>2, <2>3 DEF Fresh, End
  <2>7. Books
    <3>. SUFFICES ASSUME NEW e \in End, NEW c \in Chans PROVE Balanced(e, c)
      BY DEF Books
    <3>1. \A x \in End, t \in Counted : Underway(x, c, t) = 0
      <4>. SUFFICES ASSUME NEW x \in End, NEW t \in Counted PROVE Underway(x, c, t) = 0
        OBVIOUS
      <4>1. <<>> \in Seq(Wire) /\ DOMAIN <<>> = {}
        OBVIOUS
      <4>2. Bytes(<<>>, c, t) = 0
        BY <4>1, BytesNone DEF Counted
      <4>. QED BY <2>2, <2>3, <4>2, SizeFacts DEF Underway, Between
    <3>2. Underway(Peer(e), c, "DATA") = 0 /\ Underway(e, c, "WINDOW") = 0
      BY <3>1, PeerFacts DEF Counted
    <3>3. wrote[Peer(e)][c] = 0 /\ ~Whole(c)
      BY <2>1, <2>3, PeerFacts DEF Whole
    <3>. QED BY <2>1, <3>2, <3>3, EndsAssumption DEF Balanced, Window, Carried
  <2>. QED BY <2>4, <2>5, <2>6, <2>7 DEF CInv
<1>2. IInv /\ CInv /\ [Next]_vars => CInv'
  <2>. SUFFICES ASSUME IInv, CInv, [Next]_vars PROVE CInv'
    OBVIOUS
  <2>1. TypeOK /\ Depths /\ Fresh /\ EndsAreLast /\ Unrouted /\ Books /\ Partings /\ EofComesLast
    BY DEF CInv
  <2>2. TypeOK' /\ Depths' /\ Fresh'
    BY <2>1, TypeKept, DepthsKept, FreshKept
  <2>3. EndsAreLast' /\ Unrouted' /\ Books'
    BY <2>1, EndsAreLastKept, UnroutedKept, BooksKept
  <2>4. Partings' /\ EofComesLast'
    BY <2>1, PartingsKept, EofComesLastKept
  <2>. QED BY <2>2, <2>3, <2>4 DEF CInv
<1>. QED BY <1>1, <1>2, Invariance, PTL DEF Spec

\* Whatever the window and the depths of the queues, every variable stays in its domain: no
\* end has more credit than the window it was granted (window.go:17-19), the queue of the
\* host's sender is no longer than its depth and a queue of the relay by no more than the one
\* slot kept for its own CLOSE (forward.go:52-55).
THEOREM TypeOKHolds == Spec => []TypeOK
<1>1. CInv => TypeOK
  BY DEF CInv
<1>. QED BY <1>1, CreditInvariance, PTL

\* Credit is conserved: while a stream is up, what an end may still send, what it has sent
\* that nobody has written and what is on its way back make up the window, and no byte of
\* the stream is lost (window.go:42-81, forward_guest.go:188, forward_host.go:201).
THEOREM CreditKeptHolds == Spec => []CreditKept
<1>1. CInv => CreditKept
  <2>. SUFFICES ASSUME CInv, NEW e \in End, NEW c \in Chans,
                       c \in listed[e] \cap listed[Peer(e)] \cap routed, share = "up"
                PROVE  Window(e, c) = InitialWindow /\ Carried(e, c) = read[e][c]
    BY DEF CreditKept
  <2>1. Whole(c)
    BY PeerFacts DEF Whole
  <2>2. Balanced(e, c)
    BY DEF CInv, Books
  <2>. QED BY <2>1, <2>2 DEF Balanced
<1>. QED BY <1>1, CreditInvariance, PTL

\* The end of a stream overtakes nothing: an end told that the other's application is done
\* has written every byte it read, unless the relay gave the stream up (session/forward.go:379).
THEOREM EofComesLastHolds == Spec => []EofComesLast
<1>1. CInv => EofComesLast
  BY DEF CInv
<1>. QED BY <1>1, CreditInvariance, PTL
=============================================================================
