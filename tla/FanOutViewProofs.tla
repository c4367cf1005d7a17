-------------------------- MODULE FanOutViewProofs --------------------------
(***************************************************************************)
(* What every guest of a shared terminal sees, for any number of guests,    *)
(* queues of any depth, any ring and any output: no gap, the window size,   *)
(* as much of the latest output as the ring may keep, and the terminal that *)
(* module SharedTerminal promises.                                          *)
(***************************************************************************)
EXTENDS BridgeFanOutProofs, FiniteSetTheorems, WellFoundedInduction

-----------------------------------------------------------------------------
(* The least and the greatest of some numbers. *)

LEMMA HasLeast ==
  ASSUME NEW T \in SUBSET Nat, T # {}
  PROVE  \E x \in T : \A y \in T : x <= y
<1>. DEFINE R == OpToRel(<, Nat)
<1>1. IsWellFoundedOn(R, Nat)
  BY NatLessThanWellFounded
<1>2. \A x, y \in Nat : y < x => <<y, x>> \in R
  BY DEF OpToRel
<1>. HIDE DEF R
<1>3. PICK x \in T : \A y \in T : ~ (<<y, x>> \in R)
  BY <1>1, WFMin
<1>4. ASSUME NEW y \in T
      PROVE  x <= y
  <2>1. x \in Nat /\ y \in Nat /\ ~ (<<y, x>> \in R)
    BY <1>3
  <2>2. ~ (y < x)
    BY <1>2, <2>1, Zenon
  <2>. QED BY <2>1, <2>2
<1>. QED BY <1>4

LEMMA HasGreatest ==
  ASSUME NEW n \in Nat, NEW T \in SUBSET (0..n), T # {}
  PROVE  \E x \in T : \A y \in T : y <= x
<1>. DEFINE D == {n - y : y \in T}
<1>1. D \in SUBSET Nat /\ D # {}
  <2>1. \A y \in T : n - y \in Nat
    OBVIOUS
  <2>2. D \subseteq Nat
    BY <2>1, Zenon
  <2>3. D # {}
    OBVIOUS
  <2>. QED BY <2>2, <2>3
<1>2. PICK d \in D : \A e \in D : d <= e
  <2>. HIDE DEF D
  <2>. QED BY <1>1, HasLeast
<1>3. PICK x \in T : d = n - x
  BY <1>2
<1>4. \A y \in T : d <= n - y
  BY <1>2
<1>5. \A y \in T : y <= x
  BY <1>3, <1>4
<1>. QED BY <1>5

-----------------------------------------------------------------------------
(* Sequences put together. *)

LEMMA AppendIs ==
  ASSUME NEW S, NEW s \in Seq(S), NEW f \in S
  PROVE  /\ Append(s, f) \in Seq(S) /\ Len(s) \in Nat
         /\ DOMAIN s = 1..Len(s) /\ DOMAIN Append(s, f) = 1..(Len(s) + 1)
         /\ Len(Append(s, f)) = Len(s) + 1
         /\ \A i \in 1..Len(s) : Append(s, f)[i] = s[i]
         /\ Append(s, f)[Len(s) + 1] = f
<1>. DEFINE a == Append(s, f)
<1>1. /\ a \in Seq(S) /\ Len(a) = Len(s) + 1 /\ Len(s) \in Nat /\ DOMAIN s = 1..Len(s)
      /\ \A i \in 1..Len(s) : a[i] = s[i]
      /\ a[Len(s) + 1] = f
  BY AppendProperties, LenProperties
<1>2. DOMAIN a = 1..Len(a)
  <2>. HIDE DEF a
  <2>. QED BY <1>1, LenProperties
<1>. QED BY <1>1, <1>2

LEMMA ConcatIs ==
  ASSUME NEW S, NEW s \in Seq(S), NEW t \in Seq(S)
  PROVE  /\ s \o t \in Seq(S) /\ Len(s) \in Nat /\ Len(t) \in Nat
         /\ DOMAIN s = 1..Len(s) /\ DOMAIN t = 1..Len(t)
         /\ DOMAIN (s \o t) = 1..(Len(s) + Len(t)) /\ Len(s \o t) = Len(s) + Len(t)
         /\ \A i \in 1..Len(s) : (s \o t)[i] = s[i]
         /\ \A i \in 1..Len(t) : (s \o t)[Len(s) + i] = t[i]
<1>. DEFINE c == s \o t
<1>1. /\ c \in Seq(S) /\ Len(c) = Len(s) + Len(t) /\ Len(s) \in Nat /\ Len(t) \in Nat
      /\ DOMAIN s = 1..Len(s) /\ DOMAIN t = 1..Len(t)
      /\ \A i \in 1..(Len(s) + Len(t)) : c[i] = IF i <= Len(s) THEN s[i] ELSE t[i - Len(s)]
  BY ConcatProperties, LenProperties
<1>2. DOMAIN c = 1..Len(c)
  <2>. HIDE DEF c
  <2>. QED BY <1>1, LenProperties
<1>3. \A i \in 1..Len(s) : i \in 1..(Len(s) + Len(t)) /\ i <= Len(s)
  BY <1>1
<1>4. \A i \in 1..Len(t) : /\ Len(s) + i \in 1..(Len(s) + Len(t)) /\ ~(Len(s) + i <= Len(s))
                           /\ (Len(s) + i) - Len(s) = i
  BY <1>1
<1>. HIDE DEF c
<1>5. /\ \A i \in 1..Len(s) : c[i] = s[i]
      /\ \A i \in 1..Len(t) : c[Len(s) + i] = t[i]
  BY <1>1, <1>3, <1>4
<1>. QED BY <1>1, <1>2, <1>5 DEF c

LEMMA HeadFirst ==
  ASSUME NEW S, NEW q \in Seq(S), q # <<>>
  PROVE  /\ Head(q) \in S /\ Tail(q) \in Seq(S)
         /\ <<Head(q)>> \o Tail(q) = q
<1>. DEFINE t == Tail(q)
            h == Head(q)
            c == <<h>> \o t
<1>1. /\ h \in S /\ t \in Seq(S) /\ Len(t) = Len(q) - 1 /\ h = q[1]
      /\ \A i \in 1..Len(t) : t[i] = q[i + 1]
  BY HeadTailProperties
<1>2. Len(q) \in Nat \ {0} /\ DOMAIN q = 1..Len(q)
  BY EmptySeq, LenProperties
<1>. HIDE DEF t, h
<1>3. /\ c \in Seq(S) /\ Len(c) = Len(q) /\ \A i \in 1..Len(q) : c[i] = q[i]
  <2>1. <<h>> \in Seq(S) /\ Len(<<h>>) = 1 /\ <<h>>[1] = h
    BY <1>1
  <2>2. /\ c \in Seq(S) /\ Len(c) = 1 + Len(t) /\ c[1] = h
        /\ \A i \in 1..Len(t) : c[1 + i] = t[i]
    <3>. DEFINE o == <<h>>
    <3>. HIDE DEF o
    <3>1. o \in Seq(S) /\ Len(o) = 1 /\ o[1] = h
      BY <2>1 DEF o
    <3>2. /\ o \o t \in Seq(S) /\ Len(o \o t) = Len(o) + Len(t)
          /\ \A i \in 1..Len(o) : (o \o t)[i] = o[i]
          /\ \A i \in 1..Len(t) : (o \o t)[Len(o) + i] = t[i]
      <4>1. o \in Seq(S) /\ t \in Seq(S)
        BY <1>1, <3>1
      <4>. QED BY <4>1, ConcatIs
    <3>3. 1 \in 1..Len(o)
      BY <3>1
    <3>. QED BY <3>1, <3>2, <3>3 DEF o
  <2>. HIDE DEF c
  <2>3. ASSUME NEW i \in 1..Len(q)
        PROVE  c[i] = q[i]
    <3>1. CASE i = 1
      BY <1>1, <2>2, <3>1
    <3>2. CASE i # 1
      <4>1. i - 1 \in 1..Len(t) /\ 1 + (i - 1) = i /\ (i - 1) + 1 = i
        BY <1>1, <1>2, <3>2
      <4>. QED BY <1>1, <2>2, <4>1
    <3>. QED BY <3>1, <3>2
  <2>. QED BY <1>1, <1>2, <2>2, <2>3
<1>. HIDE DEF c
<1>4. c = q
  BY <1>3, SeqEqual
<1>. QED BY <1>1, <1>4 DEF c, h, t

-----------------------------------------------------------------------------
(* Counting bytes. *)

\* A set of numbers with 0 and every successor up to n has all of them.
LEMMA UpToAll ==
  ASSUME NEW n \in Nat, NEW T, 0 \in T, \A i \in 0..(n - 1) : i \in T => i + 1 \in T
  PROVE  \A i \in 0..n : i \in T
<1>. SUFFICES ASSUME NEW k \in 0..n, k \notin T PROVE FALSE
  OBVIOUS
<1>. DEFINE S == {i \in 0..n : i \notin T}
<1>1. S \in SUBSET Nat /\ S # {}
  OBVIOUS
<1>2. PICK x \in S : \A y \in S : x <= y
  <2>. HIDE DEF S
  <2>. QED BY <1>1, HasLeast
<1>3. x \in 0..n /\ x \notin T /\ x # 0
  BY <1>2
<1>4. x - 1 \in 0..(n - 1) /\ (x - 1) + 1 = x /\ x - 1 \notin S
  BY <1>2, <1>3
<1>5. x - 1 \in T
  BY <1>3, <1>4
<1>. QED BY <1>3, <1>4, <1>5

Sized == \A n \in 1..MaxFrames : length[n] \in Nat

\* c counts the bytes of the first payloads of s.
Counts(c, s) ==
  /\ c \in [0..Len(s) -> Int] /\ c[0] = 0
  /\ \A i \in 1..Len(s) : c[i] = c[i - 1] + length[s[i]]

LEMMA CountExists ==
  ASSUME NEW s \in Seq(1..MaxFrames), Sized
  PROVE  \E c : Counts(c, s)
<1>. DEFINE A(c, n) == /\ c \in [0..n -> Int] /\ c[0] = 0
                       /\ \A i \in 1..n : c[i] = c[i - 1] + length[s[i]]
            T == {n \in Nat : \E c : A(c, n)}
<1>1. Len(s) \in Nat /\ \A i \in 1..Len(s) : length[s[i]] \in Int
  <2>1. \A i \in 1..Len(s) : s[i] \in 1..MaxFrames
    BY ElementOfSeq
  <2>. QED BY <2>1, LenProperties DEF Sized
<1>2. 0 \in T
  <2>. DEFINE z == [i \in 0..0 |-> 0]
  <2>1. A(z, 0)
    OBVIOUS
  <2>. HIDE DEF z, A
  <2>. QED BY <2>1
<1>3. ASSUME NEW n \in 0..(Len(s) - 1), n \in T
      PROVE  n + 1 \in T
  <2>1. \E c : A(c, n)
    <3>. HIDE DEF A
    <3>. QED BY <1>3
  <2>2. PICK c : A(c, n)
    <3>. HIDE DEF A
    <3>. QED BY <2>1
  <2>. DEFINE d == [i \in 0..(n + 1) |-> IF i = n + 1 THEN c[n] + length[s[n + 1]] ELSE c[i]]
  <2>3. length[s[n + 1]] \in Int /\ c[n] \in Int /\ n \in Nat /\ n + 1 \in Nat
    BY <1>1, <2>2
  <2>4. A(d, n + 1)
    <3>1. d \in [0..(n + 1) -> Int] /\ d[0] = 0
      BY <2>2, <2>3
    <3>2. ASSUME NEW i \in 1..(n + 1)
          PROVE  d[i] = d[i - 1] + length[s[i]]
      <4>1. CASE i = n + 1
        BY <2>2, <2>3, <4>1
      <4>2. CASE i # n + 1
        <5>1. i \in 1..n /\ i - 1 \in 0..(n + 1) /\ i - 1 # n + 1 /\ i \in 0..(n + 1)
          BY <2>3, <4>2
        <5>. QED BY <2>2, <4>2, <5>1
      <4>. QED BY <4>1, <4>2
    <3>. QED BY <3>1, <3>2
  <2>. HIDE DEF d, A
  <2>. QED BY <2>3, <2>4
<1>4. Len(s) \in T
  <2>. HIDE DEF T
  <2>1. \A i \in 0..Len(s) : i \in T
    BY <1>1, <1>2, <1>3, UpToAll
  <2>. QED BY <1>1, <2>1
<1>5. \E c : A(c, Len(s))
  <2>. HIDE DEF A
  <2>. QED BY <1>4
<1>. QED BY <1>5 DEF Counts

LEMMA BytesAreCounted ==
  ASSUME NEW s \in Seq(1..MaxFrames), Sized, NEW c, Counts(c, s)
  PROVE  Bytes(s) = c[Len(s)]
<1>. DEFINE D(f) == [i \in 0..Len(s) |-> IF i = 0 THEN 0 ELSE f[i - 1] + length[s[i]]]
            f0 == CHOOSE f : f = D(f)
<1>1. Len(s) \in Nat
  BY LenProperties
<1>2. c = D(c)
  BY <1>1 DEF Counts
<1>3. f0 = D(f0)
  BY <1>2
<1>4. Bytes(s) = f0[Len(s)]
  BY DEF Bytes
<1>5. f0[0] = 0 /\ \A i \in 1..Len(s) : f0[i] = f0[i - 1] + length[s[i]]
  <2>. HIDE DEF f0
  <2>. QED BY <1>1, <1>3
<1>. HIDE DEF f0, D
<1>. DEFINE T == {n \in Nat : f0[n] = c[n]}
<1>6. 0 \in T
  BY <1>5 DEF Counts
<1>7. ASSUME NEW n \in 0..(Len(s) - 1), n \in T
      PROVE  n + 1 \in T
  <2>1. c[n] = f0[n] /\ n + 1 \in 1..Len(s) /\ (n + 1) - 1 = n /\ n + 1 \in Nat
    BY <1>1, <1>7
  <2>. QED BY <1>5, <2>1 DEF Counts
<1>. HIDE DEF T
<1>8. Len(s) \in T
  <2>1. \A n \in 0..Len(s) : n \in T
    BY <1>1, <1>6, <1>7, UpToAll
  <2>. QED BY <1>1, <2>1
<1>. QED BY <1>4, <1>8 DEF T

\* The bytes from one payload on are those up to the end less those before it.
LEMMA BytesFrom ==
  ASSUME NEW s \in Seq(1..MaxFrames), Sized, NEW c, Counts(c, s), NEW k \in 1..Len(s)
  PROVE  Bytes(SubSeq(s, k, Len(s))) = c[Len(s)] - c[k - 1]
<1>. DEFINE m == Len(s)
            u == SubSeq(s, k, m)
<1>1. m \in Nat /\ k \in Nat
  BY LenProperties
<1>2. /\ u \in Seq(1..MaxFrames) /\ Len(u) = m - k + 1
      /\ \A i \in 1..(m - k + 1) : u[i] = s[k + i - 1]
  <2>1. \A i \in k..m : s[i] \in 1..MaxFrames
    <3>1. \A i \in 1..m : s[i] \in 1..MaxFrames
      BY ElementOfSeq
    <3>. QED BY <1>1, <3>1
  <2>2. k <= m
    BY <1>1
  <2>. HIDE DEF m
  <2>. QED BY <1>1, <2>1, <2>2, SubSeqProperties
<1>3. /\ c \in [0..m -> Int]
      /\ \A i \in 1..m : c[i] = c[i - 1] + length[s[i]]
  BY DEF Counts
<1>. HIDE DEF u
<1>. DEFINE l == m - k + 1
            d == [i \in 0..l |-> c[k - 1 + i] - c[k - 1]]
<1>4. l \in Nat /\ k - 1 \in 0..m /\ k - 1 + l = m /\ \A i \in 0..l : k - 1 + i \in 0..m
  BY <1>1
<1>5. d \in [0..l -> Int] /\ d[0] = 0
  <2>1. k - 1 + 0 = k - 1 /\ 0 \in 0..l /\ c[k - 1] \in Int
    BY <1>1, <1>3, <1>4
  <2>2. \A i \in 0..l : c[k - 1 + i] - c[k - 1] \in Int
    <3>1. \A i \in 0..l : c[k - 1 + i] \in Int
      <4>. HIDE DEF l, m
      <4>. QED BY <1>3, <1>4
    <3>. HIDE DEF l, m
    <3>2. ASSUME NEW i \in 0..l
          PROVE  c[k - 1 + i] - c[k - 1] \in Int
      <4>1. c[k - 1 + i] \in Int /\ c[k - 1] \in Int
        BY <2>1, <3>1
      <4>. QED BY <4>1
    <3>. QED BY <3>2
  <2>3. c[k - 1 + 0] - c[k - 1] = 0
    BY <2>1
  <2>. HIDE DEF l, m
  <2>. QED BY <2>1, <2>2, <2>3
<1>6. ASSUME NEW i \in 1..l
      PROVE  d[i] = d[i - 1] + length[u[i]]
  <2>1. k - 1 + i \in 1..m /\ (k - 1 + i) - 1 = k - 1 + (i - 1) /\ k + i - 1 = k - 1 + i
        /\ i - 1 \in 0..l /\ i \in 0..l
    BY <1>1, <1>4
  <2>2. c[k - 1 + i] = c[k - 1 + (i - 1)] + length[u[i]]
    <3>1. u[i] = s[k - 1 + i]
      BY <1>2, <2>1
    <3>. HIDE DEF l, m
    <3>. QED BY <1>3, <2>1, <3>1
  <2>3. c[k - 1 + (i - 1)] \in Int /\ c[k - 1] \in Int /\ c[k - 1 + i] \in Int
    <3>. HIDE DEF l
    <3>. QED BY <1>3, <1>4, <2>1
  <2>4. length[u[i]] \in Int
    <3>1. u[i] \in 1..MaxFrames
      BY <1>2, ElementOfSeq
    <3>. QED BY <3>1 DEF Sized
  <2>5. d[i] = c[k - 1 + i] - c[k - 1] /\ d[i - 1] = c[k - 1 + (i - 1)] - c[k - 1]
    <3>. HIDE DEF l, m
    <3>. QED BY <2>1
  <2>. HIDE DEF d, l, m
  <2>. QED BY <2>2, <2>3, <2>4, <2>5
<1>7. Len(u) = l
  BY <1>2
<1>8. d[l] = c[m] - c[k - 1]
  <2>. HIDE DEF l, m
  <2>. QED BY <1>4
<1>. HIDE DEF d, l, m
<1>9. Counts(d, u)
  BY <1>5, <1>6, <1>7 DEF Counts
<1>. QED BY <1>2, <1>7, <1>8, <1>9, BytesAreCounted DEF u, m

\* The bytes of all but the last payload.
LEMMA BytesBefore ==
  ASSUME NEW s \in Seq(1..MaxFrames), Sized, NEW n \in 1..MaxFrames, NEW c,
         Counts(c, Append(s, n))
  PROVE  Bytes(s) = c[Len(s)] /\ c[Len(s)] \in Int /\ c[Len(s) + 1] = c[Len(s)] + length[n]
<1>. DEFINE a == Append(s, n)
            m == Len(s)
            d == [i \in 0..m |-> c[i]]
<1>1. /\ m \in Nat /\ Len(a) = m + 1 /\ a[m + 1] = n
      /\ \A i \in 1..m : a[i] = s[i]
  BY AppendIs
<1>2. /\ c \in [0..(m + 1) -> Int] /\ c[0] = 0
      /\ \A i \in 1..(m + 1) : c[i] = c[i - 1] + length[a[i]]
  <2>. HIDE DEF a, m
  <2>. QED BY <1>1 DEF Counts, a
<1>. HIDE DEF a
<1>3. d \in [0..m -> Int] /\ d[0] = 0 /\ d[m] = c[m] /\ c[m] \in Int
  <2>. HIDE DEF m
  <2>. QED BY <1>1, <1>2
<1>4. \A i \in 1..m : d[i] = d[i - 1] + length[s[i]]
  <2>. HIDE DEF m
  <2>. QED BY <1>1, <1>2
<1>5. Counts(d, s)
  <2>. HIDE DEF d
  <2>. QED BY <1>3, <1>4 DEF Counts
<1>6. c[m + 1] = c[m] + length[n]
  <2>1. m + 1 \in 1..(m + 1) /\ (m + 1) - 1 = m
    BY <1>1
  <2>. HIDE DEF m
  <2>. QED BY <1>1, <1>2, <2>1
<1>. HIDE DEF d
<1>7. Bytes(s) = d[m]
  BY <1>5, BytesAreCounted
<1>. QED BY <1>3, <1>6, <1>7

-----------------------------------------------------------------------------
(* frameRing.Add. *)

LEMMA BytesOfOne ==
  ASSUME NEW n \in 1..MaxFrames, Sized
  PROVE  Bytes(<<n>>) = length[n]
<1>. DEFINE o == <<n>>
<1>1. o \in Seq(1..MaxFrames) /\ Len(o) = 1 /\ o[1] = n
  OBVIOUS
<1>. HIDE DEF o
<1>2. PICK c : Counts(c, o)
  BY <1>1, CountExists
<1>3. c[1] = c[0] + length[n] /\ c[0] = 0
  BY <1>1, <1>2 DEF Counts
<1>4. Bytes(o) = c[1]
  BY <1>1, <1>2, BytesAreCounted
<1>. QED BY <1>3, <1>4 DEF o, Sized

LEMMA LastAlone ==
  ASSUME NEW S, NEW s \in Seq(S), NEW n \in S
  PROVE  SubSeq(Append(s, n), Len(s) + 1, Len(s) + 1) = <<n>>
<1>. DEFINE a == Append(s, n)
            m == Len(s) + 1
            o == <<n>>
<1>1. m \in Nat /\ a[m] = n /\ DOMAIN a = 1..m
  BY AppendIs
<1>2. o \in Seq(S) /\ Len(o) = 1 /\ o[1] = n
  OBVIOUS
<1>. HIDE DEF a, m, o
<1>3. \A i \in m..m : a[i] \in S
  BY <1>1
<1>4. /\ SubSeq(a, m, m) \in Seq(S) /\ Len(SubSeq(a, m, m)) = 1
      /\ SubSeq(a, m, m)[1] = n
  <2>1. /\ SubSeq(a, m, m) \in Seq(S) /\ Len(SubSeq(a, m, m)) = IF m <= m THEN m - m + 1 ELSE 0
        /\ \A i \in 1..(m - m + 1) : SubSeq(a, m, m)[i] = a[m + i - 1]
    BY <1>1, <1>3, SubSeqProperties
  <2>2. m - m + 1 = 1 /\ m <= m /\ m + 1 - 1 = m /\ 1 \in 1..1
    BY <1>1
  <2>. QED BY <1>1, <2>1, <2>2
<1>5. SubSeq(a, m, m) = o
  <2>. DEFINE u == SubSeq(a, m, m)
  <2>1. u \in Seq(S) /\ Len(u) = 1 /\ u[1] = n
    BY <1>4
  <2>. HIDE DEF u
  <2>2. u = o
    BY <1>2, <2>1, SeqEqual
  <2>. QED BY <2>2 DEF u
<1>. QED BY <1>5 DEF a, m, o

\* What is added stays, and what stays is the end of what there was: as much of it as fits.
LEMMA RingAddDoes ==
  ASSUME NEW s \in Seq(1..MaxFrames), NEW n \in 1..MaxFrames, Sized
  PROVE  /\ length[n] = 0 => RingAdd(s, n) = s
         /\ length[n] >= RingBytes => RingAdd(s, n) = <<n>>
         /\ length[n] # 0 /\ length[n] < RingBytes =>
              \E k \in 1..(Len(s) + 1) :
                 LET kept(j) == SubSeq(Append(s, n), j, Len(s) + 1)
                 IN  /\ RingAdd(s, n) = kept(k) /\ Bytes(kept(k)) <= RingBytes
                     /\ \A j \in 1..(k - 1) : Bytes(kept(j)) > RingBytes
<1>. DEFINE all   == Append(s, n)
            m     == Len(s) + 1
            fit   == {k \in 1..Len(all) : Bytes(From(all, k)) <= RingBytes}
            start == CHOOSE k \in fit : \A j \in fit : k <= j
<1>0. length[n] \in Nat
  BY DEF Sized
<1>1. /\ length[n] = 0 => RingAdd(s, n) = s
      /\ length[n] >= RingBytes => RingAdd(s, n) = <<n>>
      /\ length[n] # 0 /\ ~(length[n] >= RingBytes) => RingAdd(s, n) = From(all, start)
  <2>. HIDE DEF fit
  <2>. QED BY <1>0, BridgeAssumption DEF RingAdd, fit
<1>2. m \in Nat /\ Len(all) = m /\ m \in 1..m
  BY AppendIs
<1>3. SubSeq(all, m, m) = <<n>>
  BY LastAlone
<1>4. ASSUME length[n] < RingBytes
      PROVE  /\ start \in fit /\ \A j \in fit : start <= j
             /\ fit \subseteq 1..m
  <2>1. m \in fit
    <3>1. From(all, m) = <<n>>
      BY <1>2, <1>3 DEF From
    <3>2. Bytes(From(all, m)) <= RingBytes
      BY <1>0, <1>4, <3>1, BytesOfOne, BridgeAssumption
    <3>. HIDE DEF all, m
    <3>. QED BY <1>2, <3>2
  <2>2. fit \in SUBSET Nat /\ fit \subseteq 1..m
    <3>. HIDE DEF all, m
    <3>. QED BY <1>2
  <2>. HIDE DEF fit, m
  <2>3. \E k \in fit : \A j \in fit : k <= j
    BY <2>1, <2>2, HasLeast
  <2>. QED BY <2>2, <2>3
<1>5. \A k : From(all, k) = SubSeq(all, k, m)
  BY <1>2 DEF From
<1>6. ASSUME length[n] # 0, length[n] < RingBytes
      PROVE  /\ start \in 1..m /\ RingAdd(s, n) = SubSeq(all, start, m)
             /\ Bytes(SubSeq(all, start, m)) <= RingBytes
             /\ \A j \in 1..(start - 1) : Bytes(SubSeq(all, j, m)) > RingBytes
  <2>1. start \in fit /\ (\A j \in fit : start <= j) /\ fit \subseteq 1..m
    BY <1>4, <1>6
  <2>2. RingAdd(s, n) = From(all, start)
    BY <1>0, <1>1, <1>6, BridgeAssumption
  <2>3. \A k : k \in fit <=> k \in 1..m /\ Bytes(SubSeq(all, k, m)) <= RingBytes
    BY <1>2, <1>5
  <2>. HIDE DEF fit, start, all, m
  <2>4. \A j \in 1..m : Bytes(SubSeq(all, j, m)) \in Int
    <3>1. all \in Seq(1..MaxFrames)
      BY AppendIs DEF all
    <3>2. PICK c : Counts(c, all)
      BY <3>1, CountExists
    <3>3. \A j \in 1..m : Bytes(SubSeq(all, j, m)) = c[m] - c[j - 1]
      BY <1>2, <3>1, <3>2, BytesFrom
    <3>4. \A j \in 0..m : c[j] \in Int
      BY <1>2, <3>2 DEF Counts
    <3>5. ASSUME NEW j \in 1..m
          PROVE  Bytes(SubSeq(all, j, m)) \in Int
      <4>1. m \in 0..m /\ j - 1 \in 0..m
        BY <1>2
      <4>. QED BY <3>3, <3>4, <4>1
    <3>. QED BY <3>5
  <2>5. ASSUME NEW j \in 1..(start - 1)
        PROVE  Bytes(SubSeq(all, j, m)) > RingBytes
    <3>1. start \in 1..m /\ j \in 1..m /\ ~(start <= j)
      BY <1>2, <2>1
    <3>2. j \notin fit
      BY <2>1, <3>1
    <3>3. ~(Bytes(SubSeq(all, j, m)) <= RingBytes)
      BY <2>3, <3>1, <3>2
    <3>. QED BY <2>4, <3>1, <3>3, BridgeAssumption
  <2>. QED BY <1>5, <2>1, <2>2, <2>3, <2>5
<1>. HIDE DEF fit, start
<1>. QED BY <1>1, <1>6

LEMMA RingAddIs ==
  ASSUME NEW s \in Seq(1..MaxFrames), NEW n \in 1..MaxFrames, Sized
  PROVE  /\ length[n] = 0 => RingAdd(s, n) = s
         /\ length[n] # 0 => \E k \in 1..(Len(s) + 1) :
                RingAdd(s, n) = SubSeq(Append(s, n), k, Len(s) + 1)
<1>1. SubSeq(Append(s, n), Len(s) + 1, Len(s) + 1) = <<n>>
  BY LastAlone
<1>2. Len(s) + 1 \in 1..(Len(s) + 1) /\ length[n] \in Nat /\ RingBytes \in Nat
  BY LenProperties, BridgeAssumption DEF Sized
<1>3. CASE length[n] >= RingBytes
  BY <1>1, <1>2, <1>3, RingAddDoes, BridgeAssumption
<1>4. CASE length[n] # 0 /\ length[n] < RingBytes
  BY <1>4, RingAddDoes
<1>5. CASE length[n] = 0
  BY <1>5, RingAddDoes
<1>6. length[n] = 0 \/ length[n] >= RingBytes \/ (length[n] # 0 /\ length[n] < RingBytes)
  BY <1>2
<1>. QED BY <1>3, <1>4, <1>5, <1>6, Zenon

-----------------------------------------------------------------------------
(* Types. *)

\* What Domains leaves out of TypeOK.
Rest ==
  /\ host \in BOOLEAN /\ closed \in BOOLEAN
  /\ size \in Windows \cup {NoSize}
  /\ scroll \in Seq(1..MaxFrames)
  /\ hostPc \in {"away", "recv", "cast", "kill", "closing", "done"}
  /\ backlog \in [Guests -> Seq(Frame)]
  /\ \A g \in Guests : Len(queue[g]) <= QueueDepth
  /\ killed \in [Guests -> BOOLEAN]
  /\ typed \in [Guests -> 0..MaxTyped]
  /\ seen \in [Guests -> Seq(Frame)]
  /\ length \in [1..MaxFrames -> Lengths]

LEMMA HeldIsSeq == ASSUME Domains PROVE held \in [Guests -> Seq(Frame)]
<1>1. ASSUME NEW g \in Guests
      PROVE  held[g] \in Seq(Frame)
  <2>1. CASE held[g] = <<>>
    BY <2>1, EmptySeq
  <2>2. ASSUME NEW f \in Frame, held[g] = <<f>>
        PROVE  held[g] \in Seq(Frame)
    <3>1. <<f>> \in Seq(Frame)
      <4>. DEFINE F == Frame
      <4>. HIDE DEF F
      <4>1. f \in F
        BY DEF F
      <4>2. <<f>> \in Seq(F)
        BY <4>1
      <4>. QED BY <4>2 DEF F
    <3>. QED BY <2>2, <3>1
  <2>3. held[g] \in {<<>>} \cup {<<f>> : f \in Frame}
    BY DEF Domains
  <2>. QED BY <2>1, <2>2, <2>3
<1>2. DOMAIN held = Guests /\ held = [g \in Guests |-> held[g]]
  BY DEF Domains
<1>. QED BY <1>1, <1>2

LEMMA TypeFrom == Domains /\ Rest => TypeOK
  BY HeldIsSeq DEF Domains, Rest, TypeOK

LEMMA TypeGives == TypeOK => Rest
  BY DEF Rest, TypeOK

LEMMA RingType ==
  ASSUME NEW s \in Seq(1..MaxFrames), NEW n \in 1..MaxFrames, Sized
  PROVE  RingAdd(s, n) \in Seq(1..MaxFrames)
<1>. DEFINE a == Append(s, n)
            m == Len(s) + 1
<1>1. /\ a \in Seq(1..MaxFrames) /\ m \in Nat /\ DOMAIN a = 1..m /\ Len(a) = m
  BY AppendIs
<1>2. ASSUME NEW k \in 1..m
      PROVE  SubSeq(a, k, m) \in Seq(1..MaxFrames)
  <2>1. \A i \in 1..m : a[i] \in 1..MaxFrames
    <3>. HIDE DEF a
    <3>. QED BY <1>1, ElementOfSeq
  <2>2. \A i \in k..m : a[i] \in 1..MaxFrames
    BY <1>1, <2>1
  <2>. HIDE DEF a, m
  <2>. QED BY <1>1, <2>2, SubSeqProperties
<1>. QED BY <1>2, RingAddIs

LEMMA HostKeepsRest ==
  ASSUME IInv, Rest,
         \/ \E w \in Windows \cup {NoSize} : HostAttach(w)
         \/ HostClose \/ HostLost \/ HostReturns \/ ShutdownBegins \/ CloseAll \/ BaseCancel
         \/ KillSlow
         \/ \E w \in Windows : HostResize(w)
  PROVE  Rest'
<1>1. UNCHANGED <<scroll, backlog, queue, typed, seen, length>>
  BY DEF HostAttach, HostClose, HostLost, HostReturns, ShutdownBegins, CloseAll, BaseCancel,
         KillSlow, HostResize, pumpVars
<1>2. /\ host' \in BOOLEAN /\ closed' \in BOOLEAN
      /\ size' \in Windows \cup {NoSize}
      /\ hostPc' \in {"away", "recv", "cast", "kill", "closing", "done"}
  BY DEF Rest, HostAttach, HostClose, HostLost, HostReturns, ShutdownBegins, CloseAll,
         BaseCancel, KillSlow, HostResize,
         CloseUnderLock, hostVars
<1>3. killed' \in [Guests -> BOOLEAN]
  <2>1. CASE KillSlow
    <3>1. killed' = [g \in Guests |-> killed[g] \/ g \in slow]
      BY <2>1 DEF KillSlow
    <3>. QED BY <3>1
  <2>2. CASE ~KillSlow
    BY <2>2 DEF Rest, HostAttach, HostClose, HostLost, HostReturns, ShutdownBegins, CloseAll,
                BaseCancel, HostResize, connVars
  <2>. QED BY <2>1, <2>2
<1>. QED BY <1>1, <1>2, <1>3 DEF Rest

LEMMA HostDataKeepsRest ==
  ASSUME IInv, Rest, HostData
  PROVE  Rest'
<1>1. /\ UNCHANGED <<host, closed, size, backlog, queue, killed, typed, seen, length>>
      /\ hostPc' = "cast" /\ scroll' = RingAdd(scroll, sent + 1) /\ frames < MaxFrames
  BY DEF HostData, connVars, pumpVars
<1>2. sent + 1 \in 1..MaxFrames
  BY <1>1, BridgeAssumption DEF IInv, Domains
<1>3. Sized
  BY BridgeAssumption DEF Rest, Sized
<1>4. scroll' \in Seq(1..MaxFrames)
  BY <1>1, <1>2, <1>3, RingType DEF Rest
<1>. QED BY <1>1, <1>4 DEF Rest

LEMMA BroadcastKeepsRest ==
  ASSUME IInv, Rest, Broadcast
  PROVE  Rest'
<1>1. /\ UNCHANGED <<host, closed, size, scroll, backlog, killed, typed, seen, length>>
      /\ hostPc' = "kill"
      /\ queue' = [g \in Guests |-> IF g \in guests \ {d \in guests : Full(queue[d])}
                                    THEN Append(queue[g], casting) ELSE queue[g]]
  BY DEF Broadcast, connVars, pumpVars
<1>2. ASSUME NEW g \in Guests
      PROVE  Len(queue'[g]) <= QueueDepth
  <2>1. CASE g \in guests /\ ~Full(queue[g])
    <3>1. queue[g] \in Seq(Frame) /\ casting \in Frame
      BY DEF IInv, Domains
    <3>2. queue'[g] = Append(queue[g], casting)
      BY <1>1, <2>1
    <3>3. Len(queue'[g]) = Len(queue[g]) + 1 /\ Len(queue[g]) \in Nat
      BY <3>1, <3>2, AppendIs
    <3>4. ~(Len(queue[g]) >= QueueDepth)
      BY <2>1 DEF Full
    <3>. QED BY <3>3, <3>4, BridgeAssumption
  <2>2. CASE ~(g \in guests /\ ~Full(queue[g]))
    BY <1>1, <2>2 DEF Rest
  <2>. QED BY <2>1, <2>2
<1>. QED BY <1>1, <1>2 DEF Rest

\* What a guest is sent first.
Greeting == (IF size = NoSize THEN <<>> ELSE <<Resize(size)>>) \o Replay(scroll)

LEMMA ReplayIs ==
  ASSUME NEW s \in Seq(1..MaxFrames)
  PROVE  /\ Replay(s) \in Seq(Frame) /\ Len(s) \in Nat /\ Len(Replay(s)) = Len(s)
         /\ DOMAIN s = 1..Len(s) /\ DOMAIN Replay(s) = 1..Len(s)
         /\ \A i \in 1..Len(s) : Replay(s)[i] = Data(s[i]) /\ s[i] \in 1..MaxFrames
<1>1. /\ Len(s) \in Nat /\ DOMAIN s = 1..Len(s) /\ \A i \in 1..Len(s) : s[i] \in 1..MaxFrames
  BY LenProperties, ElementOfSeq
<1>. DEFINE F == Frame
            r == [i \in 1..Len(s) |-> Data(s[i])]
<1>2. \A i \in 1..Len(s) : Data(s[i]) \in F
  BY <1>1 DEF Frame
<1>3. r \in Seq(F) /\ Len(r) = Len(s)
  <2>. HIDE DEF F
  <2>. QED BY <1>1, <1>2
<1>4. Replay(s) = r
  BY <1>1 DEF Replay
<1>. QED BY <1>1, <1>3, <1>4

LEMMA GreetingIs ==
  ASSUME Rest
  PROVE  Greeting \in Seq(Frame)
<1>. DEFINE F == Frame
            z == IF size = NoSize THEN <<>> ELSE <<Resize(size)>>
<1>1. size # NoSize => Resize(size) \in F
  BY DEF Rest, Frame
<1>2. Replay(scroll) \in Seq(F)
  BY ReplayIs DEF Rest
<1>3. z \in Seq(F)
  <2>. HIDE DEF F
  <2>. QED BY <1>1, EmptySeq
<1>. HIDE DEF F, z
<1>4. z \o Replay(scroll) \in Seq(F)
  BY <1>2, <1>3, ConcatIs
<1>. QED BY <1>4 DEF F, z, Greeting

LEMMA GuestKeepsRest ==
  ASSUME Domains, Rest, NEW g \in Guests,
         \/ GuestAttach(g) \/ ReplaySent(g) \/ WriterTakes(g) \/ WriterSent(g) \/ ReaderTypes(g)
  PROVE  Rest'
<1>1. UNCHANGED <<host, closed, size, scroll, hostPc, killed, length>>
  BY DEF GuestAttach, ReplaySent, WriterTakes, WriterSent, ReaderTypes, hostVars, connVars
<1>2. backlog' \in [Guests -> Seq(Frame)] /\ seen' \in [Guests -> Seq(Frame)]
  <2>1. CASE GuestAttach(g)
    <3>1. backlog' = [backlog EXCEPT ![g] = Greeting] /\ seen' = seen
      BY <2>1 DEF GuestAttach, Greeting
    <3>. QED BY <3>1, GreetingIs DEF Rest
  <2>2. CASE ReplaySent(g)
    <3>. DEFINE h == Head(backlog[g])
                t == Tail(backlog[g])
                a == Append(seen[g], h)
    <3>1. h \in Frame /\ t \in Seq(Frame)
      BY <2>2, HeadFirst DEF ReplaySent, Rest
    <3>2. a \in Seq(Frame)
      <4>. HIDE DEF h
      <4>. QED BY <3>1, AppendIs DEF Rest
    <3>3. seen' = [seen EXCEPT ![g] = a] /\ backlog' = [backlog EXCEPT ![g] = t]
      BY <2>2 DEF ReplaySent
    <3>. HIDE DEF a, h, t
    <3>. QED BY <3>1, <3>2, <3>3 DEF Rest
  <2>3. CASE WriterSent(g)
    <3>. DEFINE a == seen[g] \o held[g]
    <3>1. a \in Seq(Frame)
      BY HeldIsSeq, ConcatIs DEF Rest
    <3>2. seen' = [seen EXCEPT ![g] = a] /\ backlog' = backlog
      BY <2>3 DEF WriterSent
    <3>. HIDE DEF a
    <3>. QED BY <3>1, <3>2 DEF Rest
  <2>4. CASE WriterTakes(g) \/ ReaderTypes(g)
    BY <2>4 DEF WriterTakes, ReaderTypes, Rest
  <2>. QED BY <2>1, <2>2, <2>3, <2>4
<1>3. \A d \in Guests : Len(queue'[d]) <= QueueDepth
  <2>1. CASE WriterTakes(g)
    <3>. DEFINE q == queue[g]
                t == Tail(q)
    <3>1. q \in Seq(Frame) /\ q # <<>> /\ queue' = [queue EXCEPT ![g] = t]
      BY <2>1 DEF WriterTakes, Take, Domains
    <3>2. Len(t) = Len(q) - 1
      <4>. HIDE DEF q
      <4>. QED BY <3>1, HeadTailProperties
    <3>3. Len(q) \in Nat /\ Len(q) <= QueueDepth
      BY <3>1, LenProperties DEF Rest
    <3>4. Len(t) <= QueueDepth
      BY <3>2, <3>3, BridgeAssumption
    <3>. HIDE DEF t
    <3>. QED BY <3>1, <3>4 DEF Rest, Domains
  <2>2. CASE ~WriterTakes(g)
    BY <2>2 DEF GuestAttach, ReplaySent, WriterSent, ReaderTypes, Rest
  <2>. QED BY <2>1, <2>2
<1>4. typed' \in [Guests -> 0..MaxTyped]
  <2>1. CASE ReaderTypes(g)
    <3>1. typed' = [typed EXCEPT ![g] = @ + 1] /\ typed[g] < MaxTyped
      BY <2>1 DEF ReaderTypes
    <3>2. typed[g] + 1 \in 0..MaxTyped
      BY <3>1, BridgeAssumption DEF Rest
    <3>. QED BY <3>1, <3>2 DEF Rest
  <2>2. CASE ~ReaderTypes(g)
    BY <2>2 DEF GuestAttach, ReplaySent, WriterTakes, WriterSent, Rest, pumpVars
  <2>. QED BY <2>1, <2>2
<1>. QED BY <1>1, <1>2, <1>3, <1>4 DEF Rest

\* What a guest's other steps leave alone.
flowVars == <<host, closed, size, scroll, hostPc, casting, frames, sent, backlog, queue, killed,
              held, typed, seen, length>>

LEMMA OtherSteps ==
  ASSUME NEW g \in Guests,
         \/ StopGuest(g) \/ ReplayFails(g) \/ StartPumps(g) \/ GuestReturns(g) \/ GuestCleanup(g)
         \/ Watchdog(g) \/ GuestLost(g) \/ WriterSendFails(g) \/ WriterStops(g) \/ WriterEnds(g)
         \/ ReaderSent(g) \/ ReaderSendFails(g) \/ ReaderPings(g) \/ PongEnds(g)
         \/ ReaderCloses(g) \/ ReaderEnds(g)
  PROVE  UNCHANGED flowVars
BY DEF StopGuest, ReplayFails, StartPumps, GuestReturns, GuestCleanup, Watchdog, GuestLost,
       WriterSendFails, WriterStops, WriterEnds, ReaderSent, ReaderSendFails, ReaderPings,
       PongEnds, PongSent, PongFails, ReaderCloses,
       ReaderEnds, flowVars, hostVars, connVars, pumpVars

\* The steps, those of a guest that move no frame and type nothing taken together.
LEMMA Steps ==
  ASSUME [Next]_vars
  PROVE  \/ \/ \E w \in Windows \cup {NoSize} : HostAttach(w)
            \/ HostClose \/ HostLost \/ HostReturns \/ ShutdownBegins \/ CloseAll
            \/ BaseCancel \/ KillSlow
            \/ \E w \in Windows : HostResize(w)
         \/ HostData \/ Broadcast
         \/ \E g \in Guests :
               \/ GuestAttach(g) \/ ReplaySent(g) \/ WriterTakes(g) \/ WriterSent(g)
               \/ ReaderTypes(g)
         \/ \E g \in Guests :
               \/ StopGuest(g) \/ ReplayFails(g) \/ StartPumps(g) \/ GuestReturns(g)
               \/ GuestCleanup(g) \/ Watchdog(g) \/ GuestLost(g) \/ WriterSendFails(g)
               \/ WriterStops(g) \/ WriterEnds(g) \/ ReaderSent(g) \/ ReaderSendFails(g)
               \/ ReaderPings(g) \/ PongEnds(g) \/ ReaderCloses(g) \/ ReaderEnds(g)
         \/ UNCHANGED vars
BY DEF Next, HostStep, GuestStep, WriteEnds

\* Lengths are given once and for all, and only output enters the ring.
LEMMA LengthStays ==
  ASSUME [Next]_vars
  PROVE  UNCHANGED length /\ (HostData \/ UNCHANGED scroll)
<1>1. UNCHANGED flowVars \/ UNCHANGED vars => UNCHANGED <<length, scroll>>
  BY DEF flowVars, vars, hostVars, connVars, pumpVars
<1>2. \/ \E w \in Windows \cup {NoSize} : HostAttach(w)
      \/ HostClose \/ HostLost \/ HostReturns \/ ShutdownBegins \/ CloseAll \/ BaseCancel
      \/ KillSlow
      \/ \E w \in Windows : HostResize(w)
      => UNCHANGED <<length, scroll>>
  BY DEF HostAttach, HostClose, HostLost, HostReturns, ShutdownBegins, CloseAll, BaseCancel,
         KillSlow, HostResize, pumpVars,
         CloseUnderLock, hostVars
<1>3. Broadcast => UNCHANGED <<length, scroll>>
  BY DEF Broadcast, hostVars, pumpVars
<1>4. HostData => UNCHANGED length
  BY DEF HostData
<1>5. ASSUME NEW g \in Guests,
             \/ GuestAttach(g) \/ ReplaySent(g) \/ WriterTakes(g) \/ WriterSent(g)
             \/ ReaderTypes(g)
      PROVE  UNCHANGED <<length, scroll>>
  BY <1>5 DEF GuestAttach, ReplaySent, WriterTakes, WriterSent, ReaderTypes, hostVars, connVars,
              pumpVars
<1>. QED BY <1>1, <1>2, <1>3, <1>4, <1>5, Steps, OtherSteps

\* Every queue, replay, ring and counter keeps its type; no guest has more frames waiting
\* than the depth of its queue.
THEOREM TypeInvariance == Spec => []TypeOK
<1>1. Init => Rest
  <2>1. Init => backlog \in [Guests -> Seq(Frame)] /\ seen \in [Guests -> Seq(Frame)]
    BY EmptySeq DEF Init
  <2>2. Init => scroll \in Seq(1..MaxFrames) /\ \A g \in Guests : Len(queue[g]) <= QueueDepth
    BY EmptySeq, BridgeAssumption DEF Init
  <2>3. Init => typed \in [Guests -> 0..MaxTyped]
    BY BridgeAssumption DEF Init
  <2>4. Init => /\ host \in BOOLEAN /\ closed \in BOOLEAN /\ size \in Windows \cup {NoSize}
                /\ hostPc \in {"away", "recv", "cast", "kill", "closing", "done"}
    BY DEF Init
  <2>5. Init => length \in [1..MaxFrames -> Lengths]
    BY DEF Init
  <2>6. Init => killed \in [Guests -> BOOLEAN]
    <3>1. Init => killed = [g \in Guests |-> FALSE]
      BY DEF Init
    <3>. QED BY <3>1
  <2>. QED BY <2>1, <2>2, <2>3, <2>4, <2>5, <2>6 DEF Rest
<1>2. ASSUME IInv, Rest, [Next]_vars
      PROVE  Rest'
  <2>1. Domains
    BY <1>2 DEF IInv
  <2>2. UNCHANGED vars => UNCHANGED flowVars
    BY DEF vars, flowVars, connVars, pumpVars, hostVars
  <2>3. UNCHANGED flowVars => Rest'
    BY <1>2 DEF flowVars, Rest
  <2>. QED BY <1>2, <2>1, <2>2, <2>3, Steps, HostKeepsRest, HostDataKeepsRest,
              BroadcastKeepsRest, GuestKeepsRest, OtherSteps
<1>3. IInv => Domains
  BY DEF IInv
<1>. QED BY <1>1, <1>2, <1>3, TypeFrom, Invariance, PTL DEF Spec

-----------------------------------------------------------------------------
(* Frames move towards the guest, and what is coming stays the same. *)

LEMMA ComingType ==
  ASSUME TypeOK, NEW g \in Guests
  PROVE  /\ seen[g] \in Seq(Frame) /\ held[g] \in Seq(Frame)
         /\ backlog[g] \in Seq(Frame) /\ queue[g] \in Seq(Frame)
         /\ seen[g] \o held[g] \o backlog[g] \in Seq(Frame)
         /\ Coming(g) \in Seq(Frame)
<1>1. /\ seen[g] \in Seq(Frame) /\ held[g] \in Seq(Frame)
      /\ backlog[g] \in Seq(Frame) /\ queue[g] \in Seq(Frame)
  BY DEF TypeOK
<1>2. seen[g] \o held[g] \in Seq(Frame)
  BY <1>1, ConcatIs
<1>3. seen[g] \o held[g] \o backlog[g] \in Seq(Frame)
  BY <1>1, <1>2, ConcatIs
<1>4. Coming(g) \in Seq(Frame)
  BY <1>1, <1>3, ConcatIs DEF Coming
<1>. QED BY <1>1, <1>3, <1>4

LEMMA FramesMove ==
  ASSUME TypeOK, IInv, NEW g \in Guests, Stages(g), NEW d \in Guests,
         ReplaySent(d) \/ WriterTakes(d) \/ WriterSent(d)
  PROVE  Coming(g)' = Coming(g)
<1>1. CASE d # g
  <2>1. /\ seen'[g] = seen[g] /\ held'[g] = held[g]
        /\ backlog'[g] = backlog[g] /\ queue'[g] = queue[g]
    BY <1>1 DEF ReplaySent, WriterTakes, WriterSent, Take, TypeOK, pumpVars
  <2>. QED BY <2>1 DEF Coming
<1>2. CASE d = g /\ ReplaySent(d)
  <2>1. held[g] = <<>>
    BY <1>2 DEF ReplaySent, IInv, OfGuest, Pumping
  <2>2. /\ backlog[g] # <<>>
        /\ seen'[g] = Append(seen[g], Head(backlog[g])) /\ backlog'[g] = Tail(backlog[g])
        /\ held'[g] = held[g] /\ queue'[g] = queue[g]
    BY <1>2 DEF ReplaySent, pumpVars, TypeOK
  <2>. DEFINE a == seen[g]
              c == backlog[g]
              q == queue[g]
  <2>3. a \in Seq(Frame) /\ c \in Seq(Frame) /\ q \in Seq(Frame) /\ c # <<>>
    BY <2>2, ComingType
  <2>4. Append(a, Head(c)) \o <<>> \o Tail(c) \o q = a \o <<>> \o c \o q
    <3>. HIDE DEF a, c, q
    <3>. QED BY <2>3
  <2>. QED BY <2>1, <2>2, <2>4 DEF Coming
<1>3. CASE d = g /\ WriterTakes(d)
  <2>1. held[g] = <<>> /\ backlog[g] = <<>>
    BY <1>3 DEF WriterTakes, IInv, OfGuest, Pumping, Stages
  <2>2. /\ queue[g] # <<>>
        /\ queue'[g] = Tail(queue[g]) /\ held'[g] = <<Head(queue[g])>>
        /\ seen'[g] = seen[g] /\ backlog'[g] = backlog[g]
    BY <1>3 DEF WriterTakes, Take, TypeOK
  <2>. DEFINE a == seen[g]
              q == queue[g]
  <2>3. a \in Seq(Frame) /\ q \in Seq(Frame) /\ q # <<>>
    BY <2>2, ComingType
  <2>4. a \o <<Head(q)>> \o <<>> \o Tail(q) = a \o <<>> \o <<>> \o q
    <3>. HIDE DEF a, q
    <3>. QED BY <2>3
  <2>. QED BY <2>1, <2>2, <2>4 DEF Coming
<1>4. CASE d = g /\ WriterSent(d)
  <2>1. /\ seen'[g] = seen[g] \o held[g] /\ held'[g] = <<>>
        /\ backlog'[g] = backlog[g] /\ queue'[g] = queue[g]
    BY <1>4 DEF WriterSent, TypeOK
  <2>2. (seen[g] \o held[g]) \o <<>> = seen[g] \o held[g]
    BY ComingType, ConcatIs, ConcatEmptySeq
  <2>. QED BY <2>1, <2>2 DEF Coming
<1>. QED BY <1>1, <1>2, <1>3, <1>4

LEMMA BroadcastMoves ==
  ASSUME TypeOK, NEW g \in Guests, Broadcast
  PROVE  IF g \in guests' THEN g \in guests /\ Coming(g)' = Append(Coming(g), casting)
         ELSE Coming(g)' = Coming(g)
<1>1. /\ UNCHANGED <<backlog, seen, held>>
      /\ guests' = guests \ {d \in guests : Full(queue[d])}
      /\ queue'[g] = IF g \in guests \ {d \in guests : Full(queue[d])}
                     THEN Append(queue[g], casting) ELSE queue[g]
  BY DEF Broadcast, pumpVars
<1>2. CASE g \in guests'
  <2>1. queue'[g] = Append(queue[g], casting) /\ g \in guests /\ casting \in Frame
    BY <1>1, <1>2 DEF TypeOK
  <2>. DEFINE a == seen[g] \o held[g] \o backlog[g]
              q == queue[g]
  <2>2. a \o Append(q, casting) = Append(a \o q, casting)
    <3>1. a \in Seq(Frame) /\ q \in Seq(Frame)
      BY ComingType
    <3>. HIDE DEF a, q
    <3>. QED BY <2>1, <3>1
  <2>. QED BY <1>1, <1>2, <2>1, <2>2 DEF Coming
<1>3. CASE g \notin guests'
  BY <1>1, <1>3 DEF Coming
<1>. QED BY <1>2, <1>3

-----------------------------------------------------------------------------
(* Runs of output, in a sequence of frames s, of payloads whose lengths are   *)
(* len, when n data frames were sent and those in due are being broadcast.    *)

Vis(len, f)   == f.t = "data" /\ len[f.n] > 0
At(len, s)    == {i \in DOMAIN s : Vis(len, s[i])}
Twice(len, s) == {i \in At(len, s) : \E j \in At(len, s) : j < i /\ s[j] = s[i]}
Said(len, n)  == {k \in 1..(n - 1) : len[k] > 0}

InOrderUpTo(len, s, n) ==
  /\ \A i \in At(len, s) : s[i].n \in 1..n
  /\ \A i, j \in At(len, s) : i < j => s[i].n <= s[j].n
Gapless(len, s) ==
  \A i, j \in At(len, s) : \A k \in Said(len, s[j].n) :
    k > s[i].n => \E l \in At(len, s) : s[l].n = k
TwiceAtMostOne(len, s, due) ==
  /\ \A i, j \in Twice(len, s) : i = j
  /\ \A i \in At(len, s) : s[i].n \in due => Twice(len, s) = {}

Run(len, s, n, due)  == InOrderUpTo(len, s, n) /\ Gapless(len, s) /\ TwiceAtMostOne(len, s, due)
UpTo(len, s, n, due) == \A k \in Said(len, n + 1) \ due : \E i \in At(len, s) : s[i].n >= k

LEMMA AtAppend ==
  ASSUME NEW len, NEW s \in Seq(Frame), NEW f \in Frame
  PROVE  /\ At(len, Append(s, f)) = IF Vis(len, f) THEN At(len, s) \cup {Len(s) + 1}
                                    ELSE At(len, s)
         /\ \A i \in At(len, s) : i \in 1..Len(s) /\ Append(s, f)[i] = s[i]
         /\ Append(s, f)[Len(s) + 1] = f /\ Len(s) \in Nat
<1>. DEFINE a == Append(s, f)
<1>1. /\ Len(s) \in Nat /\ DOMAIN s = 1..Len(s) /\ DOMAIN a = 1..(Len(s) + 1)
      /\ \A i \in 1..Len(s) : a[i] = s[i]
      /\ a[Len(s) + 1] = f
  BY AppendIs
<1>. HIDE DEF a
<1>2. \A i : i \in DOMAIN a <=> i \in DOMAIN s \/ i = Len(s) + 1
  BY <1>1
<1>3. At(len, a) = IF Vis(len, f) THEN At(len, s) \cup {Len(s) + 1} ELSE At(len, s)
  <2>1. \A i \in DOMAIN s : Vis(len, a[i]) <=> Vis(len, s[i])
    BY <1>1
  <2>2. Vis(len, a[Len(s) + 1]) <=> Vis(len, f)
    BY <1>1
  <2>. QED BY <1>2, <2>1, <2>2 DEF At
<1>. QED BY <1>1, <1>3 DEF At, a

\* A frame that shows nothing changes no run.
LEMMA QuietAppended ==
  ASSUME NEW len, NEW s \in Seq(Frame), NEW f \in Frame, ~Vis(len, f), NEW n, NEW due, NEW due2,
         Run(len, s, n, due), due2 \subseteq due
  PROVE  Run(len, Append(s, f), n, due2)
<1>. DEFINE a == Append(s, f)
<1>1. At(len, a) = At(len, s) /\ \A i \in At(len, s) : a[i] = s[i]
  BY AtAppend
<1>. HIDE DEF a
<1>2. Twice(len, a) = Twice(len, s)
  BY <1>1 DEF Twice
<1>3. InOrderUpTo(len, a, n)
  BY <1>1 DEF Run, InOrderUpTo
<1>4. Gapless(len, a)
  BY <1>1 DEF Run, Gapless
<1>5. TwiceAtMostOne(len, a, due2)
  BY <1>1, <1>2 DEF Run, TwiceAtMostOne
<1>. QED BY <1>3, <1>4, <1>5 DEF Run, a

LEMMA UpToAppended ==
  ASSUME NEW len, NEW s \in Seq(Frame), NEW f \in Frame, NEW n \in Nat, NEW due,
         UpTo(len, s, n, due), NEW due2,
         \A k \in due \ due2 : len[k] > 0 => f.n = k /\ Vis(len, f), due \subseteq Nat
  PROVE  UpTo(len, Append(s, f), n, due2)
<1>. DEFINE a == Append(s, f)
<1>1. /\ At(len, a) = IF Vis(len, f) THEN At(len, s) \cup {Len(s) + 1} ELSE At(len, s)
      /\ \A i \in At(len, s) : a[i] = s[i]
      /\ a[Len(s) + 1] = f
  BY AtAppend
<1>. HIDE DEF a
<1>2. ASSUME NEW k \in Said(len, n + 1) \ due2
      PROVE  \E i \in At(len, a) : a[i].n >= k
  <2>1. CASE k \in due
    <3>1. f.n = k /\ Vis(len, f)
      BY <1>2, <2>1 DEF Said
    <3>2. k >= k
      BY <2>1
    <3>. QED BY <1>1, <3>1, <3>2
  <2>2. CASE k \notin due
    BY <1>1, <1>2, <2>2 DEF UpTo
  <2>. QED BY <2>1, <2>2
<1>. QED BY <1>2 DEF UpTo, a

\* The latest frame joins the run.
LEMMA LatestAppended ==
  ASSUME NEW len, NEW s \in Seq(Frame), NEW n \in 1..MaxFrames, len[n] > 0,
         Run(len, s, n, {n}), UpTo(len, s, n, {n})
  PROVE  Run(len, Append(s, Data(n)), n, {})
<1>. DEFINE f == Data(n)
            a == Append(s, f)
            L == Len(s) + 1
<1>0. f \in Frame /\ f.t = "data" /\ f.n = n /\ Vis(len, f) /\ n \in Nat
  BY BridgeAssumption DEF Frame, Data, Vis
<1>. HIDE DEF f
<1>1. /\ At(len, a) = At(len, s) \cup {L}
      /\ \A i \in At(len, s) : a[i] = s[i] /\ i \in Nat /\ i < L
      /\ a[L] = f /\ L \in Nat
  BY <1>0, AtAppend
<1>. HIDE DEF a, L
<1>2. InOrderUpTo(len, a, n)
  <2>1. \A i \in At(len, s) : s[i].n \in 1..n
    BY DEF Run, InOrderUpTo
  <2>2. \A i \in At(len, a) : a[i].n \in 1..n
    BY <1>0, <1>1, <2>1
  <2>3. ASSUME NEW i \in At(len, a), NEW j \in At(len, a), i < j
        PROVE  a[i].n <= a[j].n
    <3>1. CASE j = L
      <4>1. a[i].n \in 1..n /\ a[j].n = n
        BY <1>0, <1>1, <2>2, <3>1
      <4>. QED BY <1>0, <4>1
    <3>2. CASE j # L
      <4>1. j \in At(len, s) /\ i \in At(len, s)
        BY <1>1, <2>3, <3>2
      <4>. QED BY <1>1, <2>3, <4>1 DEF Run, InOrderUpTo
    <3>. QED BY <3>1, <3>2
  <2>. QED BY <2>2, <2>3 DEF InOrderUpTo
<1>3. Gapless(len, a)
  <2>1. ASSUME NEW i \in At(len, a), NEW j \in At(len, a), NEW k \in Said(len, a[j].n), k > a[i].n
        PROVE  \E l \in At(len, a) : a[l].n = k
    <3>0. a[j].n \in 1..n /\ a[i].n \in 1..n
      BY <1>2 DEF InOrderUpTo
    <3>1. i # L
      BY <1>0, <1>1, <2>1, <3>0 DEF Said
    <3>2. i \in At(len, s) /\ a[i] = s[i]
      BY <1>1, <3>1
    <3>3. CASE j # L
      <4>1. j \in At(len, s) /\ a[j] = s[j]
        BY <1>1, <3>3
      <4>2. \E l \in At(len, s) : s[l].n = k
        BY <2>1, <3>2, <4>1 DEF Run, Gapless
      <4>. QED BY <1>1, <4>2
    <3>4. CASE j = L
      <4>1. k \in 1..(n - 1) /\ len[k] > 0
        BY <1>0, <1>1, <2>1, <3>4 DEF Said
      <4>2. k \in Said(len, n + 1) \ {n}
        BY <1>0, <4>1 DEF Said
      <4>3. PICK m \in At(len, s) : s[m].n >= k
        BY <4>2 DEF UpTo
      <4>4. CASE s[m].n = k
        BY <1>1, <4>4
      <4>5. CASE s[m].n # k
        <5>1. s[m].n \in 1..n
          BY DEF Run, InOrderUpTo
        <5>2. k \in Said(len, s[m].n)
          BY <4>1, <4>3, <4>5, <5>1 DEF Said
        <5>3. \E l \in At(len, s) : s[l].n = k
          BY <2>1, <3>2, <5>2 DEF Run, Gapless
        <5>. QED BY <1>1, <5>3
      <4>. QED BY <4>4, <4>5
    <3>. QED BY <3>3, <3>4
  <2>. QED BY <2>1 DEF Gapless
<1>4. TwiceAtMostOne(len, a, {})
  <2>1. \A i \in Twice(len, a) : i = L \/ i \in Twice(len, s)
    <3>1. ASSUME NEW i \in Twice(len, a), i # L
          PROVE  i \in Twice(len, s)
      <4>1. i \in At(len, s)
        BY <1>1, <3>1 DEF Twice
      <4>2. PICK j \in At(len, a) : j < i /\ a[j] = a[i]
        BY DEF Twice
      <4>3. j \in At(len, s)
        BY <1>1, <4>1, <4>2
      <4>. QED BY <1>1, <4>1, <4>2, <4>3 DEF Twice
    <3>. QED BY <3>1
  <2>2. L \in Twice(len, a) => Twice(len, s) = {}
    <3>1. ASSUME L \in Twice(len, a)
          PROVE  Twice(len, s) = {}
      <4>1. PICK j \in At(len, a) : j < L /\ a[j] = a[L]
        BY <3>1 DEF Twice
      <4>2. j \in At(len, s) /\ s[j].n = n
        BY <1>0, <1>1, <4>1
      <4>. QED BY <4>2 DEF Run, TwiceAtMostOne
    <3>. QED BY <3>1
  <2>3. \A i, j \in Twice(len, s) : i = j
    BY DEF Run, TwiceAtMostOne
  <2>. QED BY <2>1, <2>2, <2>3 DEF TwiceAtMostOne
<1>. QED BY <1>2, <1>3, <1>4 DEF Run, a, f

\* The ring r ends with the latest of the output.
EndsLatest(len, r, n) ==
  /\ \A i \in DOMAIN r : r[i] \in Said(len, n + 1)
  /\ \A i, j \in DOMAIN r : i < j => r[i] < r[j]
  /\ \A i \in DOMAIN r : \A k \in Said(len, n + 1) : k > r[i] => \E l \in DOMAIN r : r[l] = k
  /\ r = <<>> => Said(len, n + 1) = {}

\* What a guest is sent first is a run, up to date, and nothing in it comes twice.
LEMMA ReplayRuns ==
  ASSUME NEW len, NEW r \in Seq(1..MaxFrames), NEW n \in Nat, EndsLatest(len, r, n), NEW due,
         NEW z \in Seq(Frame), \A i \in DOMAIN z : z[i].t = "resize"
  PROVE  Run(len, z \o Replay(r), n, due) /\ UpTo(len, z \o Replay(r), n, {})
<1>. DEFINE p == Replay(r)
            s == z \o p
            o == Len(z)
<1>1. /\ p \in Seq(Frame) /\ Len(p) = Len(r) /\ DOMAIN r = 1..Len(r) /\ Len(r) \in Nat
      /\ \A i \in 1..Len(r) : p[i] = Data(r[i]) /\ r[i] \in 1..MaxFrames
  BY ReplayIs
<1>. HIDE DEF p
<1>2. /\ o \in Nat /\ DOMAIN z = 1..o /\ DOMAIN s = 1..(o + Len(r))
      /\ \A i \in 1..o : s[i] = z[i]
      /\ \A i \in 1..Len(r) : s[o + i] = Data(r[i])
  <2>1. /\ o \in Nat /\ DOMAIN z = 1..o /\ DOMAIN s = 1..(o + Len(p))
        /\ \A i \in 1..o : s[i] = z[i]
        /\ \A i \in 1..Len(p) : s[o + i] = p[i]
    <3>1. p \in Seq(Frame)
      BY <1>1
    <3>. QED BY <3>1, ConcatIs
  <2>. HIDE DEF s, o
  <2>. QED BY <1>1, <2>1
<1>. HIDE DEF s, o
<1>a. \A k : Data(k).t = "data" /\ Data(k).n = k
  BY DEF Data
<1>3. \A i \in 1..Len(r) : len[r[i]] > 0 /\ r[i] \in 1..n
  BY <1>1 DEF EndsLatest, Said
<1>4. /\ \A i \in 1..Len(r) : o + i \in At(len, s)
      /\ \A i \in At(len, s) : i - o \in 1..Len(r) /\ i = o + (i - o) /\ s[i] = Data(r[i - o])
      /\ \A i \in At(len, s) : i \in Nat
  <2>1. ASSUME NEW i \in 1..Len(r)
        PROVE  o + i \in At(len, s)
    <3>1. o + i \in DOMAIN s /\ s[o + i] = Data(r[i])
      BY <1>1, <1>2
    <3>2. Vis(len, s[o + i])
      BY <1>a, <1>3, <3>1 DEF Vis
    <3>. QED BY <3>1, <3>2 DEF At
  <2>2. ASSUME NEW i \in At(len, s)
        PROVE  i - o \in 1..Len(r) /\ i = o + (i - o) /\ s[i] = Data(r[i - o]) /\ i \in Nat
    <3>1. i \in 1..(o + Len(r)) /\ s[i].t = "data"
      BY <1>2 DEF At, Vis
    <3>2. i \notin 1..o
      BY <1>2, <3>1
    <3>3. i - o \in 1..Len(r) /\ i = o + (i - o) /\ i \in Nat
      BY <1>1, <1>2, <3>1, <3>2
    <3>. QED BY <1>2, <3>3
  <2>. QED BY <2>1, <2>2
<1>5. \A i \in At(len, s) : s[i].n = r[i - o] /\ s[i].t = "data"
  BY <1>4, <1>a
<1>6. InOrderUpTo(len, s, n)
  <2>1. ASSUME NEW i \in At(len, s), NEW j \in At(len, s), i < j
        PROVE  s[i].n < s[j].n
    <3>1. i - o \in DOMAIN r /\ j - o \in DOMAIN r /\ i - o < j - o
      BY <1>1, <1>2, <1>4, <2>1
    <3>. QED BY <1>5, <3>1 DEF EndsLatest
  <2>2. \A i \in At(len, s) : s[i].n \in 1..n
    BY <1>3, <1>4, <1>5
  <2>3. ASSUME NEW i \in At(len, s), NEW j \in At(len, s), i < j
        PROVE  s[i].n <= s[j].n
    BY <2>1, <2>2, <2>3
  <2>. QED BY <2>2, <2>3 DEF InOrderUpTo
<1>7. Gapless(len, s)
  <2>1. ASSUME NEW i \in At(len, s), NEW j \in At(len, s), NEW k \in Said(len, s[j].n), k > s[i].n
        PROVE  \E l \in At(len, s) : s[l].n = k
    <3>1. i - o \in DOMAIN r /\ r[i - o] = s[i].n /\ s[j].n \in 1..n
      BY <1>1, <1>4, <1>5, <1>6 DEF InOrderUpTo
    <3>2. k \in Said(len, n + 1)
      BY <3>1 DEF Said
    <3>3. PICK l \in DOMAIN r : r[l] = k
      BY <2>1, <3>1, <3>2 DEF EndsLatest
    <3>4. o + l \in At(len, s) /\ s[o + l] = Data(r[l])
      BY <1>1, <1>2, <1>4
    <3>. QED BY <3>3, <3>4 DEF Data
  <2>. QED BY <2>1 DEF Gapless
<1>8. Twice(len, s) = {}
  <2>1. ASSUME NEW i \in At(len, s), NEW j \in At(len, s), j < i
        PROVE  s[j] # s[i]
    <3>1. j - o \in DOMAIN r /\ i - o \in DOMAIN r /\ j - o < i - o
      BY <1>1, <1>2, <1>4, <2>1
    <3>2. r[j - o] < r[i - o] /\ r[j - o] \in Nat /\ r[i - o] \in Nat
      BY <1>1, <3>1 DEF EndsLatest
    <3>. QED BY <1>5, <3>2
  <2>. QED BY <2>1 DEF Twice
<1>9. UpTo(len, s, n, {})
  <2>1. ASSUME NEW k \in Said(len, n + 1)
        PROVE  \E i \in At(len, s) : s[i].n >= k
    <3>1. 1 \in DOMAIN r
      <4>1. r # <<>>
        BY DEF EndsLatest
      <4>. QED BY <1>1, <4>1, EmptySeq
    <3>2. r[1] \in Nat /\ k \in Nat
      BY <1>1, <3>1 DEF Said
    <3>3. PICK l \in DOMAIN r : r[l] >= k
      <4>1. CASE r[1] >= k
        BY <3>1, <4>1
      <4>2. CASE k > r[1]
        <5>1. PICK l \in DOMAIN r : r[l] = k
          BY <3>1, <4>2 DEF EndsLatest
        <5>. QED BY <3>2, <5>1
      <4>. QED BY <3>2, <4>1, <4>2
    <3>4. o + l \in At(len, s) /\ s[o + l] = Data(r[l])
      BY <1>1, <1>2, <1>4
    <3>. QED BY <3>3, <3>4 DEF Data
  <2>. QED BY <2>1 DEF UpTo
<1>10. Run(len, s, n, due)
  BY <1>6, <1>7, <1>8 DEF Run, TwiceAtMostOne
<1>. QED BY <1>9, <1>10 DEF s, p

\* The ring keeps ending with the latest when a payload is added.
LEMMA RingKeeps ==
  ASSUME NEW r \in Seq(1..MaxFrames), NEW n \in Nat, n + 1 \in 1..MaxFrames,
         Sized, EndsLatest(length, r, n)
  PROVE  EndsLatest(length, RingAdd(r, n + 1), n + 1)
<1>. DEFINE m == n + 1
<1>0. m \in Nat /\ n \in Nat /\ n < m
  OBVIOUS
<1>1. \A k : k \in Said(length, m + 1) <=> k \in Said(length, m) \/ (k = m /\ length[m] > 0)
  BY DEF Said
<1>2. CASE length[m] = 0
  <2>1. Said(length, m + 1) = Said(length, m)
    <3>1. ~ (length[m] > 0)
      BY <1>2
    <3>2. \A k : k \in Said(length, m + 1) <=> k \in Said(length, m)
      BY <1>1, <3>1
    <3>. HIDE DEF m
    <3>. QED BY <3>2
  <2>2. RingAdd(r, m) = r
    BY <1>2, RingAddIs
  <2>. QED BY <2>1, <2>2 DEF EndsLatest
<1>3. CASE length[m] # 0
  <2>1. PICK k \in 1..(Len(r) + 1) : RingAdd(r, m) = SubSeq(Append(r, m), k, Len(r) + 1)
    BY <1>3, RingAddIs
  <2>. DEFINE a == Append(r, m)
              L == Len(r) + 1
              u == SubSeq(a, k, L)
  <2>2. /\ a \in Seq(1..MaxFrames) /\ L \in Nat /\ Len(a) = L
        /\ DOMAIN a = 1..L /\ DOMAIN r = 1..(L - 1)
        /\ \A i \in 1..(L - 1) : a[i] = r[i]
        /\ a[L] = m
    BY AppendIs
  <2>. HIDE DEF a, L
  <2>3. k \in 1..L
    BY DEF L
  <2>4. /\ DOMAIN u = 1..(L - k + 1) /\ \A i \in 1..(L - k + 1) : u[i] = a[k + i - 1]
        /\ u # <<>>
    <3>1. \A i \in k..L : a[i] \in 1..MaxFrames
      <4>1. \A i \in 1..L : a[i] \in 1..MaxFrames
        BY <2>2, ElementOfSeq
      <4>. QED BY <2>2, <2>3, <4>1
    <3>2. /\ u \in Seq(1..MaxFrames) /\ Len(u) = L - k + 1
          /\ \A i \in 1..(L - k + 1) : u[i] = a[k + i - 1]
      BY <2>2, <2>3, <3>1, SubSeqProperties
    <3>. HIDE DEF u
    <3>3. Len(u) # 0
      BY <2>2, <2>3, <3>2
    <3>. QED BY <3>2, <3>3, LenProperties, EmptySeq
  <2>. HIDE DEF u, m
  <2>5. /\ \A i \in DOMAIN u : k + i - 1 \in 1..L /\ u[i] = a[k + i - 1] /\ i \in Nat
        /\ \A l \in k..L : l - k + 1 \in DOMAIN u /\ u[l - k + 1] = a[l]
    <3>1. \A i \in DOMAIN u : k + i - 1 \in 1..L /\ u[i] = a[k + i - 1] /\ i \in Nat
      BY <2>2, <2>3, <2>4
    <3>2. \A l \in k..L : l - k + 1 \in DOMAIN u /\ k + (l - k + 1) - 1 = l
      BY <2>2, <2>3, <2>4
    <3>. QED BY <3>1, <3>2
  <2>6. \A i \in 1..L : a[i] \in Said(length, m + 1) /\ a[i] \in Nat
    <3>1. \A i \in 1..(L - 1) : a[i] \in Said(length, m)
      BY <2>2 DEF EndsLatest, m
    <3>2. length[m] > 0
      BY <1>3 DEF m, Sized
    <3>3. \A i \in 1..L : a[i] \in Said(length, m + 1)
      BY <1>1, <2>2, <3>1, <3>2
    <3>. QED BY <3>3 DEF Said
  <2>7. ASSUME NEW i \in 1..L, NEW j \in 1..L, i < j
        PROVE  a[i] < a[j]
    <3>1. i \in 1..(L - 1)
      BY <2>2, <2>7
    <3>2. CASE j = L
      <4>1. r[i] \in Said(length, m)
        BY <2>2, <3>1 DEF EndsLatest, m
      <4>2. r[i] < m
        BY <1>0, <4>1 DEF Said
      <4>. QED BY <2>2, <3>1, <3>2, <4>2
    <3>3. CASE j # L
      <4>1. j \in 1..(L - 1)
        BY <2>2, <3>3
      <4>. QED BY <2>2, <2>7, <3>1, <4>1 DEF EndsLatest
    <3>. QED BY <3>2, <3>3
  <2>8. ASSUME NEW i \in 1..L, NEW j \in Said(length, m + 1), j > a[i]
        PROVE  \E l \in i..L : a[l] = j
    <3>0. j \in Nat
      BY DEF Said
    <3>1. PICK l \in 1..L : a[l] = j
      <4>1. CASE j = m
        BY <2>2, <4>1
      <4>2. CASE j # m
        <5>1. j \in Said(length, n + 1)
          BY <1>1, <4>2 DEF m
        <5>2. i # L
          BY <1>0, <2>2, <2>8, <5>1 DEF Said, m
        <5>3. i \in DOMAIN r /\ a[i] = r[i]
          BY <2>2, <5>2
        <5>4. \E l \in DOMAIN r : r[l] = j
          BY <2>8, <5>1, <5>3 DEF EndsLatest
        <5>. QED BY <2>2, <5>4
      <4>. QED BY <4>1, <4>2
    <3>2. l >= i
      <4>1. l < i => a[l] < a[i]
        BY <2>7
      <4>. QED BY <2>6, <2>8, <3>0, <3>1, <4>1
    <3>. QED BY <3>1, <3>2
  <2>9. \A i \in DOMAIN u : u[i] \in Said(length, m + 1)
    BY <2>5, <2>6
  <2>10. ASSUME NEW i \in DOMAIN u, NEW j \in DOMAIN u, i < j
         PROVE  u[i] < u[j]
    <3>1. k + i - 1 \in 1..L /\ k + j - 1 \in 1..L /\ k + i - 1 < k + j - 1
      BY <2>3, <2>5, <2>10
    <3>. QED BY <2>5, <2>7, <3>1
  <2>11. ASSUME NEW i \in DOMAIN u, NEW j \in Said(length, m + 1), j > u[i]
         PROVE  \E l \in DOMAIN u : u[l] = j
    <3>1. k + i - 1 \in k..L /\ a[k + i - 1] = u[i]
      <4>1. i >= 1
        BY <2>2, <2>3, <2>4
      <4>2. k + i - 1 \in 1..L /\ i \in Nat
        BY <2>5
      <4>3. k + i - 1 \in k..L
        BY <2>2, <2>3, <4>1, <4>2
      <4>. QED BY <2>5, <4>3
    <3>2. PICK l \in (k + i - 1)..L : a[l] = j
      BY <2>3, <2>8, <2>11, <3>1
    <3>3. l \in k..L
      BY <2>3, <3>1
    <3>. QED BY <2>5, <3>2, <3>3
  <2>12. EndsLatest(length, u, m)
    BY <2>4, <2>9, <2>10, <2>11 DEF EndsLatest
  <2>. QED BY <2>1, <2>12 DEF u, a, L, m
<1>. QED BY <1>2, <1>3

-----------------------------------------------------------------------------
(* The invariant, in terms of these runs. *)

View(g) == /\ Run(length, Coming(g), sent, Due)
           /\ g \in guests => UpTo(length, Coming(g), sent, Due)

Closing == hostPc \in {"closing", "done"} \/ (hostPc = "kill" /\ casting = Close)

\* The final CLOSE is the last frame of a run that is complete.
Final(g) ==
  \A i \in DOMAIN Coming(g) : Coming(g)[i] = Close =>
    i = Len(Coming(g)) /\ UpTo(length, Coming(g), sent, {}) /\ Closing

OfView(g) == Stages(g) /\ View(g) /\ Final(g)

VI == Source /\ EndsLatest(length, scroll, sent) /\ \A g \in Guests : OfView(g)

LEMMA ViewStays ==
  ASSUME NEW g, OfView(g), Coming(g)' = Coming(g), UNCHANGED <<length, sent>>,
         Due' = Due, g \in guests' => g \in guests, Stages(g)', Closing => Closing'
  PROVE  OfView(g)'
<1>1. View(g)'
  BY DEF OfView, View
<1>2. Final(g)'
  BY DEF OfView, Final
<1>. QED BY <1>1, <1>2 DEF OfView

\* Frames in flight and the output as they were.
still == <<length, sent, scroll, seen, held, backlog, queue>>

LEMMA ComingUntouched == ASSUME UNCHANGED <<seen, held, backlog, queue>>, NEW g
                         PROVE  Coming(g)' = Coming(g)
  BY DEF Coming

LEMMA HostKeepsViews ==
  ASSUME TypeOK, VI,
         \/ \E w \in Windows \cup {NoSize} : HostAttach(w)
         \/ HostClose \/ HostLost \/ HostReturns \/ ShutdownBegins \/ CloseAll \/ BaseCancel
         \/ KillSlow
         \/ \E w \in Windows : HostResize(w)
  PROVE  VI'
<1>1. UNCHANGED still /\ UNCHANGED <<main, writer>> /\ guests' \subseteq guests
  BY DEF HostAttach, HostClose, HostLost, HostReturns, ShutdownBegins, CloseAll, BaseCancel,
         KillSlow, HostResize,
         CloseUnderLock, still, pumpVars, hostVars
<1>a. \/ hostPc # "cast" /\ hostPc' # "cast" /\ hostPc' # "away" /\ (hostPc' # "kill")
      \/ \E w \in Windows : hostPc = "recv" /\ hostPc' = "cast" /\ casting' = Resize(w) /\ size' = w
      \/ hostPc = "recv" /\ hostPc' = "cast" /\ casting' = Close
      \/ UNCHANGED <<hostPc, casting, size>> /\ (host' => host)
  BY DEF HostAttach, HostClose, HostLost, HostReturns, ShutdownBegins, CloseAll, BaseCancel,
         KillSlow, HostResize,
         CloseUnderLock, hostVars
<1>b. Close.t = "close" /\ \A w : Resize(w).t = "resize"
  BY DEF Close, Resize
<1>2. Due' = Due
  BY <1>1, <1>a, <1>b DEF Due, still
<1>3. Closing => Closing'
  BY DEF HostAttach, HostClose, HostLost, HostReturns, ShutdownBegins, CloseAll, BaseCancel,
         KillSlow, HostResize, hostVars,
         Closing
<1>4. Source'
  BY <1>1, <1>a, <1>b DEF VI, Source, still
<1>5. ASSUME NEW g \in Guests
      PROVE  OfView(g)'
  <2>1. Coming(g)' = Coming(g)
    BY <1>1, ComingUntouched DEF still
  <2>2. Stages(g)'
    BY <1>1, <2>1 DEF VI, OfView, Stages, still
  <2>. QED BY <1>1, <1>2, <1>3, <2>1, <2>2, ViewStays DEF VI, still
<1>. QED BY <1>1, <1>4, <1>5 DEF VI, still

LEMMA HostDataKeepsViews ==
  ASSUME TypeOK, VI, HostData
  PROVE  VI'
<1>1. /\ hostPc = "recv" /\ frames < MaxFrames /\ sent' = sent + 1 /\ hostPc' = "cast"
      /\ scroll' = RingAdd(scroll, sent + 1) /\ casting' = Data(sent + 1)
      /\ UNCHANGED <<length, seen, held, backlog, queue, main, writer, guests, host, size>>
  BY DEF HostData, pumpVars
<1>2. sent \in Nat /\ sent + 1 \in 1..MaxFrames
  BY <1>1, BridgeAssumption DEF TypeOK
<1>3. Due = {} /\ Due' = {sent + 1}
  BY <1>1 DEF Due, Data
<1>4. Source'
  BY <1>1 DEF Source, Data
<1>5. EndsLatest(length, scroll, sent)'
  <2>1. Sized
    BY BridgeAssumption DEF TypeOK, Sized
  <2>2. EndsLatest(length, RingAdd(scroll, sent + 1), sent + 1)
    BY <1>2, <2>1, RingKeeps DEF VI, TypeOK
  <2>. QED BY <1>1, <2>2
<1>6. ASSUME NEW g \in Guests
      PROVE  OfView(g)'
  <2>1. Coming(g)' = Coming(g)
    BY <1>1, ComingUntouched
  <2>2. Stages(g)'
    BY <1>1, <2>1 DEF VI, OfView, Stages
  <2>3. Run(length, Coming(g), sent, {}) /\ (g \in guests => UpTo(length, Coming(g), sent, {}))
    BY <1>3 DEF VI, OfView, View
  <2>. DEFINE s == Coming(g)
  <2>. HIDE DEF s
  <2>4. Run(length, s, sent + 1, {sent + 1})
    <3>1. \A i \in At(length, s) : s[i].n \in 1..sent
      BY <2>3 DEF Run, InOrderUpTo, s
    <3>2. InOrderUpTo(length, s, sent + 1)
      BY <1>2, <2>3, <3>1 DEF Run, InOrderUpTo, s
    <3>3. TwiceAtMostOne(length, s, {sent + 1})
      <4>1. \A i \in At(length, s) : s[i].n # sent + 1
        BY <1>2, <3>1
      <4>. QED BY <2>3, <4>1 DEF Run, TwiceAtMostOne, s
    <3>. QED BY <2>3, <3>2, <3>3 DEF Run, s
  <2>5. g \in guests => UpTo(length, s, sent + 1, {sent + 1})
    <3>1. \A k \in Said(length, sent + 1 + 1) \ {sent + 1} : k \in Said(length, sent + 1) \ {}
      BY <1>2 DEF Said
    <3>. QED BY <2>3, <3>1 DEF UpTo, s
  <2>6. View(g)'
    BY <1>1, <1>3, <2>1, <2>4, <2>5 DEF View, s
  <2>7. Final(g)'
    BY <1>1, <2>1 DEF VI, OfView, Final, Closing
  <2>. QED BY <2>2, <2>6, <2>7 DEF OfView
<1>. QED BY <1>4, <1>5, <1>6 DEF VI

LEMMA BroadcastKeepsViews ==
  ASSUME TypeOK, IInv, VI, Broadcast
  PROVE  VI'
<1>1. /\ hostPc = "cast" /\ hostPc' = "kill" /\ guests' \subseteq guests
      /\ UNCHANGED <<length, sent, scroll, backlog, main, writer, casting, host, size>>
  BY DEF Broadcast, pumpVars
<1>2. Due' = {} /\ Due \subseteq {sent} /\ sent \in 0..MaxFrames
  BY <1>1, BridgeAssumption DEF Due, TypeOK
<1>3. Source'
  BY <1>1 DEF Source
<1>4. ASSUME NEW g \in Guests
      PROVE  OfView(g)'
  <2>. DEFINE s == Coming(g)
  <2>1. /\ s \in Seq(Frame) /\ casting \in Frame /\ sent \in Nat
        /\ Run(length, s, sent, Due) /\ (g \in guests => UpTo(length, s, sent, Due))
    BY <1>2, ComingType DEF TypeOK, VI, OfView, View
  <2>2. \A i \in DOMAIN s : s[i] # Close
    BY <1>1 DEF VI, OfView, Final, Closing
  <2>3. CASE g \notin guests'
    <3>1. Coming(g)' = s
      BY <2>3, BroadcastMoves
    <3>2. Stages(g)'
      BY <1>1, <3>1 DEF VI, OfView, Stages
    <3>3. Run(length, s, sent, {})
      BY <2>1 DEF Run, TwiceAtMostOne
    <3>4. View(g)'
      BY <1>1, <1>2, <2>3, <3>1, <3>3 DEF View
    <3>5. Final(g)'
      BY <2>2, <3>1 DEF Final
    <3>. QED BY <3>2, <3>4, <3>5 DEF OfView
  <2>4. CASE g \in guests'
    <3>1. Coming(g)' = Append(s, casting) /\ g \in guests
      BY <2>4, BroadcastMoves
    <3>2. Stages(g)'
      <4>1. main[g] # "away"
        BY <3>1 DEF IInv, OfGuest, Leaves
      <4>. QED BY <1>1, <4>1 DEF VI, OfView, Stages
    <3>3. /\ Run(length, Append(s, casting), sent, {})
          /\ UpTo(length, Append(s, casting), sent, {})
      <4>. HIDE DEF s
      <4>1. CASE casting.t # "data"
        <5>1. Due = {} /\ ~Vis(length, casting)
          BY <4>1 DEF Due, Vis
        <5>2. Run(length, Append(s, casting), sent, {})
          BY <2>1, <5>1, QuietAppended
        <5>3. UpTo(length, Append(s, casting), sent, {})
          BY <2>1, <3>1, <5>1, UpToAppended
        <5>. QED BY <5>2, <5>3
      <4>2. CASE casting.t = "data"
        <5>1. casting = Data(sent) /\ Due = {sent} /\ casting.n = sent
          BY <1>1, <4>2 DEF VI, Source, Due, Data
        <5>2. sent \in 1..MaxFrames /\ length[sent] \in Nat
          <6>1. sent \in 1..MaxFrames
            BY <2>1, <4>2, <5>1 DEF Frame, Data, Resize, Close
          <6>. QED BY <6>1, BridgeAssumption DEF TypeOK
        <5>3. CASE length[sent] > 0
          <6>1. Run(length, Append(s, casting), sent, {})
            BY <2>1, <3>1, <5>1, <5>2, <5>3, LatestAppended
          <6>2. Vis(length, casting)
            BY <4>2, <5>1, <5>3 DEF Vis
          <6>3. UpTo(length, Append(s, casting), sent, {})
            BY <2>1, <3>1, <5>1, <6>2, UpToAppended
          <6>. QED BY <6>1, <6>3
        <5>4. CASE ~(length[sent] > 0)
          <6>1. ~Vis(length, casting)
            BY <5>1, <5>4 DEF Vis
          <6>2. Run(length, Append(s, casting), sent, {})
            BY <2>1, <6>1, QuietAppended
          <6>3. UpTo(length, Append(s, casting), sent, {})
            BY <2>1, <3>1, <5>1, <5>4, UpToAppended
          <6>. QED BY <6>2, <6>3
        <5>. QED BY <5>3, <5>4
      <4>. QED BY <4>1, <4>2
    <3>4. View(g)'
      BY <1>1, <1>2, <3>1, <3>3 DEF View
    <3>5. Final(g)'
      <4>. DEFINE a == Append(s, casting)
      <4>1. /\ DOMAIN a = 1..(Len(s) + 1) /\ Len(a) = Len(s) + 1 /\ DOMAIN s = 1..Len(s)
            /\ Len(s) \in Nat /\ a[Len(s) + 1] = casting /\ \A i \in 1..Len(s) : a[i] = s[i]
        <5>. HIDE DEF s
        <5>. QED BY <2>1, AppendIs
      <4>. HIDE DEF a
      <4>2. \A i \in DOMAIN a : a[i] = Close => i = Len(a) /\ casting = Close
        <5>. HIDE DEF s
        <5>1. \A i \in DOMAIN a : i \in 1..Len(s) \/ i = Len(s) + 1
          BY <4>1
        <5>2. \A i \in 1..Len(s) : a[i] # Close
          BY <2>2, <4>1 DEF s
        <5>. QED BY <4>1, <5>1, <5>2
      <4>3. Coming(g)' = a /\ UpTo(length, a, sent, {})
        BY <3>1, <3>3 DEF a
      <4>4. casting = Close => Closing'
        BY <1>1 DEF Closing
      <4>. QED BY <1>1, <4>2, <4>3, <4>4 DEF Final
    <3>. QED BY <3>2, <3>4, <3>5 DEF OfView
  <2>. QED BY <2>3, <2>4
<1>. QED BY <1>1, <1>3, <1>4 DEF VI

LEMMA NothingComing ==
  ASSUME TypeOK, NEW g \in Guests, Coming(g) = <<>>
  PROVE  seen[g] = <<>> /\ held[g] = <<>> /\ backlog[g] = <<>> /\ queue[g] = <<>>
<1>1. /\ seen[g] \in Seq(Frame) /\ held[g] \in Seq(Frame)
      /\ backlog[g] \in Seq(Frame) /\ queue[g] \in Seq(Frame)
  BY ComingType
<1>2. seen[g] \o held[g] \in Seq(Frame) /\ seen[g] \o held[g] \o backlog[g] \in Seq(Frame)
  BY <1>1, ConcatIs
<1>3. seen[g] \o held[g] \o backlog[g] = <<>> /\ queue[g] = <<>>
  BY <1>1, <1>2, ConcatEqualIffEmpty DEF Coming
<1>4. seen[g] \o held[g] = <<>> /\ backlog[g] = <<>>
  BY <1>1, <1>2, <1>3, ConcatEqualIffEmpty
<1>5. seen[g] = <<>> /\ held[g] = <<>>
  BY <1>1, <1>4, ConcatEqualIffEmpty
<1>. QED BY <1>3, <1>4, <1>5

LEMMA Greets ==
  ASSUME TypeOK, IInv, VI, NEW g \in Guests, GuestAttach(g)
  PROVE  /\ Coming(g)' = Greeting /\ Greeting \in Seq(Frame)
         /\ \A d \in Guests \ {g} : Coming(d)' = Coming(d)
<1>1. /\ main[g] = "away"
      /\ backlog' = [backlog EXCEPT ![g] = Greeting] /\ UNCHANGED <<seen, held, queue>>
  BY DEF GuestAttach, Greeting, pumpVars
<1>2. seen[g] = <<>> /\ held[g] = <<>> /\ queue[g] = <<>>
  BY <1>1, NothingComing DEF VI, OfView, Stages
<1>3. Greeting \in Seq(Frame)
  BY TypeGives, GreetingIs
<1>4. Coming(g)' = Greeting
  <2>1. backlog'[g] = Greeting
    BY <1>1 DEF TypeOK
  <2>. DEFINE y == Greeting
  <2>2. <<>> \o <<>> \o y \o <<>> = y
    <3>1. y \in Seq(Frame)
      BY <1>3
    <3>. HIDE DEF y
    <3>. QED BY <3>1
  <2>. QED BY <1>1, <1>2, <2>1, <2>2 DEF Coming
<1>5. ASSUME NEW d \in Guests \ {g}
      PROVE  Coming(d)' = Coming(d)
  <2>1. backlog'[d] = backlog[d]
    BY <1>1 DEF TypeOK
  <2>. QED BY <1>1, <2>1 DEF Coming
<1>. QED BY <1>3, <1>4, <1>5

LEMMA GreetingRuns ==
  ASSUME TypeOK, VI, NEW due
  PROVE  /\ Run(length, Greeting, sent, due) /\ UpTo(length, Greeting, sent, {})
         /\ \A i \in DOMAIN Greeting : \/ size # NoSize /\ i = 1 /\ Greeting[i] = Resize(size)
                                       \/ Greeting[i].t = "data" /\ ~(size # NoSize /\ i = 1)
         /\ size # NoSize => 1 \in DOMAIN Greeting
<1>. DEFINE z == IF size = NoSize THEN <<>> ELSE <<Resize(size)>>
            y == z \o Replay(scroll)
<1>1. z \in Seq(Frame)
  <2>1. size # NoSize => Resize(size) \in Frame
    BY DEF TypeOK, Frame
  <2>. DEFINE F == Frame
  <2>2. z \in Seq(F)
    <3>1. size # NoSize => Resize(size) \in F
      BY <2>1
    <3>. HIDE DEF F
    <3>. QED BY <3>1, EmptySeq
  <2>. QED BY <2>2
<1>2. /\ size = NoSize => DOMAIN z = {}
      /\ size # NoSize => DOMAIN z = {1} /\ z[1] = Resize(size)
  OBVIOUS
<1>3. \A i \in DOMAIN z : z[i].t = "resize"
  BY <1>2 DEF Resize
<1>4. sent \in Nat /\ scroll \in Seq(1..MaxFrames)
  BY BridgeAssumption DEF TypeOK
<1>. HIDE DEF z
<1>5. /\ Run(length, y, sent, due) /\ UpTo(length, y, sent, {})
      /\ \A i \in DOMAIN z : y[i] = z[i]
      /\ \A i \in DOMAIN y \ DOMAIN z : y[i].t = "data"
  <2>1. EndsLatest(length, scroll, sent)
    BY DEF VI
  <2>2. Run(length, y, sent, due) /\ UpTo(length, y, sent, {})
    BY <1>1, <1>3, <1>4, <2>1, ReplayRuns, Zenon
  <2>. DEFINE p == Replay(scroll)
  <2>3. /\ p \in Seq(Frame) /\ DOMAIN p = 1..Len(p)
        /\ \A j \in 1..Len(p) : p[j] = Data(scroll[j])
    BY <1>4, ReplayIs
  <2>. HIDE DEF p
  <2>4. /\ Len(z) \in Nat /\ Len(p) \in Nat /\ DOMAIN z = 1..Len(z)
        /\ DOMAIN (z \o p) = 1..(Len(z) + Len(p))
        /\ \A j \in 1..Len(z) : (z \o p)[j] = z[j]
        /\ \A j \in 1..Len(p) : (z \o p)[Len(z) + j] = p[j]
    BY <1>1, <2>3, ConcatIs
  <2>5. ASSUME NEW i \in DOMAIN (z \o p) \ DOMAIN z
        PROVE  (z \o p)[i].t = "data"
    <3>. DEFINE k == i - Len(z)
    <3>1. k \in 1..Len(p) /\ i = Len(z) + k
      BY <2>4
    <3>2. (z \o p)[i] = Data(scroll[k])
      BY <2>3, <2>4, <3>1
    <3>. QED BY <3>2 DEF Data
  <2>6. \A j \in DOMAIN z : (z \o p)[j] = z[j]
    BY <2>4
  <2>. QED BY <2>2, <2>5, <2>6 DEF p
<1>6. 1 \in DOMAIN z => 1 \in DOMAIN y
  <2>1. Replay(scroll) \in Seq(Frame)
    BY <1>4, ReplayIs
  <2>2. /\ DOMAIN z = 1..Len(z) /\ DOMAIN y = 1..(Len(z) + Len(Replay(scroll)))
        /\ Len(z) \in Nat /\ Len(Replay(scroll)) \in Nat
    BY <1>1, <2>1, ConcatIs
  <2>. HIDE DEF y
  <2>. QED BY <2>2
<1>7. y = Greeting
  BY DEF Greeting, z
<1>. HIDE DEF y
<1>8. \A i \in DOMAIN y : \/ size # NoSize /\ i = 1 /\ y[i] = Resize(size)
                          \/ y[i].t = "data" /\ ~(size # NoSize /\ i = 1)
  BY <1>2, <1>5
<1>. QED BY <1>2, <1>5, <1>6, <1>7, <1>8

LEMMA AttachKeepsViews ==
  ASSUME TypeOK, IInv, VI, NEW g \in Guests, GuestAttach(g)
  PROVE  VI'
<1>1. /\ main[g] = "away" /\ host /\ guests' = guests \cup {g}
      /\ main' = [main EXCEPT ![g] = "replay"]
      /\ backlog' = [backlog EXCEPT ![g] = Greeting]
      /\ UNCHANGED <<length, sent, scroll, hostPc, casting, host, size, writer>>
  BY DEF GuestAttach, Greeting, pumpVars, hostVars
<1>2. Source' /\ Due' = Due /\ (Closing => Closing')
  <2>1. hostPc # "away"
    BY <1>1 DEF VI, Source
  <2>. QED BY <1>1, <2>1 DEF VI, Source, Due, Closing
<1>3. ASSUME NEW d \in Guests \ {g}
      PROVE  OfView(d)'
  <2>1. Coming(d)' = Coming(d)
    BY Greets
  <2>2. main'[d] = main[d] /\ backlog'[d] = backlog[d]
    BY <1>1 DEF TypeOK
  <2>3. Stages(d)'
    BY <1>1, <2>1, <2>2 DEF VI, OfView, Stages
  <2>. QED BY <1>1, <1>2, <2>1, <2>3, ViewStays DEF VI
<1>4. OfView(g)'
  <2>1. Stages(g)'
    <3>1. writer[g] = "off"
      BY <1>1 DEF IInv, OfGuest, Pumping
    <3>. QED BY <1>1, <3>1 DEF TypeOK, Stages
  <2>2. Run(length, Greeting, sent, Due) /\ UpTo(length, Greeting, sent, Due)
    <3>1. Run(length, Greeting, sent, Due) /\ UpTo(length, Greeting, sent, {})
      BY GreetingRuns
    <3>. QED BY <3>1 DEF UpTo
  <2>3. Coming(g)' = Greeting
    BY Greets
  <2>4. View(g)'
    BY <1>1, <1>2, <2>2, <2>3 DEF View
  <2>5. Final(g)'
    <3>1. ASSUME NEW i \in DOMAIN Greeting
          PROVE  Greeting[i] # Close
      <4>1. Greeting[i].t \in {"resize", "data"}
        BY GreetingRuns DEF Resize
      <4>. QED BY <4>1 DEF Close
    <3>. QED BY <2>3, <3>1 DEF Final
  <2>. QED BY <2>1, <2>4, <2>5 DEF OfView
<1>. QED BY <1>1, <1>2, <1>3, <1>4 DEF VI

LEMMA FramesKeepViews ==
  ASSUME TypeOK, IInv, VI, NEW g \in Guests, ReplaySent(g) \/ WriterTakes(g) \/ WriterSent(g)
  PROVE  VI'
<1>1. UNCHANGED <<length, sent, scroll, hostPc, casting, host, size, guests, main>>
  BY DEF ReplaySent, WriterTakes, WriterSent, hostVars
<1>2. Source' /\ Due' = Due /\ (Closing => Closing')
  BY <1>1 DEF VI, Source, Due, Closing
<1>3. ASSUME NEW d \in Guests
      PROVE  OfView(d)'
  <2>1. Coming(d)' = Coming(d)
    BY FramesMove DEF VI, OfView
  <2>2. writer'[d] # "off" => backlog'[d] = <<>>
    <3>1. CASE ReplaySent(g)
      <4>1. writer' = writer /\ writer[g] = "off"
        BY <3>1 DEF ReplaySent, pumpVars, IInv, OfGuest, Pumping
      <4>2. d # g => backlog'[d] = backlog[d]
        BY <3>1 DEF ReplaySent, TypeOK
      <4>. QED BY <4>1, <4>2 DEF VI, OfView, Stages
    <3>2. CASE WriterTakes(g) \/ WriterSent(g)
      <4>1. writer[g] # "off" /\ backlog' = backlog
        BY <3>2 DEF WriterTakes, WriterSent
      <4>2. d # g => writer'[d] = writer[d]
        BY <3>2 DEF WriterTakes, WriterSent, Take, TypeOK
      <4>. QED BY <4>1, <4>2 DEF VI, OfView, Stages
    <3>. QED BY <3>1, <3>2
  <2>3. Stages(d)'
    BY <1>1, <2>1, <2>2 DEF VI, OfView, Stages
  <2>. QED BY <1>1, <1>2, <2>1, <2>3, ViewStays DEF VI
<1>. QED BY <1>1, <1>2, <1>3 DEF VI

LEMMA OthersKeepViews ==
  ASSUME TypeOK, VI, NEW g \in Guests,
         \/ ReaderTypes(g)
         \/ StopGuest(g) \/ ReplayFails(g) \/ StartPumps(g) \/ GuestReturns(g) \/ GuestCleanup(g)
         \/ Watchdog(g) \/ GuestLost(g) \/ WriterSendFails(g) \/ WriterStops(g) \/ WriterEnds(g)
         \/ ReaderSent(g) \/ ReaderSendFails(g) \/ ReaderPings(g) \/ PongEnds(g)
         \/ ReaderCloses(g) \/ ReaderEnds(g)
  PROVE  VI'
<1>1. /\ UNCHANGED <<length, sent, scroll, hostPc, casting, host, size>>
      /\ UNCHANGED <<seen, held, backlog, queue>>
  BY OtherSteps DEF ReaderTypes, flowVars, hostVars
<1>2. guests' \subseteq guests
  BY DEF ReaderTypes, StopGuest, ReplayFails, StartPumps, GuestReturns, GuestCleanup, Watchdog,
         GuestLost, WriterSendFails, WriterStops, WriterEnds, ReaderSent, ReaderSendFails,
         ReaderPings, PongEnds, PongSent, PongFails, ReaderCloses, ReaderEnds
<1>3. Source' /\ Due' = Due /\ (Closing => Closing')
  BY <1>1, <1>2 DEF VI, Source, Due, Closing
<1>4. ASSUME NEW d \in Guests
      PROVE  /\ main'[d] = "away" => main[d] = "away"
             /\ writer'[d] # "off" => writer[d] # "off" \/ backlog[d] = <<>>
  <2>1. CASE StartPumps(g)
    BY <2>1 DEF StartPumps, TypeOK
  <2>2. CASE ReplayFails(g) \/ GuestReturns(g) \/ GuestCleanup(g)
    BY <2>2 DEF ReplayFails, GuestReturns, GuestCleanup, Return, TypeOK, pumpVars
  <2>3. CASE WriterSendFails(g) \/ WriterStops(g) \/ WriterEnds(g)
    BY <2>3 DEF WriterSendFails, WriterStops, WriterEnds, TypeOK
  <2>4. CASE \/ ReaderTypes(g) \/ StopGuest(g) \/ Watchdog(g) \/ GuestLost(g)
             \/ ReaderSent(g) \/ ReaderSendFails(g) \/ ReaderPings(g) \/ PongEnds(g)
             \/ ReaderCloses(g) \/ ReaderEnds(g)
    BY <2>4 DEF ReaderTypes, StopGuest, Watchdog, GuestLost, ReaderSent, ReaderSendFails,
                ReaderPings, PongEnds, PongSent, PongFails, ReaderCloses, ReaderEnds, pumpVars
  <2>. QED BY <2>1, <2>2, <2>3, <2>4
<1>5. ASSUME NEW d \in Guests
      PROVE  OfView(d)'
  <2>1. Coming(d)' = Coming(d)
    BY <1>1, ComingUntouched
  <2>2. Stages(d)'
    BY <1>1, <1>4, <2>1 DEF VI, OfView, Stages
  <2>. QED BY <1>1, <1>2, <1>3, <2>1, <2>2, ViewStays DEF VI
<1>. QED BY <1>1, <1>3, <1>5 DEF VI

LEMMA InitViews == ASSUME Init PROVE VI
<1>. DEFINE F == Frame
<1>1. \A g \in Guests : Coming(g) = <<>>
  <2>1. <<>> \o <<>> = <<>>
    <3>1. <<>> \in Seq(F)
      BY EmptySeq
    <3>. HIDE DEF F
    <3>. QED BY <3>1, ConcatEmptySeq
  <2>. QED BY <2>1 DEF Init, Coming
<1>2. sent = 0 /\ scroll = <<>> /\ hostPc = "away" /\ guests = {} /\ host = FALSE
      /\ backlog = [g \in Guests |-> <<>>]
  BY DEF Init
<1>3. Said(length, 0 + 1) = {}
  BY DEF Said
<1>4. EndsLatest(length, scroll, sent)
  BY <1>2, <1>3 DEF EndsLatest
<1>5. Source
  BY <1>2 DEF Source
<1>6. ASSUME NEW g \in Guests
      PROVE  OfView(g)
  <2>1. Stages(g)
    BY <1>1, <1>2 DEF Stages
  <2>2. DOMAIN Coming(g) = {}
    BY <1>1
  <2>3. At(length, Coming(g)) = {}
    BY <2>2 DEF At
  <2>4. View(g)
    BY <1>2, <2>3 DEF View, Run, InOrderUpTo, Gapless, TwiceAtMostOne, Twice
  <2>5. Final(g)
    BY <2>2 DEF Final
  <2>. QED BY <2>1, <2>4, <2>5 DEF OfView
<1>. QED BY <1>4, <1>5, <1>6 DEF VI

LEMMA StutterKeepsViews == ASSUME VI, UNCHANGED vars PROVE VI'
<1>1. /\ UNCHANGED <<length, sent, scroll, hostPc, casting, host, size, guests, main, writer>>
      /\ UNCHANGED <<seen, held, backlog, queue>>
  BY DEF vars, hostVars, pumpVars, connVars
<1>2. Source' /\ Due' = Due /\ (Closing => Closing')
  BY <1>1 DEF VI, Source, Due, Closing
<1>3. ASSUME NEW d \in Guests
      PROVE  OfView(d)'
  <2>1. Coming(d)' = Coming(d)
    BY <1>1, ComingUntouched
  <2>2. Stages(d)'
    BY <1>1, <2>1 DEF VI, OfView, Stages
  <2>. QED BY <1>1, <1>2, <2>1, <2>2, ViewStays DEF VI
<1>. QED BY <1>1, <1>2, <1>3 DEF VI

LEMMA ViewInvariance == Spec => []VI
<1>1. Init => VI
  BY InitViews
<1>2. ASSUME TypeOK, IInv, VI, [Next]_vars
      PROVE  VI'
  BY <1>2, Steps, HostKeepsViews, HostDataKeepsViews, BroadcastKeepsViews, AttachKeepsViews,
     FramesKeepViews, OthersKeepViews, StutterKeepsViews
<1>. QED BY <1>1, <1>2, TypeInvariance, Invariance, PTL DEF Spec

-----------------------------------------------------------------------------
LEMMA ViewsAre ==
  ASSUME VI
  PROVE  VInv
<1>1. /\ \A s : Showing(s) = At(length, s) /\ Again(s) = Twice(length, s)
      /\ \A n : Output(n) = Said(length, n)
  BY DEF Showing, Shows, At, Vis, Again, Twice, Output, Said
<1>2. RingEndsLatest
  BY <1>1 DEF VI, EndsLatest, RingEndsLatest, Between
<1>3. ASSUME NEW g \in Guests
      PROVE  Stages(g) /\ OneRun(g) /\ CloseComesLast(g)
  <2>. DEFINE s == Coming(g)
  <2>1. /\ Stages(g) /\ Run(length, s, sent, Due)
        /\ g \in guests => UpTo(length, s, sent, Due)
    BY DEF VI, OfView, View
  <2>2. \A due : UpTo(length, s, sent, due) => UpToDate(g, due)
    BY <1>1 DEF UpTo, UpToDate
  <2>3. CloseComesLast(g)
    BY <2>2 DEF VI, OfView, Final, CloseComesLast, Closing
  <2>. HIDE DEF s
  <2>4. /\ \A i \in Showing(s) : s[i].n \in 1..sent
        /\ \A i, j \in Showing(s) : i < j => s[i].n <= s[j].n
    BY <1>1, <2>1 DEF Run, InOrderUpTo
  <2>5. \A i, j \in Showing(s) : \A k \in Between(s[i].n, s[j].n) : \E l \in Showing(s) : s[l].n = k
    BY <1>1, <2>1 DEF Run, Gapless, Between
  <2>6. /\ \A i, j \in Again(s) : i = j
        /\ \A i \in Showing(s) : s[i].n \in Due => Again(s) = {}
    BY <1>1, <2>1 DEF Run, TwiceAtMostOne
  <2>7. OneRun(g)
    BY <2>1, <2>2, <2>4, <2>5, <2>6 DEF OneRun, s
  <2>. QED BY <2>1, <2>3, <2>7
<1>. QED BY <1>2, <1>3 DEF VI, VInv

\* What each guest was shown and is about to be is one run of the output, up to date
\* while it is registered, its final CLOSE behind all of it.
THEOREM ViewsHold == Spec => []VInv
BY ViewsAre, ViewInvariance, PTL

\* A guest sees the output without a gap, wherever it joined, and one frame twice at most.
THEOREM NoGapHolds == Spec => []NoGap
<1>1. VInv => NoGap
  BY DEF VInv, OneRun, UpToDate, NoGap
<1>. QED BY <1>1, ViewsHold, PTL

-----------------------------------------------------------------------------
(* The ring keeps as much as fits. *)

\* What is dropped from the front, the last of it included, would not have fitted.
LEMMA RingStaysSnug ==
  ASSUME NEW r \in Seq(1..MaxFrames), NEW n \in Nat, n + 1 \in 1..MaxFrames, Sized,
         EndsLatest(length, r, n), Snug(r)
  PROVE  Snug(RingAdd(r, n + 1))
<1>. DEFINE m == n + 1
            a == Append(r, m)
            L == Len(r) + 1
            kept(j) == SubSeq(a, j, L)
<1>0. /\ m \in Nat /\ n \in Nat /\ n < m /\ m \in 1..MaxFrames
      /\ \A k \in 1..MaxFrames : length[k] \in Nat
      /\ RingBytes \in Nat
  BY BridgeAssumption DEF Sized
<1>1. ASSUME NEW y \in Nat, y <= m, NEW x \in Output(y)
      PROVE  x \in Nat /\ x < y /\ length[x] \in Nat /\ length[x] > 0
  <2>1. x \in 1..(y - 1) /\ length[x] > 0
    BY DEF Output
  <2>. HIDE DEF m
  <2>2. x \in 1..MaxFrames
    BY <1>0, <1>1, <2>1, BridgeAssumption
  <2>. QED BY <1>0, <2>1, <2>2
<1>2. CASE length[m] = 0
  BY <1>2, RingAddDoes
<1>3. CASE length[m] >= RingBytes
  <2>. DEFINE u == <<m>>
  <2>1. Len(u) = 1 /\ u[1] = m /\ Bytes(u) = length[m]
    BY BytesOfOne
  <2>. HIDE DEF u, m
  <2>2. \A k \in Output(u[1]) : length[k] + Bytes(u) > RingBytes
    BY <1>0, <1>1, <1>3, <2>1
  <2>3. Snug(u)
    BY <2>1, <2>2 DEF Snug
  <2>4. RingAdd(r, m) = u
    BY <1>0, <1>3, RingAddDoes DEF u
  <2>. QED BY <2>3, <2>4 DEF m
<1>4. CASE length[m] # 0 /\ length[m] < RingBytes
  <2>1. PICK k \in 1..L : /\ RingAdd(r, m) = kept(k) /\ Bytes(kept(k)) <= RingBytes
                          /\ \A j \in 1..(k - 1) : Bytes(kept(j)) > RingBytes
    BY <1>4, RingAddDoes
  <2>2. /\ a \in Seq(1..MaxFrames) /\ L \in Nat /\ Len(a) = L /\ Len(r) = L - 1
        /\ DOMAIN a = 1..L /\ DOMAIN r = 1..(L - 1)
        /\ \A i \in 1..(L - 1) : a[i] = r[i]
        /\ a[L] = m
    BY AppendIs
  <2>3. PICK c : Counts(c, a)
    BY <2>2, CountExists
  <2>4. /\ Bytes(r) = c[L - 1] /\ c[L - 1] \in Int /\ c[L] = c[L - 1] + length[m]
    <3>1. Bytes(r) = c[Len(r)] /\ c[Len(r)] \in Int /\ c[Len(r) + 1] = c[Len(r)] + length[m]
      BY <2>3, BytesBefore
    <3>2. Len(r) = L - 1
      BY <2>2
    <3>. QED BY <3>1, <3>2
  <2>. HIDE DEF a, L, m
  <2>5. /\ c[0] = 0 /\ \A i \in 0..L : c[i] \in Int
        /\ \A i \in 1..L : c[i] = c[i - 1] + length[a[i]]
    BY <2>2, <2>3 DEF Counts
  <2>6. \A j \in 1..L : Bytes(kept(j)) = c[L] - c[j - 1]
    BY <2>2, <2>3, BytesFrom
  <2>7. /\ kept(k) # <<>> /\ kept(k)[1] = a[k]
    <3>1. \A i \in k..L : a[i] \in 1..MaxFrames
      <4>1. \A i \in 1..L : a[i] \in 1..MaxFrames
        BY <2>2, ElementOfSeq
      <4>. QED BY <2>2, <4>1
    <3>. DEFINE u == kept(k)
    <3>2. /\ u \in Seq(1..MaxFrames) /\ Len(u) = L - k + 1
          /\ \A i \in 1..(L - k + 1) : u[i] = a[k + i - 1]
      BY <2>2, <3>1, SubSeqProperties
    <3>3. L - k + 1 # 0 /\ 1 \in 1..(L - k + 1) /\ k + 1 - 1 = k
      BY <2>2
    <3>. HIDE DEF u
    <3>4. u # <<>> /\ u[1] = a[k]
      BY <3>2, <3>3, EmptySeq
    <3>. QED BY <3>4 DEF u
  <2>8. /\ \A i \in 1..L : a[i] \in Nat /\ a[i] <= m
        /\ \A i \in 1..(L - 1) : r[i] \in Said(length, m) /\ r[i] < m
    <3>1. \A i \in 1..(L - 1) : r[i] \in Said(length, m)
      BY <2>2 DEF EndsLatest, m
    <3>2. \A i \in 1..(L - 1) : r[i] < m /\ r[i] \in Nat
      BY <1>0, <3>1 DEF Said
    <3>3. ASSUME NEW i \in 1..L
          PROVE  a[i] \in Nat /\ a[i] <= m
      <4>1. CASE i = L
        BY <1>0, <2>2, <4>1
      <4>2. CASE i # L
        <5>1. i \in 1..(L - 1) /\ a[i] = r[i]
          BY <2>2, <4>2
        <5>. QED BY <1>0, <3>2, <5>1
      <4>. QED BY <4>1, <4>2
    <3>. QED BY <3>1, <3>2, <3>3
  <2>9. ASSUME NEW x \in Output(a[k]), Between(x, a[k]) = {}
        PROVE  length[x] + Bytes(kept(k)) > RingBytes
    <3>1. /\ x \in Nat /\ x < a[k] /\ length[x] \in Nat /\ length[x] > 0 /\ a[k] \in Nat
          /\ x \in Said(length, m) /\ a[k] <= m
      <4>1. x \in Nat /\ x < a[k] /\ length[x] \in Nat /\ length[x] > 0 /\ a[k] \in Nat /\ a[k] <= m
        BY <1>1, <2>8
      <4>2. x >= 1
        BY DEF Output
      <4>. QED BY <1>0, <4>1, <4>2 DEF Said
    <3>2. CASE k # 1
      <4>1. k - 1 \in 1..(L - 1) /\ k - 1 \in 1..L /\ k - 1 \in 1..(k - 1) /\ (k - 1) - 1 \in 0..L
        BY <2>2, <3>2
      <4>. DEFINE y == r[k - 1]
      <4>2. y \in Said(length, m) /\ y \in Nat /\ y = a[k - 1] /\ y < m
        BY <2>2, <2>8, <4>1 DEF Said
      <4>3. y < a[k]
        <5>1. CASE k = L
          BY <2>2, <4>2, <5>1
        <5>2. CASE k # L
          <6>1. k \in 1..(L - 1) /\ k - 1 < k
            BY <2>2, <5>2
          <6>. QED BY <2>2, <4>1, <6>1 DEF EndsLatest
        <5>. QED BY <5>1, <5>2
      <4>4. y <= x
        <5>1. y \in Output(a[k])
          BY <3>1, <4>2, <4>3 DEF Output, Said
        <5>2. ~(y > x)
          BY <2>9, <5>1 DEF Between
        <5>. HIDE DEF y
        <5>. QED BY <3>1, <4>2, <5>2
      <4>5. ASSUME x > y
            PROVE  FALSE
        <5>1. PICK l \in 1..(L - 1) : r[l] = x
          BY <2>2, <3>1, <4>1, <4>5 DEF EndsLatest, m
        <5>2. l >= k
          <6>1. l # k - 1
            BY <3>1, <4>2, <4>5, <5>1
          <6>2. l < k - 1 => r[l] < y
            BY <2>2, <4>1, <5>1 DEF EndsLatest
          <6>3. ~(l < k - 1)
            <7>. HIDE DEF y
            <7>. QED BY <3>1, <4>2, <4>5, <5>1, <6>2
          <6>. QED BY <2>2, <6>1, <6>3
        <5>3. k \in 1..(L - 1) /\ a[k] = r[k]
          BY <2>2, <5>2
        <5>4. k # l => r[k] < r[l]
          BY <2>2, <5>1, <5>2, <5>3 DEF EndsLatest
        <5>. QED BY <3>1, <5>1, <5>3, <5>4
      <4>6. x = a[k - 1]
        <5>. HIDE DEF y
        <5>. QED BY <3>1, <4>2, <4>4, <4>5
      <4>7. Bytes(kept(k - 1)) > RingBytes /\ Bytes(kept(k - 1)) = c[L] - c[(k - 1) - 1]
        BY <2>1, <2>6, <4>1
      <4>8. c[k - 1] = c[(k - 1) - 1] + length[x] /\ Bytes(kept(k)) = c[L] - c[k - 1]
        BY <2>5, <2>6, <4>1, <4>6
      <4>9. c[L] \in Int /\ c[k - 1] \in Int /\ c[(k - 1) - 1] \in Int
        BY <2>2, <2>5, <4>1
      <4>. DEFINE b == Bytes(kept(k))
                  p == Bytes(kept(k - 1))
                  c0 == c[L]
                  c1 == c[k - 1]
                  c2 == c[(k - 1) - 1]
                  e == length[x]
      <4>10. /\ p > RingBytes /\ p = c0 - c2 /\ c1 = c2 + e /\ b = c0 - c1
             /\ c0 \in Int /\ c1 \in Int /\ c2 \in Int /\ e \in Int /\ RingBytes \in Int
        BY <1>0, <3>1, <4>7, <4>8, <4>9
      <4>. HIDE DEF b, p, c0, c1, c2, e
      <4>11. e + b > RingBytes
        BY <4>10
      <4>. QED BY <4>11 DEF b, e
    <3>3. CASE k = 1
      <4>1. r # <<>>
        <5>1. ASSUME r = <<>>
              PROVE  FALSE
          <6>1. Said(length, m) = {}
            BY <5>1 DEF EndsLatest, m
          <6>. QED BY <3>1, <6>1
        <5>. QED BY <5>1
      <4>2. 1 \in 1..(L - 1) /\ a[1] = r[1]
        <5>1. L - 1 # 0
          BY <2>2, <4>1, EmptySeq
        <5>. QED BY <2>2, <5>1
      <4>3. length[x] + Bytes(r) > RingBytes
        BY <2>9, <3>3, <4>1, <4>2 DEF Snug
      <4>4. Bytes(kept(k)) = c[L] - c[0] /\ c[0] = 0 /\ c[L] \in Int
        BY <2>2, <2>5, <2>6, <3>3
      <4>. DEFINE b  == Bytes(kept(k))
                  q  == Bytes(r)
                  c0 == c[L]
                  c1 == c[L - 1]
                  e  == length[x]
                  w  == length[m]
      <4>5. /\ b = c0 /\ q = c1 /\ c0 = c1 + w /\ e + q > RingBytes
            /\ c0 \in Int /\ c1 \in Int /\ e \in Int /\ w \in Nat /\ RingBytes \in Int
        BY <1>0, <2>4, <3>1, <4>3, <4>4
      <4>. HIDE DEF b, q, c0, c1, e, w
      <4>6. e + b > RingBytes
        BY <4>5
      <4>. QED BY <4>6 DEF b, e
    <3>. QED BY <3>2, <3>3
  <2>10. Snug(kept(k))
    <3>. DEFINE u == kept(k)
    <3>. HIDE DEF u
    <3>. QED BY <2>1, <2>7, <2>9 DEF Snug, u
  <2>. QED BY <2>1, <2>10 DEF m
<1>. QED BY <1>0, <1>2, <1>3, <1>4

\* The replay is the longest run of the latest output that fits, for any payload lengths and
\* any size of the ring (ring.go:28-50).
THEOREM RingIsRecentHolds == Spec => []RingIsRecent
<1>1. Init => Snug(scroll)
  <2>1. ASSUME Init
        PROVE  Snug(scroll)
    <3>1. scroll = <<>> /\ length \in [1..MaxFrames -> Lengths]
      BY <2>1 DEF Init
    <3>2. Sized
      BY <3>1, BridgeAssumption DEF Sized
    <3>3. Bytes(<<>>) = 0
      <4>1. <<>> \in Seq(1..MaxFrames) /\ Len(<<>>) = 0
        BY EmptySeq
      <4>2. PICK c : Counts(c, <<>>)
        BY <3>2, <4>1, CountExists
      <4>. QED BY <3>2, <4>1, <4>2, BytesAreCounted DEF Counts
    <3>. QED BY <3>1, <3>3, BridgeAssumption DEF Snug
  <2>. QED BY <2>1
<1>2. ASSUME TypeOK, VI, Snug(scroll), [Next]_vars
      PROVE  Snug(scroll)'
  <2>1. UNCHANGED length
    BY <1>2, LengthStays
  <2>2. CASE HostData
    <3>1. scroll' = RingAdd(scroll, sent + 1) /\ sent \in Nat /\ sent + 1 \in 1..MaxFrames
      BY <1>2, <2>2, BridgeAssumption DEF HostData, TypeOK
    <3>2. Sized
      BY <1>2, BridgeAssumption DEF TypeOK, Sized
    <3>3. Snug(RingAdd(scroll, sent + 1))
      BY <1>2, <3>1, <3>2, RingStaysSnug DEF VI, TypeOK
    <3>. QED BY <2>1, <3>1, <3>3 DEF Snug, Bytes, Output, Between
  <2>3. CASE UNCHANGED scroll
    BY <1>2, <2>1, <2>3 DEF Snug, Bytes, Output, Between
  <2>. QED BY <1>2, <2>2, <2>3, LengthStays
<1>3. VInv /\ Snug(scroll) => RingIsRecent
  BY DEF VInv, RingIsRecent
<1>. QED BY <1>1, <1>2, <1>3, TypeInvariance, ViewInvariance, ViewsHold, PTL DEF Spec

-----------------------------------------------------------------------------
(* The window size. *)

Known(s)     == {i \in DOMAIN s : s[i].t = "resize"}
Knows(s, w)  == \/ Known(s) = {} /\ w = NoSize
                \/ \E i \in Known(s) : s[i].n = w /\ \A j \in Known(s) : j <= i
Resizing     == hostPc = "cast" /\ casting.t = "resize"

LEMMA SizeIs == SizeAgrees <=> \A g \in guests : Resizing \/ Knows(Coming(g), size)
BY DEF SizeAgrees, Resizing, Knows, Known

LEMMA KnownAppended ==
  ASSUME NEW s \in Seq(Frame), NEW f \in Frame, NEW w
  PROVE  /\ f.t = "resize" => Knows(Append(s, f), f.n)
         /\ f.t # "resize" /\ Knows(s, w) => Knows(Append(s, f), w)
<1>. DEFINE a == Append(s, f)
            L == Len(s) + 1
<1>1. /\ DOMAIN s = 1..Len(s) /\ DOMAIN a = 1..L /\ Len(s) \in Nat /\ a[L] = f
      /\ \A i \in 1..Len(s) : a[i] = s[i]
  BY AppendIs
<1>. HIDE DEF a
<1>2. ASSUME f.t = "resize"
      PROVE  Knows(a, f.n)
  <2>1. L \in Known(a)
    BY <1>1, <1>2 DEF Known
  <2>2. \A j \in Known(a) : j <= L
    BY <1>1 DEF Known
  <2>. HIDE DEF L
  <2>. QED BY <1>1, <2>1, <2>2 DEF Knows
<1>3. ASSUME f.t # "resize", Knows(s, w)
      PROVE  Knows(a, w)
  <2>1. \A i \in DOMAIN a : i \in DOMAIN s \/ i = L
    BY <1>1
  <2>2. DOMAIN s \subseteq DOMAIN a /\ \A i \in DOMAIN s : a[i] = s[i]
    BY <1>1
  <2>3. a[L] = f
    BY <1>1
  <2>. HIDE DEF L
  <2>4. Known(a) = Known(s)
    BY <1>3, <2>1, <2>2, <2>3 DEF Known
  <2>5. \A i \in Known(s) : a[i] = s[i]
    BY <2>2 DEF Known
  <2>. QED BY <1>3, <2>4, <2>5 DEF Knows
<1>. QED BY <1>2, <1>3 DEF a

SizeInv == \A g \in guests : Resizing \/ Knows(Coming(g), size)

LEMMA SizeStep ==
  ASSUME TypeOK, IInv, VI, SizeInv, [Next]_vars
  PROVE  SizeInv'
<1>. USE DEF SizeInv
<1>1. ASSUME UNCHANGED <<hostPc, casting, size>>, guests' \subseteq guests,
             \A g \in Guests : Coming(g)' = Coming(g)
      PROVE  SizeInv'
  <2>1. ASSUME NEW g \in guests'
        PROVE  Resizing' \/ Knows(Coming(g), size)'
    <3>1. g \in Guests /\ g \in guests /\ Coming(g)' = Coming(g)
      BY <1>1 DEF TypeOK
    <3>2. Knows(Coming(g), size) => Knows(Coming(g), size)'
      BY <1>1, <3>1 DEF Knows, Known
    <3>3. Resizing => Resizing'
      BY <1>1 DEF Resizing
    <3>. QED BY <3>1, <3>2, <3>3
  <2>. QED BY <2>1
<1>2. ASSUME NEW g \in Guests, GuestAttach(g)
      PROVE  SizeInv'
  <2>1. /\ UNCHANGED <<hostPc, casting, size>> /\ guests' = guests \cup {g}
    BY <1>2 DEF GuestAttach, hostVars
  <2>2. Coming(g)' = Greeting /\ \A d \in Guests \ {g} : Coming(d)' = Coming(d)
    BY <1>2, Greets
  <2>3. Knows(Greeting, size)
    <3>. DEFINE y == Greeting
    <3>1. \A i \in DOMAIN y : \/ size # NoSize /\ i = 1 /\ y[i] = Resize(size)
                              \/ y[i].t = "data" /\ ~(size # NoSize /\ i = 1)
      BY GreetingRuns
    <3>2. size # NoSize => 1 \in DOMAIN y
      BY GreetingRuns
    <3>. HIDE DEF y
    <3>3. CASE size = NoSize
      <4>1. Known(y) = {}
        BY <3>1, <3>3 DEF Known
      <4>. QED BY <3>3, <4>1 DEF Knows, y
    <3>4. CASE size # NoSize
      <4>1. y[1] = Resize(size)
        BY <3>1, <3>2, <3>4
      <4>2. Known(y) = {1} /\ y[1].n = size
        BY <3>1, <3>2, <3>4, <4>1 DEF Known, Resize
      <4>. QED BY <4>2 DEF Knows, y
    <3>. QED BY <3>3, <3>4
  <2>4. \A d \in guests \ {g} : d \in Guests \ {g}
    BY DEF TypeOK
  <2>. QED BY <2>1, <2>2, <2>3, <2>4 DEF Resizing, Knows, Known
<1>3. ASSUME NEW g \in Guests, ReplaySent(g) \/ WriterTakes(g) \/ WriterSent(g)
      PROVE  SizeInv'
  <2>1. UNCHANGED <<hostPc, casting, size, guests>>
    BY <1>3 DEF ReplaySent, WriterTakes, WriterSent, hostVars
  <2>2. \A d \in Guests : Coming(d)' = Coming(d)
    BY <1>3, FramesMove DEF VI, OfView
  <2>. QED BY <1>1, <2>1, <2>2
<1>4. ASSUME NEW g \in Guests,
             \/ ReaderTypes(g)
             \/ StopGuest(g) \/ ReplayFails(g) \/ StartPumps(g) \/ GuestReturns(g)
             \/ GuestCleanup(g) \/ Watchdog(g) \/ GuestLost(g) \/ WriterSendFails(g)
             \/ WriterStops(g) \/ WriterEnds(g) \/ ReaderSent(g) \/ ReaderSendFails(g)
             \/ ReaderPings(g) \/ PongEnds(g) \/ ReaderCloses(g) \/ ReaderEnds(g)
      PROVE  SizeInv'
  <2>1. /\ UNCHANGED <<hostPc, casting, size>>
        /\ UNCHANGED <<seen, held, backlog, queue>>
    BY <1>4, OtherSteps DEF ReaderTypes, flowVars, hostVars
  <2>2. guests' \subseteq guests
    BY <1>4 DEF ReaderTypes, StopGuest, ReplayFails, StartPumps, GuestReturns, GuestCleanup,
                Watchdog, GuestLost, WriterSendFails, WriterStops, WriterEnds, ReaderSent,
                ReaderSendFails, ReaderPings, PongEnds, PongSent, PongFails, ReaderCloses,
                ReaderEnds
  <2>. QED BY <1>1, <2>1, <2>2, ComingUntouched
<1>5. ASSUME \/ \E w \in Windows \cup {NoSize} : HostAttach(w)
             \/ HostClose \/ HostLost \/ HostReturns \/ ShutdownBegins \/ CloseAll
             \/ BaseCancel \/ KillSlow
             \/ \E w \in Windows : HostResize(w)
             \/ HostData
      PROVE  SizeInv'
  <2>1. UNCHANGED <<seen, held, backlog, queue>> /\ guests' \subseteq guests
    BY <1>5 DEF HostAttach, HostClose, HostLost, HostReturns, ShutdownBegins, CloseAll,
                BaseCancel, KillSlow, HostResize,
                HostData, CloseUnderLock, pumpVars
  <2>2. \A g \in Guests : Coming(g)' = Coming(g)
    BY <2>1, ComingUntouched
  <2>3. \/ hostPc = "away" /\ guests' \subseteq guests
        \/ hostPc' = "cast" /\ \E w \in Windows : casting' = Resize(w)
        \/ hostPc # "cast" /\ size' = size
        \/ UNCHANGED <<hostPc, casting, size>>
    BY <1>5, <2>1 DEF HostAttach, HostClose, HostLost, HostReturns, ShutdownBegins, CloseAll,
                      BaseCancel, KillSlow, HostResize,
                HostData, hostVars
  <2>4. hostPc = "away" => guests = {}
    BY DEF VI, Source
  <2>5. \A w : Resize(w).t = "resize"
    BY DEF Resize
  <2>6. CASE hostPc = "away"
    BY <2>1, <2>4, <2>6
  <2>7. CASE hostPc' = "cast" /\ \E w \in Windows : casting' = Resize(w)
    BY <2>5, <2>7 DEF Resizing
  <2>8. CASE hostPc # "cast" /\ size' = size
    <3>1. ASSUME NEW g \in guests'
          PROVE  Knows(Coming(g), size)'
      <4>1. g \in guests /\ Coming(g)' = Coming(g)
        BY <2>1, <2>2 DEF TypeOK
      <4>2. Knows(Coming(g), size)
        BY <2>8, <4>1 DEF Resizing
      <4>. QED BY <2>8, <4>1, <4>2 DEF Knows, Known
    <3>. QED BY <3>1
  <2>9. CASE UNCHANGED <<hostPc, casting, size>>
    BY <1>1, <2>1, <2>2, <2>9
  <2>. QED BY <2>3, <2>6, <2>7, <2>8, <2>9
<1>6. ASSUME Broadcast
      PROVE  SizeInv'
  <2>1. /\ hostPc = "cast" /\ UNCHANGED <<casting, size>> /\ guests' \subseteq Guests
        /\ casting \in Frame
    BY <1>6 DEF Broadcast, TypeOK
  <2>2. ASSUME NEW g \in guests'
        PROVE  Knows(Coming(g), size)'
    <3>. DEFINE s == Coming(g)
    <3>1. g \in guests /\ Coming(g)' = Append(s, casting)
      BY <1>6, <2>1, BroadcastMoves
    <3>2. s \in Seq(Frame)
      BY <2>1, ComingType
    <3>3. Knows(Append(s, casting), size)
      <4>1. CASE casting.t = "resize"
        <5>1. casting.n = size
          BY <2>1, <4>1 DEF VI, Source, Resize
        <5>. HIDE DEF s
        <5>. QED BY <2>1, <3>2, <4>1, <5>1, KnownAppended
      <4>2. CASE casting.t # "resize"
        <5>1. Knows(s, size)
          BY <3>1, <4>2 DEF Resizing
        <5>. HIDE DEF s
        <5>. QED BY <2>1, <3>2, <4>2, <5>1, KnownAppended
      <4>. QED BY <4>1, <4>2
    <3>. QED BY <2>1, <3>1, <3>3 DEF Knows, Known
  <2>. QED BY <2>2
<1>7. ASSUME UNCHANGED vars
      PROVE  SizeInv'
  <2>1. UNCHANGED <<hostPc, casting, size, guests, seen, held, backlog, queue>>
    BY <1>7 DEF vars, hostVars, pumpVars
  <2>. QED BY <1>1, <2>1, ComingUntouched
<1>. QED BY <1>2, <1>3, <1>4, <1>5, <1>6, <1>7, Steps

\* Every attached guest knows the host's current window size or is about to be told.
THEOREM SizeAgreesHolds == Spec => []SizeAgrees
<1>1. Init => SizeInv
  BY DEF Init, SizeInv
<1>2. SizeInv <=> SizeAgrees
  BY SizeIs DEF SizeInv
<1>. QED BY <1>1, <1>2, SizeStep, TypeInvariance, Invariance, ViewInvariance, PTL DEF Spec

-----------------------------------------------------------------------------
(* The fan-out implements the shared terminal: each step of BridgeFanOut is a step of
   SharedTerminal or changes nothing that it speaks of. *)

-----------------------------------------------------------------------------
(* How many of the first n data frames show something. *)

Visible(len, n) == {k \in 1..n : len[k] > 0}
Rk(len, n)      == Cardinality(Visible(len, n))

LEMMA VisibleFinite ==
  ASSUME NEW len, NEW n \in Nat
  PROVE  IsFiniteSet(Visible(len, n)) /\ Rk(len, n) \in Nat /\ Visible(len, n) \subseteq 1..n
<1>1. IsFiniteSet(1..n) /\ Visible(len, n) \in SUBSET (1..n)
  BY FS_Interval DEF Visible
<1>2. IsFiniteSet(Visible(len, n))
  BY <1>1, FS_Subset, Zenon
<1>. QED BY <1>1, <1>2, FS_CardinalityType DEF Rk

LEMMA RankGrows ==
  ASSUME NEW len, NEW n \in Nat, NEW m \in Nat, m <= n
  PROVE  Rk(len, m) <= Rk(len, n)
<1>1. Visible(len, m) \in SUBSET Visible(len, n)
  BY DEF Visible
<1>. QED BY <1>1, VisibleFinite, FS_Subset DEF Rk

\* The next output raises the rank by one.
LEMMA RankNext ==
  ASSUME NEW len, NEW n \in Nat, NEW m \in Nat, m < n, len[n] > 0,
         \A k \in 1..n : len[k] > 0 => k <= m \/ k = n
  PROVE  Rk(len, n) = Rk(len, m) + 1
<1>1. Visible(len, n) = Visible(len, m) \cup {n}
  BY DEF Visible
<1>2. n \notin Visible(len, m)
  BY DEF Visible
<1>3. /\ IsFiniteSet(Visible(len, m))
      /\ \A x : Cardinality(Visible(len, m) \cup {x}) =
           IF x \in Visible(len, m) THEN Cardinality(Visible(len, m))
           ELSE Cardinality(Visible(len, m)) + 1
  BY VisibleFinite, FS_AddElement
<1>. QED BY <1>1, <1>2, <1>3 DEF Rk

\* Frames that show nothing do not raise it.
LEMMA RankStays ==
  ASSUME NEW len, NEW n \in Nat, NEW m \in Nat, m <= n, \A k \in 1..n : len[k] > 0 => k <= m
  PROVE  Rk(len, n) = Rk(len, m)
<1>1. Visible(len, n) = Visible(len, m)
  BY DEF Visible
<1>. QED BY <1>1 DEF Rk

LEMMA RankPositive ==
  ASSUME NEW len, NEW n \in Nat \ {0}, len[n] > 0
  PROVE  Rk(len, n) > 0
<1>1. n \in Visible(len, n)
  BY DEF Visible
<1>2. Rk(len, n) \in Nat /\ (Rk(len, n) = 0 => Visible(len, n) = {})
  BY VisibleFinite, FS_EmptySet DEF Rk
<1>. QED BY <1>1, <1>2

-----------------------------------------------------------------------------
(* What a guest that was sent s was shown of the output. *)

First(len, s)  == CHOOSE i \in At(len, s) : \A j \in At(len, s) : i <= j
Latest(len, s) == CHOOSE i \in At(len, s) : \A j \in At(len, s) : i >= j
Screen(len, s) == IF At(len, s) = {} THEN [from |-> 0, to |-> 0]
                  ELSE [from |-> Rk(len, s[First(len, s)].n), to |-> Rk(len, s[Latest(len, s)].n)]

LEMMA ShownIs == ASSUME NEW g PROVE Shown(g) = Screen(length, seen[g])
<1>1. Showing(seen[g]) = At(length, seen[g])
  BY DEF Showing, Shows, At, Vis
<1>2. \A n : Rank(n) = Rk(length, n)
  BY DEF Rank, Rk, Visible
<1>. QED BY <1>1, <1>2 DEF Shown, Screen, First, Latest

LEMMA FirstAndLatest ==
  ASSUME NEW len, NEW s \in Seq(Frame), At(len, s) # {}
  PROVE  /\ First(len, s) \in At(len, s) /\ Latest(len, s) \in At(len, s)
         /\ \A j \in At(len, s) : First(len, s) <= j /\ Latest(len, s) >= j
         /\ \A i \in At(len, s) : (\A j \in At(len, s) : i <= j) => First(len, s) = i
         /\ \A i \in At(len, s) : (\A j \in At(len, s) : i >= j) => Latest(len, s) = i
<1>. DEFINE T == At(len, s)
            n == Len(s)
<1>1. n \in Nat /\ T \in SUBSET (0..n) /\ T \in SUBSET Nat /\ T # {}
  <2>1. DOMAIN s = 1..Len(s) /\ Len(s) \in Nat
    BY LenProperties
  <2>. QED BY <2>1 DEF At
<1>2. \E x \in T : \A y \in T : x <= y
  <2>. HIDE DEF T
  <2>. QED BY <1>1, HasLeast
<1>3. \E x \in T : \A y \in T : x >= y
  <2>. HIDE DEF T, n
  <2>1. PICK x \in T : \A y \in T : y <= x
    BY <1>1, HasGreatest
  <2>. QED BY <1>1, <2>1
<1>4. First(len, s) \in T /\ \A j \in T : First(len, s) <= j
  BY <1>2 DEF First
<1>5. Latest(len, s) \in T /\ \A j \in T : Latest(len, s) >= j
  BY <1>3 DEF Latest
<1>6. \A i \in T : i \in Nat
  BY <1>1
<1>. HIDE DEF T
<1>7. \A i \in T : (\A j \in T : i <= j) => First(len, s) = i
  BY <1>6, <1>4
<1>8. \A i \in T : (\A j \in T : i >= j) => Latest(len, s) = i
  BY <1>6, <1>5
<1>. QED BY <1>4, <1>5, <1>7, <1>8 DEF T

\* A screen is blank until something was shown.
LEMMA ScreenType ==
  ASSUME NEW len, NEW s \in Seq(Frame), NEW n \in Nat, \A i \in At(len, s) : s[i].n \in 1..n
  PROVE  /\ Screen(len, s).from \in Nat /\ Screen(len, s).to \in 0..Rk(len, n)
         /\ Screen(len, s) = [from |-> Screen(len, s).from, to |-> Screen(len, s).to]
         /\ At(len, s) # {} => Screen(len, s).to > 0
<1>1. CASE At(len, s) = {}
  BY <1>1, VisibleFinite DEF Screen
<1>2. CASE At(len, s) # {}
  <2>. DEFINE a == s[First(len, s)].n
              b == s[Latest(len, s)].n
  <2>1. a \in 1..n /\ b \in 1..n /\ len[b] > 0
    BY <1>2, FirstAndLatest DEF At, Vis
  <2>2. Screen(len, s) = [from |-> Rk(len, a), to |-> Rk(len, b)]
    BY <1>2 DEF Screen
  <2>. HIDE DEF a, b
  <2>3. Rk(len, a) \in Nat /\ Rk(len, b) \in Nat /\ Rk(len, n) \in Nat /\ Rk(len, b) <= Rk(len, n)
    BY <2>1, VisibleFinite, RankGrows
  <2>4. Rk(len, b) > 0
    BY <2>1, RankPositive
  <2>. QED BY <2>2, <2>3, <2>4
<1>. QED BY <1>1, <1>2

-----------------------------------------------------------------------------
(* A frame f is shown next: s was shown, c is all that is coming. *)

LEMMA QuietShown ==
  ASSUME NEW len, NEW s \in Seq(Frame), NEW f \in Frame, ~Vis(len, f)
  PROVE  Screen(len, Append(s, f)) = Screen(len, s)
<1>. DEFINE a == Append(s, f)
<1>1. At(len, a) = At(len, s) /\ \A i \in At(len, s) : a[i] = s[i]
  BY AtAppend
<1>. HIDE DEF a
<1>2. First(len, a) = First(len, s) /\ Latest(len, a) = Latest(len, s)
  BY <1>1 DEF First, Latest
<1>3. CASE At(len, s) = {}
  BY <1>1, <1>3 DEF Screen, a
<1>4. CASE At(len, s) # {}
  <2>1. First(len, s) \in At(len, s) /\ Latest(len, s) \in At(len, s)
    BY <1>4, FirstAndLatest
  <2>. QED BY <1>1, <1>2, <1>4, <2>1 DEF Screen, a
<1>. QED BY <1>3, <1>4

\* The first output a guest is shown is where it starts watching.
LEMMA FirstShown ==
  ASSUME NEW len, NEW s \in Seq(Frame), NEW f \in Frame, Vis(len, f), At(len, s) = {}
  PROVE  Screen(len, Append(s, f)) = [from |-> Rk(len, f.n), to |-> Rk(len, f.n)]
<1>. DEFINE a == Append(s, f)
            L == Len(s) + 1
<1>1. At(len, a) = {L} /\ a[L] = f /\ L \in Nat
  <2>1. At(len, a) = At(len, s) \cup {L} /\ a[L] = f /\ Len(s) \in Nat
    BY AtAppend
  <2>. HIDE DEF a
  <2>. QED BY <2>1
<1>2. a \in Seq(Frame)
  BY AppendIs
<1>. HIDE DEF a, L
<1>3. First(len, a) = L /\ Latest(len, a) = L
  BY <1>1, <1>2, FirstAndLatest
<1>. QED BY <1>1, <1>3 DEF Screen, a

\* What follows is the next piece, or the piece just shown once more.
LEMMA NextShown ==
  ASSUME NEW len, NEW s \in Seq(Frame), NEW f \in Frame, Vis(len, f), At(len, s) # {},
         NEW c \in Seq(Frame), Len(s) + 1 \in DOMAIN c, c[Len(s) + 1] = f,
         \A i \in 1..Len(s) : c[i] = s[i],
         NEW n \in Nat, NEW due, Run(len, c, n, due)
  PROVE  \/ Screen(len, Append(s, f)) = Screen(len, s)
         \/ Screen(len, Append(s, f)) = [Screen(len, s) EXCEPT !.to = @ + 1]
<1>. DEFINE a == Append(s, f)
            L == Len(s) + 1
            o == First(len, s)
            z == Latest(len, s)
<1>1. /\ At(len, a) = At(len, s) \cup {L} /\ a[L] = f /\ L \in Nat /\ a \in Seq(Frame)
      /\ \A i \in At(len, s) : a[i] = s[i] /\ i \in Nat /\ i < L
  BY AtAppend, AppendIs
<1>2. /\ o \in At(len, s) /\ z \in At(len, s)
      /\ \A j \in At(len, s) : o <= j /\ z >= j
  BY FirstAndLatest
<1>3. /\ DOMAIN c = 1..Len(c) /\ Len(c) \in Nat /\ DOMAIN s = 1..Len(s) /\ Len(s) \in Nat
  BY LenProperties
<1>4. /\ L \in At(len, c) /\ c[L] = f
      /\ \A i \in At(len, s) : i \in At(len, c) /\ c[i] = s[i]
      /\ \A i \in At(len, c) : i \in Nat /\ (i < L => i \in At(len, s))
  BY <1>3 DEF At
<1>. HIDE DEF a, L, o, z
<1>5. First(len, a) = o
  <2>1. o \in At(len, a) /\ \A j \in At(len, a) : o <= j
    BY <1>1, <1>2
  <2>2. At(len, a) # {}
    BY <1>1
  <2>. QED BY <1>1, <2>1, <2>2, FirstAndLatest
<1>6. Latest(len, a) = L
  <2>1. L \in At(len, a) /\ \A j \in At(len, a) : L >= j
    BY <1>1
  <2>2. At(len, a) # {}
    BY <1>1
  <2>. QED BY <1>1, <2>1, <2>2, FirstAndLatest
<1>. DEFINE m == s[z].n
            v == [from |-> Rk(len, s[o].n), to |-> Rk(len, m)]
<1>7. Screen(len, s) = v /\ Screen(len, a) = [from |-> Rk(len, s[o].n), to |-> Rk(len, f.n)]
  <2>1. At(len, a) # {}
    BY <1>1
  <2>. QED BY <1>1, <1>2, <1>5, <1>6, <2>1 DEF Screen, o, z
<1>8. /\ \A i \in At(len, c) : c[i].n \in 1..n
      /\ \A i, j \in At(len, c) : i < j => c[i].n <= c[j].n
      /\ \A i, j \in At(len, c) : \A k \in Said(len, c[j].n) :
            k > c[i].n => \E l \in At(len, c) : c[l].n = k
  BY DEF Run, InOrderUpTo, Gapless
<1>9. m \in 1..n /\ f.n \in 1..n /\ m <= f.n /\ c[z].n = m
  BY <1>1, <1>2, <1>4, <1>8
<1>10. ASSUME NEW k \in 1..f.n, len[k] > 0, k > m
       PROVE  k = f.n
  <2>1. SUFFICES ASSUME k < f.n
                 PROVE  FALSE
    BY <1>9
  <2>2. k \in Said(len, c[L].n)
    BY <1>4, <1>9, <1>10, <2>1 DEF Said
  <2>3. PICK l \in At(len, c) : c[l].n = k
    BY <1>2, <1>4, <1>8, <1>9, <1>10, <2>2
  <2>4. CASE l < L
    <3>1. l \in At(len, s) /\ l <= z /\ l \in Nat /\ z \in Nat
      BY <1>1, <1>2, <1>4, <2>4
    <3>2. c[l].n <= m
      BY <1>2, <1>4, <1>8, <1>9, <3>1
    <3>. QED BY <1>9, <1>10, <2>3, <3>2
  <2>5. CASE ~(l < L)
    <3>1. l = L \/ L < l
      BY <1>1, <1>4, <2>5
    <3>2. f.n <= c[l].n
      BY <1>4, <1>8, <1>9, <3>1
    <3>. QED BY <1>9, <2>1, <2>3, <3>2
  <2>. QED BY <2>4, <2>5
<1>11. CASE m = f.n
  BY <1>7, <1>11 DEF a
<1>12. CASE m # f.n
  <2>1. len[f.n] > 0
    BY DEF Vis
  <2>. DEFINE q == f.n
  <2>. HIDE DEF m, q
  <2>2. q \in Nat /\ m \in Nat /\ m < q /\ \A k \in 1..q : len[k] > 0 => k <= m \/ k = q
    BY <1>9, <1>10, <1>12 DEF q
  <2>3. Rk(len, q) = Rk(len, m) + 1
    BY <2>1, <2>2, RankNext DEF q
  <2>. QED BY <1>7, <2>3 DEF a, q
<1>. QED BY <1>11, <1>12

\* Who is told of the end has seen all there is.
LEMMA AllShown ==
  ASSUME NEW len, NEW s \in Seq(Frame), NEW n \in Nat, NEW f \in Frame, ~Vis(len, f),
         \A i \in At(len, s) : s[i].n \in 1..n,
         \A i, j \in At(len, s) : i < j => s[i].n <= s[j].n,
         UpTo(len, Append(s, f), n, {})
  PROVE  Screen(len, s).to = Rk(len, n)
<1>1. /\ At(len, Append(s, f)) = At(len, s)
      /\ \A i \in At(len, s) : Append(s, f)[i] = s[i] /\ i \in Nat
  BY AtAppend
<1>2. \A k \in 1..n : len[k] > 0 => \E i \in At(len, s) : s[i].n >= k
  <2>. DEFINE a == Append(s, f)
  <2>1. \A k \in Said(len, n + 1) \ {} : \E i \in At(len, a) : a[i].n >= k
    BY DEF UpTo
  <2>2. At(len, a) = At(len, s) /\ \A i \in At(len, s) : a[i] = s[i]
    BY <1>1
  <2>. HIDE DEF a
  <2>3. \A k \in 1..n : len[k] > 0 => k \in Said(len, n + 1)
    BY DEF Said
  <2>. QED BY <2>1, <2>2, <2>3
<1>3. CASE At(len, s) = {}
  <2>1. Visible(len, n) = {}
    BY <1>2, <1>3 DEF Visible
  <2>. QED BY <1>3, <2>1, FS_EmptySet DEF Screen, Rk
<1>4. CASE At(len, s) # {}
  <2>. DEFINE z == Latest(len, s)
              m == s[z].n
  <2>1. z \in At(len, s) /\ \A j \in At(len, s) : z >= j
    BY <1>4, FirstAndLatest
  <2>2. Screen(len, s).to = Rk(len, m)
    BY <1>4 DEF Screen
  <2>. HIDE DEF z
  <2>3. m \in 1..n /\ \A j \in At(len, s) : s[j].n <= m
    BY <1>1, <2>1
  <2>. HIDE DEF m
  <2>4. \A k \in 1..n : len[k] > 0 => k <= m
    BY <1>2, <2>3
  <2>5. Rk(len, n) = Rk(len, m)
    BY <2>3, <2>4, RankStays
  <2>. QED BY <2>2, <2>5
<1>. QED BY <1>3, <1>4

-----------------------------------------------------------------------------
(* A write that ends shows the guest the next frame of what is coming. *)

Ahead(s, f, c) == /\ Len(s) + 1 \in DOMAIN c /\ c[Len(s) + 1] = f
                  /\ \A i \in 1..Len(s) : c[i] = s[i]

LEMMA HeadAhead ==
  ASSUME NEW s \in Seq(Frame), NEW d \in Seq(Frame), d # <<>>
  PROVE  Head(d) \in Frame /\ Ahead(s, Head(d), s \o d)
<1>. DEFINE F == Frame
<1>1. d \in Seq(F) /\ d # <<>>
  OBVIOUS
<1>. HIDE DEF F
<1>2. /\ Head(d) = d[1] /\ Head(d) \in F /\ 1 \in 1..Len(d)
  BY <1>1, HeadTailProperties, LenProperties
<1>. DEFINE c == s \o d
<1>3. /\ Len(s) \in Nat /\ Len(d) \in Nat /\ DOMAIN c = 1..(Len(s) + Len(d))
      /\ \A i \in 1..Len(s) : c[i] = s[i]
      /\ \A i \in 1..Len(d) : c[Len(s) + i] = d[i]
  BY ConcatIs
<1>. HIDE DEF c
<1>. QED BY <1>2, <1>3 DEF Ahead, c, F

LEMMA AheadOn ==
  ASSUME NEW s \in Seq(Frame), NEW f, NEW c \in Seq(Frame), NEW d \in Seq(Frame), Ahead(s, f, c)
  PROVE  Ahead(s, f, c \o d)
<1>. DEFINE e == c \o d
<1>1. /\ Len(c) \in Nat /\ Len(d) \in Nat /\ DOMAIN e = 1..(Len(c) + Len(d))
      /\ DOMAIN c = 1..Len(c) /\ \A i \in 1..Len(c) : e[i] = c[i]
  BY ConcatIs
<1>2. Len(s) \in Nat
  BY LenProperties
<1>. HIDE DEF e
<1>3. Len(s) + 1 \in 1..Len(c) /\ c[Len(s) + 1] = f /\ \A i \in 1..Len(s) : c[i] = s[i]
  BY <1>1 DEF Ahead
<1>. QED BY <1>1, <1>2, <1>3 DEF Ahead, e

LEMMA ShowsNext ==
  ASSUME TypeOK, IInv, VI, NEW g \in Guests, ReplaySent(g) \/ WriterSent(g)
  PROVE  \/ seen' = seen
         \/ \E f \in Frame : /\ seen' = [seen EXCEPT ![g] = Append(seen[g], f)]
                             /\ Ahead(seen[g], f, Coming(g))
<1>. DEFINE s == seen[g]
            h == held[g]
            b == backlog[g]
            q == queue[g]
<1>1. /\ s \in Seq(Frame) /\ h \in Seq(Frame) /\ b \in Seq(Frame) /\ q \in Seq(Frame)
      /\ s \o h \o b \in Seq(Frame) /\ Coming(g) = s \o h \o b \o q
  BY ComingType DEF Coming
<1>2. s \o h \in Seq(Frame)
  BY <1>1, ConcatIs
<1>3. CASE ReplaySent(g)
  <2>1. h = <<>> /\ b # <<>> /\ seen' = [seen EXCEPT ![g] = Append(s, Head(b))]
    BY <1>3 DEF ReplaySent, IInv, OfGuest, Pumping
  <2>2. s \o h = s
    BY <1>1, <2>1, ConcatEmptySeq
  <2>3. Head(b) \in Frame /\ Ahead(s, Head(b), s \o h \o b)
    BY <1>1, <2>1, <2>2, HeadAhead
  <2>4. Ahead(s, Head(b), s \o h \o b \o q)
    BY <1>1, <2>3, AheadOn
  <2>. QED BY <1>1, <2>1, <2>3, <2>4
<1>4. CASE WriterSent(g)
  <2>1. seen' = [seen EXCEPT ![g] = s \o h]
    BY <1>4 DEF WriterSent
  <2>2. CASE h = <<>>
    <3>1. s \o h = s
      BY <1>1, <2>2, ConcatEmptySeq
    <3>. QED BY <2>1, <3>1 DEF TypeOK
  <2>3. CASE h # <<>>
    <3>1. PICK f \in Frame : h = <<f>>
      BY <2>3 DEF IInv, Domains
    <3>2. Head(h) = f
      BY <3>1
    <3>3. Ahead(s, f, s \o h)
      BY <1>1, <2>3, <3>2, HeadAhead
    <3>4. Ahead(s, f, s \o h \o b)
      BY <1>1, <1>2, <3>3, AheadOn
    <3>5. Ahead(s, f, s \o h \o b \o q)
      BY <1>1, <3>4, AheadOn
    <3>6. s \o h = Append(s, f)
      <4>. HIDE DEF s
      <4>. QED BY <1>1, <3>1
    <3>. QED BY <1>1, <2>1, <3>5, <3>6
  <2>. QED BY <2>2, <2>3
<1>. QED BY <1>3, <1>4

-----------------------------------------------------------------------------
(* The refinement, step by step. *)

Told(g) == \E i \in DOMAIN seen[g] : seen[g][i] = Close

LEMMA RankIs == ASSUME NEW n PROVE Rank(n) = Rk(length, n)
BY DEF Rank, Rk, Visible

LEMMA ShownStays == ASSUME UNCHANGED <<seen, length>>, NEW g PROVE Shown(g)' = Shown(g)
<1>1. Showing(seen[g])' = Showing(seen[g])
  BY DEF Showing, Shows
<1>2. \A n : Rank(n)' = Rank(n)
  BY DEF Rank
<1>. QED BY <1>1, <1>2 DEF Shown

LEMMA NothingSpoken ==
  ASSUME UNCHANGED <<seen, length, sent>>, HostSpeaks' = HostSpeaks
  PROVE  UNCHANGED Terminal!vars
<1>1. Rank(sent)' = Rank(sent)
  BY DEF Rank
<1>2. \A g : Shown(g)' = Shown(g)
  BY ShownStays
<1>. QED BY <1>1, <1>2 DEF Terminal!vars

LEMMA SaysOrStutters ==
  ASSUME TypeOK, HostData
  PROVE  Terminal!Say \/ UNCHANGED Terminal!vars
<1>1. /\ hostPc = "recv" /\ hostPc' = "cast" /\ casting' = Data(sent + 1) /\ sent' = sent + 1
      /\ UNCHANGED <<seen, length>> /\ frames < MaxFrames
  BY DEF HostData
<1>2. HostSpeaks /\ HostSpeaks'
  BY <1>1 DEF HostSpeaks, Data, Close
<1>3. sent \in Nat /\ length[sent + 1] \in Nat
  <2>1. sent + 1 \in 1..MaxFrames
    BY <1>1, BridgeAssumption DEF TypeOK
  <2>2. length[sent + 1] \in Lengths /\ sent \in Nat
    BY <2>1, BridgeAssumption DEF TypeOK
  <2>. QED BY <2>2, BridgeAssumption
<1>4. \A g : Shown(g)' = Shown(g)
  BY <1>1, ShownStays
<1>5. Rank(sent)' = Rk(length, sent + 1) /\ Rank(sent) = Rk(length, sent)
  <2>1. Rank(sent)' = Rank(sent + 1)
    BY <1>1 DEF Rank
  <2>. QED BY <2>1, RankIs
<1>6. CASE length[sent + 1] > 0
  <2>1. Rk(length, sent + 1) = Rk(length, sent) + 1
    BY <1>3, <1>6, RankNext
  <2>2. Rank(sent)' = Rank(sent) + 1
    BY <1>5, <2>1
  <2>. QED BY <1>1, <1>2, <1>4, <2>2 DEF Terminal!Say
<1>7. CASE ~(length[sent + 1] > 0)
  <2>1. Rk(length, sent + 1) = Rk(length, sent)
    BY <1>3, <1>7, RankStays
  <2>2. Rank(sent)' = Rank(sent)
    BY <1>5, <2>1
  <2>. QED BY <1>1, <1>2, <1>4, <2>2 DEF Terminal!vars
<1>. QED BY <1>6, <1>7

LEMMA Ends ==
  ASSUME HostClose \/ HostLost
  PROVE  Terminal!End
<1>1. /\ UNCHANGED <<seen, length, sent>> /\ hostPc = "recv"
      /\ hostPc' = "closing" \/ (hostPc' = "cast" /\ casting' = Close)
  BY DEF HostClose, HostLost
<1>2. HostSpeaks = TRUE /\ HostSpeaks' = FALSE
  BY <1>1 DEF HostSpeaks
<1>3. Rank(sent)' = Rank(sent)
  BY <1>1 DEF Rank
<1>4. \A g : Shown(g)' = Shown(g)
  BY <1>1, ShownStays
<1>. QED BY <1>1, <1>2, <1>3, <1>4 DEF Terminal!End

LEMMA ShowsStep ==
  ASSUME TypeOK, IInv, VI, NEW g \in Guests, ReplaySent(g) \/ WriterSent(g)
  PROVE  \/ Terminal!StartWatching(g) \/ Terminal!Show(g) \/ Terminal!Tell(g)
         \/ UNCHANGED Terminal!vars
<1>1. UNCHANGED <<length, sent, hostPc, casting>>
  BY DEF ReplaySent, WriterSent, hostVars
<1>2. HostSpeaks' = HostSpeaks /\ Rank(sent)' = Rank(sent)
  BY <1>1 DEF HostSpeaks, Rank
<1>3. CASE seen' = seen
  BY <1>1, <1>2, <1>3, NothingSpoken
<1>4. ASSUME NEW f \in Frame, seen' = [seen EXCEPT ![g] = Append(seen[g], f)],
             Ahead(seen[g], f, Coming(g))
      PROVE  \/ Terminal!StartWatching(g) \/ Terminal!Show(g) \/ Terminal!Tell(g)
             \/ UNCHANGED Terminal!vars
  <2>. DEFINE s == seen[g]
              a == Append(s, f)
              c == Coming(g)
              v == Screen(length, s)
              w == Screen(length, a)
  <2>1. /\ s \in Seq(Frame) /\ c \in Seq(Frame) /\ sent \in Nat
        /\ Run(length, c, sent, Due)
        /\ Len(s) + 1 \in DOMAIN c /\ c[Len(s) + 1] = f /\ \A i \in 1..Len(s) : c[i] = s[i]
    <3>1. s \in Seq(Frame) /\ c \in Seq(Frame)
      BY ComingType
    <3>2. sent \in Nat
      BY BridgeAssumption DEF TypeOK
    <3>3. Run(length, c, sent, Due)
      BY DEF VI, OfView, View
    <3>4. Len(s) + 1 \in DOMAIN c /\ c[Len(s) + 1] = f /\ \A i \in 1..Len(s) : c[i] = s[i]
      BY <1>4 DEF Ahead
    <3>. QED BY <3>1, <3>2, <3>3, <3>4
  <2>2. /\ [d \in Guests |-> Shown(d)][g] = v
        /\ [d \in Guests |-> Shown(d)]' = [[d \in Guests |-> Shown(d)] EXCEPT ![g] = w]
    <3>1. \A d : Shown(d) = Screen(length, seen[d])
      BY ShownIs
    <3>2. ASSUME NEW d
          PROVE  Shown(d)' = Screen(length, seen'[d])
      <4>1. (Shown(d) = Screen(length, seen[d]))'
        <5>1. Showing(seen[d])' = At(length, seen[d])'
          BY DEF Showing, Shows, At, Vis
        <5>2. \A n : Rank(n)' = Rk(length, n)'
          BY DEF Rank, Rk, Visible
        <5>. QED BY <5>1, <5>2 DEF Shown, Screen, First, Latest
      <4>. QED BY <1>1, <4>1 DEF Screen, First, Latest, At, Rk, Visible, Vis
    <3>3. seen'[g] = a /\ \A d \in Guests \ {g} : seen'[d] = seen[d]
      BY <1>4 DEF TypeOK
    <3>. HIDE DEF a
    <3>. QED BY <3>1, <3>2, <3>3
  <2>3. /\ DOMAIN s = 1..Len(s) /\ DOMAIN a = 1..(Len(s) + 1) /\ Len(s) \in Nat
        /\ a[Len(s) + 1] = f /\ \A i \in 1..Len(s) : a[i] = s[i]
    BY <2>1, AppendIs
  <2>4. /\ \A i \in At(length, s) : s[i].n \in 1..sent
        /\ \A i, j \in At(length, s) : i < j => s[i].n <= s[j].n
        /\ Vis(length, f) => f.n \in 1..sent
    <3>1. \A i \in At(length, s) : i \in At(length, c) /\ c[i] = s[i]
      BY <2>1, <2>3 DEF At
    <3>2. Vis(length, f) => Len(s) + 1 \in At(length, c)
      BY <2>1 DEF At
    <3>. QED BY <2>1, <3>1, <3>2 DEF Run, InOrderUpTo
  <2>5. ~Told(g)
    <3>1. DOMAIN c = 1..Len(c) /\ Len(c) \in Nat
      BY <2>1, LenProperties
    <3>2. \A i \in DOMAIN c : c[i] = Close => i = Len(c)
      BY DEF VI, OfView, Final
    <3>. HIDE DEF s, c
    <3>3. ASSUME NEW i \in DOMAIN s, s[i] = Close
          PROVE  FALSE
      BY <2>1, <2>3, <3>1, <3>2, <3>3
    <3>. QED BY <3>3 DEF Told, s
  <2>6. /\ Told(g)' <=> f = Close
        /\ \A d \in Guests \ {g} : Told(d)' <=> Told(d)
    <3>1. seen'[g] = a /\ \A d \in Guests \ {g} : seen'[d] = seen[d]
      BY <1>4 DEF TypeOK
    <3>. HIDE DEF a
    <3>. QED BY <2>3, <2>5, <3>1 DEF Told
  <2>. DEFINE view == [d \in Guests |-> Shown(d)]
              told == [d \in Guests |-> \E i \in DOMAIN seen[d] : seen[d][i] = Close]
  <2>7. /\ view' = [view EXCEPT ![g] = w] /\ view[g] = v /\ view = [view EXCEPT ![g] = v]
        /\ ~told[g] /\ told' = [told EXCEPT ![g] = (f = Close)]
        /\ told = [told EXCEPT ![g] = FALSE]
        /\ Rank(sent) = Rk(length, sent)
    <3>1. \A d \in Guests : told[d] = Told(d) /\ told'[d] = Told(d)'
      BY DEF Told
    <3>2. view[g] = v /\ view' = [view EXCEPT ![g] = w]
      BY <2>2
    <3>3. Rank(sent) = Rk(length, sent)
      BY RankIs
    <3>. HIDE DEF v, w
    <3>4. ~told[g] /\ told'[g] = (f = Close) /\ \A d \in Guests \ {g} : told'[d] = told[d]
      BY <2>5, <2>6, <3>1
    <3>5. view = [view EXCEPT ![g] = v]
      BY <3>2
    <3>6. told' = [told EXCEPT ![g] = (f = Close)] /\ told = [told EXCEPT ![g] = FALSE]
      <4>1. /\ told = [d \in Guests |-> told[d]] /\ told' = [d \in Guests |-> told'[d]]
            /\ \A d \in Guests : told[d] \in BOOLEAN
        OBVIOUS
      <4>. HIDE DEF told
      <4>. QED BY <3>4, <4>1, Zenon
    <3>. QED BY <3>2, <3>3, <3>4, <3>5, <3>6
  <2>8. CASE f = Close
    <3>1. ~Vis(length, f)
      BY <2>8 DEF Vis, Close
    <3>2. w = v
      BY <2>1, <3>1, QuietShown
    <3>3. Len(s) + 1 = Len(c) /\ UpTo(length, c, sent, {}) /\ Closing
      BY <2>1, <2>8 DEF VI, OfView, Final
    <3>4. c = a
      <4>1. a \in Seq(Frame) /\ Len(a) = Len(s) + 1
        BY <2>1, AppendIs
      <4>2. \A i \in 1..Len(c) : c[i] = a[i]
        <5>. HIDE DEF s, a, c
        <5>. QED BY <2>1, <2>3, <3>3
      <4>. HIDE DEF s, a, c
      <4>. QED BY <2>1, <3>3, <4>1, <4>2, SeqEqual
    <3>5. v.to = Rk(length, sent)
      <4>1. UpTo(length, Append(s, f), sent, {})
        BY <3>3, <3>4
      <4>. HIDE DEF s, c
      <4>. QED BY <2>1, <2>4, <3>1, <4>1, AllShown
    <3>6. ~HostSpeaks
      BY <3>3 DEF Closing, HostSpeaks
    <3>. HIDE DEF v, w
    <3>7. Terminal!Tell(g)
      BY <1>2, <2>7, <2>8, <3>2, <3>5, <3>6 DEF Terminal!Tell
    <3>. QED BY <3>7
  <2>9. CASE f # Close /\ w = v
    <3>. HIDE DEF v, w
    <3>. QED BY <1>2, <2>7, <2>9 DEF Terminal!vars
  <2>10. CASE f # Close /\ Vis(length, f) /\ At(length, s) = {}
    <3>. DEFINE r == Rk(length, f.n)
    <3>1. v = [from |-> 0, to |-> 0] /\ w = [from |-> r, to |-> r]
      <4>1. v = [from |-> 0, to |-> 0]
        BY <2>10 DEF Screen
      <4>. QED BY <2>1, <2>10, <4>1, FirstShown
    <3>2. r \in 1..Rk(length, sent)
      <4>. DEFINE n == f.n
      <4>1. n \in 1..sent /\ length[n] > 0
        BY <2>4, <2>10 DEF Vis
      <4>. HIDE DEF n
      <4>2. Rk(length, n) \in Nat /\ Rk(length, sent) \in Nat /\ Rk(length, n) <= Rk(length, sent)
        BY <2>1, <4>1, VisibleFinite, RankGrows
      <4>3. Rk(length, n) > 0
        BY <4>1, RankPositive
      <4>. QED BY <4>2, <4>3 DEF n
    <3>. HIDE DEF v, w, r
    <3>3. view[g].to = 0 /\ view' = [view EXCEPT ![g] = [from |-> r, to |-> r]]
      BY <2>7, <3>1
    <3>4. told' = told /\ ~told[g] /\ r \in 1..Rank(sent)
      BY <2>7, <2>10, <3>2
    <3>5. Terminal!StartWatching(g)
      BY <1>2, <3>3, <3>4, Zenon DEF Terminal!StartWatching
    <3>. QED BY <3>5
  <2>11. CASE f # Close /\ Vis(length, f) /\ At(length, s) # {} /\ w # v
    <3>1. w = [v EXCEPT !.to = @ + 1]
      BY <2>1, <2>11, NextShown
    <3>2. v.to # 0 /\ v.to \in Nat /\ w.to \in 0..Rk(length, sent) /\ w.to = v.to + 1
      <4>1. /\ v.to \in 0..Rk(length, sent) /\ v.to > 0 /\ v = [from |-> v.from, to |-> v.to]
        BY <2>1, <2>4, <2>11, ScreenType
      <4>2. \A i \in At(length, a) : a[i].n \in 1..sent
        <5>1. At(length, a) = At(length, s) \cup {Len(s) + 1}
          BY <2>1, <2>11, AtAppend
        <5>2. \A i \in At(length, s) : a[i] = s[i]
          BY <2>1, AtAppend
        <5>. HIDE DEF a, s
        <5>. QED BY <2>3, <2>4, <2>11, <5>1, <5>2
      <4>3. a \in Seq(Frame)
        BY <2>1, AppendIs
      <4>4. w.to \in 0..Rk(length, sent)
        BY <2>1, <4>2, <4>3, ScreenType
      <4>5. w.to = v.to + 1
        <5>. HIDE DEF v, w
        <5>. QED BY <3>1, <4>1
      <4>6. Rk(length, sent) \in Nat
        BY <2>1, VisibleFinite
      <4>. HIDE DEF v, w
      <4>. QED BY <4>1, <4>4, <4>5, <4>6
    <3>3. Rk(length, sent) \in Nat
      BY <2>1, VisibleFinite
    <3>. HIDE DEF v, w
    <3>4. v.to < Rk(length, sent)
      BY <3>2, <3>3
    <3>5. view' = [view EXCEPT ![g].to = @ + 1]
      BY <2>7, <3>1
    <3>6. Terminal!Show(g)
      BY <1>2, <2>7, <2>11, <3>2, <3>4, <3>5 DEF Terminal!Show
    <3>. QED BY <3>6
  <2>12. ~Vis(length, f) => w = v
    BY <2>1, QuietShown
  <2>. QED BY <2>8, <2>9, <2>10, <2>11, <2>12
<1>. QED BY <1>3, <1>4, ShowsNext

\* The steps at which nothing is said, shown or ended.
LEMMA OthersSpeakNothing ==
  ASSUME VI,
         \/ \E w \in Windows \cup {NoSize} : HostAttach(w)
         \/ HostReturns \/ ShutdownBegins \/ CloseAll \/ BaseCancel \/ KillSlow \/ Broadcast
         \/ \E w \in Windows : HostResize(w)
         \/ \E g \in Guests :
               \/ GuestAttach(g) \/ WriterTakes(g) \/ ReaderTypes(g)
               \/ StopGuest(g) \/ ReplayFails(g) \/ StartPumps(g) \/ GuestReturns(g)
               \/ GuestCleanup(g) \/ Watchdog(g) \/ GuestLost(g) \/ WriterSendFails(g)
               \/ WriterStops(g) \/ WriterEnds(g) \/ ReaderSent(g) \/ ReaderSendFails(g)
               \/ ReaderPings(g) \/ PongEnds(g) \/ ReaderCloses(g) \/ ReaderEnds(g)
         \/ UNCHANGED vars
  PROVE  UNCHANGED Terminal!vars
<1>1. \A w : Resize(w) # Close
  BY DEF Resize, Close
<1>2. CASE \/ \E w \in Windows \cup {NoSize} : HostAttach(w)
           \/ HostReturns \/ ShutdownBegins \/ CloseAll \/ BaseCancel \/ KillSlow \/ Broadcast
           \/ \E w \in Windows : HostResize(w)
  <2>1. UNCHANGED <<seen, length, sent>>
    BY <1>2 DEF HostAttach, HostReturns, ShutdownBegins, CloseAll, BaseCancel, KillSlow,
                Broadcast, HostResize, hostVars
  <2>2. HostSpeaks' = HostSpeaks
    BY <1>1, <1>2 DEF HostAttach, HostReturns, ShutdownBegins, CloseAll, BaseCancel, KillSlow,
                      Broadcast, HostResize,
                      hostVars, HostSpeaks
  <2>. QED BY <2>1, <2>2, NothingSpoken
<1>3. CASE \E g \in Guests :
             \/ GuestAttach(g) \/ WriterTakes(g) \/ ReaderTypes(g)
             \/ StopGuest(g) \/ ReplayFails(g) \/ StartPumps(g) \/ GuestReturns(g)
             \/ GuestCleanup(g) \/ Watchdog(g) \/ GuestLost(g) \/ WriterSendFails(g)
             \/ WriterStops(g) \/ WriterEnds(g) \/ ReaderSent(g) \/ ReaderSendFails(g)
             \/ ReaderPings(g) \/ PongEnds(g) \/ ReaderCloses(g) \/ ReaderEnds(g)
  <2>1. UNCHANGED <<seen, length, sent, hostPc, casting>>
    BY <1>3, OtherSteps DEF GuestAttach, WriterTakes, ReaderTypes, hostVars, flowVars
  <2>. QED BY <2>1, NothingSpoken DEF HostSpeaks
<1>4. CASE UNCHANGED vars
  <2>1. UNCHANGED <<seen, length, sent, hostPc, casting>>
    BY <1>4 DEF vars, hostVars
  <2>. QED BY <2>1, NothingSpoken DEF HostSpeaks
<1>. QED BY <1>2, <1>3, <1>4

LEMMA StartsBlank ==
  ASSUME Init
  PROVE  Terminal!Init
<1>1. /\ sent = 0 /\ hostPc = "away" /\ \A g \in Guests : seen[g] = <<>>
  BY DEF Init
<1>2. Rank(sent) = 0
  <2>1. Visible(length, 0) = {}
    BY DEF Visible
  <2>2. Rank(0) = Cardinality({})
    BY <2>1, RankIs DEF Rk
  <2>. QED BY <1>1, <2>2, FS_EmptySet
<1>3. HostSpeaks = TRUE
  BY <1>1 DEF HostSpeaks
<1>4. ASSUME NEW g \in Guests
      PROVE  Shown(g) = [from |-> 0, to |-> 0] /\ (\E i \in DOMAIN seen[g] : seen[g][i] = Close) = FALSE
  <2>1. DOMAIN seen[g] = {}
    BY <1>1
  <2>2. Showing(seen[g]) = {}
    BY <2>1 DEF Showing
  <2>. QED BY <2>1, <2>2 DEF Shown
<1>. QED BY <1>2, <1>3, <1>4 DEF Terminal!Init

\* The fan-out implements the shared terminal: from where a guest starts watching it
\* sees every piece of the output, in order, and who is told of the end has seen it all.
THEOREM Refinement == Spec => ImplementsTerminal
<1>1. Init => Terminal!Init
  BY StartsBlank
<1>2. ASSUME TypeOK, IInv, VI, [Next]_vars
      PROVE  [Terminal!Next]_(Terminal!vars)
  BY <1>2, Steps, SaysOrStutters, Ends, ShowsStep, OthersSpeakNothing DEF Terminal!Next
<1>. QED BY <1>1, <1>2, TypeInvariance, Invariance, ViewInvariance,
            PTL DEF Spec, ImplementsTerminal, Terminal!Spec
=============================================================================
