---------------------------- MODULE FormatLemmas ----------------------------
(***************************************************************************)
(* What the formats share: what the operators of StrTab do to any table    *)
(* and any string, and what those that plan and write a buffer do to any   *)
(* position.                                                               *)
(***************************************************************************)
EXTENDS StrTab, Buffer, SequenceTheorems, WellFoundedInduction, TLAPS

\* data2 starts with data.
Extends(data2, data) ==
  /\ Len(data) <= Len(data2)
  /\ \A n \in 1 .. Len(data) : data2[n] = data[n]

\* What a reader finds in a table it still finds when the table has grown at
\* its end (strTab.intern appends).
LEMMA ReadsAsExtends ==
  ASSUME NEW d \in Seq(Char \cup {NUL}), NEW d2 \in Seq(Char \cup {NUL}), Extends(d2, d),
         NEW off \in Nat, NEW s \in Name, ReadsAs(d, off, s)
  PROVE  ReadsAs(d2, off, s)
<1>1. Len(s) \in Nat
  BY DEF Name
<1>2. /\ \A n \in 1 .. Len(s) : off + n \in 1 .. Len(d)
      /\ off + Len(s) + 1 \in 1 .. Len(d)
  BY <1>1 DEF ReadsAs
<1>3. QED
  BY <1>1, <1>2 DEF ReadsAs, Extends

\* A fresh table is consistent: "" reads at offset 0 (newStrTab).
LEMMA NewStrTabOK == StrTabOK(NewStrTab)
<1>1. NewStrTab.data = <<NUL>> /\ NewStrTab.offsets = [s \in {NoName} |-> 0]
  BY DEF NewStrTab
<1>2. Len(NoName) = 0 /\ NoName \in Name
  BY DEF NoName, Name
<1>3. ReadsAs(<<NUL>>, 0, NoName)
  BY <1>2 DEF ReadsAs
<1>4. QED
  BY <1>1, <1>2, <1>3 DEF StrTabOK, Consistent

\* intern appends, and what it returns is where the string is found, whether
\* or not the table has a sentinel.
LEMMA InternConsistent ==
  ASSUME NEW t, Consistent(t), NEW s \in Name
  PROVE  /\ Consistent(Intern(t, s))
         /\ Extends(Intern(t, s).data, t.data)
         /\ OffsetOf(t, s) \in Nat
         /\ ReadsAs(Intern(t, s).data, OffsetOf(t, s), s)
         /\ \A r \in DOMAIN t.offsets : OffsetOf(t, r) = t.offsets[r]
         /\ DOMAIN Intern(t, s).offsets = DOMAIN t.offsets \cup {s}
         /\ t.data # << >> => Intern(t, s).data # << >>
<1>1. CASE s \in DOMAIN t.offsets
  <2>1. Intern(t, s) = t
    BY <1>1 DEF Intern
  <2>2. QED
    BY <1>1, <2>1 DEF OffsetOf, Extends, Consistent, Intern
<1>2. CASE s \notin DOMAIN t.offsets
  <2> DEFINE u == Intern(t, s)
             d == Append(t.data \o s, NUL)
  <2>1. u.data = d /\ u.offsets = Put(t.offsets, s, Len(t.data))
    BY <1>2 DEF Intern
  <2>2. t.data \in Seq(Char \cup {NUL}) /\ s \in Seq(Char \cup {NUL})
    BY DEF Consistent, Name
  <2>3. d \in Seq(Char \cup {NUL}) /\ Len(d) = Len(t.data) + Len(s) + 1
    BY <2>2
  <2>4. /\ \A n \in 1 .. Len(t.data) : d[n] = t.data[n]
        /\ \A n \in 1 .. Len(s) : d[Len(t.data) + n] = s[n]
        /\ d[Len(t.data) + Len(s) + 1] = NUL
    BY <2>2
  <2>5. Extends(d, t.data)
    BY <2>2, <2>3, <2>4 DEF Extends
  <2>6. ReadsAs(d, Len(t.data), s) /\ Len(t.data) \in Nat
    BY <2>2, <2>3, <2>4 DEF ReadsAs
  <2>7. /\ DOMAIN u.offsets = DOMAIN t.offsets \cup {s}
        /\ u.offsets[s] = Len(t.data)
        /\ \A r \in DOMAIN t.offsets : u.offsets[r] = t.offsets[r]
    BY <1>2, <2>1 DEF Put
  <2>8. \A r \in DOMAIN t.offsets : ReadsAs(d, t.offsets[r], r)
    BY <2>2, <2>3, <2>5, ReadsAsExtends DEF Consistent
  <2>9. Consistent(u)
    BY <2>1, <2>3, <2>6, <2>7, <2>8 DEF Consistent
  <2>10. OffsetOf(t, s) = Len(t.data)
    BY <2>7 DEF OffsetOf
  <2>11. \A r \in DOMAIN t.offsets : OffsetOf(t, r) = t.offsets[r]
    BY DEF OffsetOf, Intern
  <2>12. u.data # << >>
    BY <2>1, <2>2, <2>3
  <2>13. QED
    BY <2>1, <2>5, <2>6, <2>7, <2>9, <2>10, <2>11, <2>12
<1>3. QED
  BY <1>1, <1>2

LEMMA InternLemma ==
  ASSUME NEW t, StrTabOK(t), NEW s \in Name
  PROVE  /\ StrTabOK(Intern(t, s))
         /\ Extends(Intern(t, s).data, t.data)
         /\ OffsetOf(t, s) \in Nat
         /\ ReadsAs(Intern(t, s).data, OffsetOf(t, s), s)
         /\ \A r \in DOMAIN t.offsets : OffsetOf(t, r) = t.offsets[r]
         /\ DOMAIN Intern(t, s).offsets = DOMAIN t.offsets \cup {s}
BY InternConsistent DEF StrTabOK

-----------------------------------------------------------------------------
(***************************************************************************)
(* Counting: every set of naturals with an element has a least one, so     *)
(* what holds at 0 and passes on from n to n + 1 holds everywhere, and a   *)
(* running sum that is defined from the sum before it exists.              *)
(***************************************************************************)
LEMMA LeastExists ==
  ASSUME NEW S, S \subseteq Nat, S # {}
  PROVE  Min(S) \in S /\ \A y \in S : Min(S) <= y
<1>1. \E x \in S : \A y \in S : ~(<<y, x>> \in OpToRel(<, Nat))
  BY WFMin, NatLessThanWellFounded, Zenon
<1>2. PICK x \in S : \A y \in S : ~(<<y, x>> \in OpToRel(<, Nat))
  BY <1>1
<1>3. \A y \in S : x <= y
  <2> SUFFICES ASSUME NEW y \in S PROVE x <= y
    OBVIOUS
  <2>1. x \in Nat /\ y \in Nat
    BY <1>2
  <2>2. ~(y < x)
    BY <1>2, <2>1, Zenon DEF OpToRel
  <2>3. QED
    BY <2>1, <2>2
<1>4. QED
  BY <1>3, Zenon DEF Min

LEMMA Counting ==
  ASSUME NEW S, 0 \in S, \A n \in Nat : n \in S => n + 1 \in S
  PROVE  Nat \subseteq S
<1> DEFINE out == {n \in Nat : n \notin S}
           m   == Min(out)
<1> SUFFICES ASSUME out # {} PROVE FALSE
  OBVIOUS
<1>1. m \in out /\ \A n \in out : m <= n
  BY LeastExists
<1> HIDE DEF m
<1>2. m \in Nat /\ m # 0
  BY <1>1
<1>3. m - 1 \in Nat /\ m - 1 + 1 = m
  BY <1>2
<1>4. m - 1 \notin out
  BY <1>1, <1>3
<1>5. QED
  BY <1>1, <1>3, <1>4

\* f is the running sum of e, as far as n: what stands before place c.
SumAt(f, e, c) == IF c <= 1 THEN 0 ELSE f[c - 1] + e[c - 1]
SumsTo(f, e, n) == \A c \in 0 .. n : f[c] = SumAt(f, e, c)

LEMMA SumsAgree ==
  ASSUME NEW e, NEW n \in Nat, NEW f, SumsTo(f, e, n), NEW g, SumsTo(g, e, n)
  PROVE  \A c \in 0 .. n : f[c] = g[c]
<1> DEFINE S == {c \in Nat : c <= n => f[c] = g[c]}
<1>1. 0 \in S
  BY DEF SumsTo, SumAt
<1>2. ASSUME NEW c \in Nat, c \in S PROVE c + 1 \in S
  <2> SUFFICES ASSUME c + 1 <= n PROVE f[c + 1] = g[c + 1]
    OBVIOUS
  <2>1. c + 1 \in 0 .. n /\ c + 1 - 1 = c /\ f[c] = g[c]
    BY <1>2
  <2>2. f[c + 1] = SumAt(f, e, c + 1) /\ g[c + 1] = SumAt(g, e, c + 1)
    BY <2>1 DEF SumsTo
  <2>3. QED
    BY <2>1, <2>2 DEF SumAt
<1>3. Nat \subseteq S
  <2> HIDE DEF S
  <2>1. QED
    BY <1>1, <1>2, Counting
<1>4. QED
  BY <1>3

LEMMA SumsExist ==
  ASSUME NEW e
  PROVE  \E f : f = [c \in Nat |-> SumAt(f, e, c)]
<1> DEFINE S == {n \in Nat : \E f : SumsTo(f, e, n)}
<1>1. 0 \in S
  <2>1. SumsTo([c \in 0 .. 0 |-> 0], e, 0)
    BY DEF SumsTo, SumAt
  <2>2. QED
    BY <2>1
<1>2. ASSUME NEW n \in Nat, n \in S PROVE n + 1 \in S
  <2>1. PICK f : SumsTo(f, e, n)
    BY <1>2
  <2> DEFINE g == [c \in 0 .. n + 1 |-> IF c <= n THEN f[c] ELSE SumAt(f, e, c)]
  <2>2. ASSUME NEW c \in 0 .. n + 1 PROVE g[c] = SumAt(g, e, c)
    <3>1. g[c] = SumAt(f, e, c)
      BY <2>1 DEF SumsTo
    <3>2. c > 1 => c - 1 \in 0 .. n + 1 /\ c - 1 <= n /\ g[c - 1] = f[c - 1]
      OBVIOUS
    <3> HIDE DEF g
    <3>3. QED
      BY <3>1, <3>2 DEF SumAt
  <2>3. SumsTo(g, e, n + 1)
    BY <2>2 DEF SumsTo
  <2>4. QED
    BY <2>3
<1>3. Nat \subseteq S
  <2> HIDE DEF S
  <2>1. QED
    BY <1>1, <1>2, Counting
<1> DEFINE F == [n \in Nat |-> CHOOSE f : SumsTo(f, e, n)]
           h == [n \in Nat |-> F[n][n]]
<1>4. \A n \in Nat : SumsTo(F[n], e, n)
  <2> SUFFICES ASSUME NEW n \in Nat PROVE SumsTo(F[n], e, n)
    OBVIOUS
  <2>1. \E f : SumsTo(f, e, n)
    BY <1>3
  <2>2. QED
    BY <2>1
<1>5. ASSUME NEW c \in Nat PROVE h[c] = SumAt(h, e, c)
  <2> HIDE DEF F
  <2>1. F[c][c] = SumAt(F[c], e, c)
    BY <1>4 DEF SumsTo
  <2>2. CASE c <= 1
    BY <2>1, <2>2 DEF SumAt
  <2>3. CASE c > 1
    <3>1. c - 1 \in Nat /\ c - 1 \in 0 .. c - 1
      BY <2>3
    <3>2. SumsTo(F[c - 1], e, c - 1) /\ SumsTo(F[c], e, c - 1)
      BY <1>4, <3>1 DEF SumsTo
    <3>3. F[c - 1][c - 1] = F[c][c - 1]
      BY <3>1, <3>2, SumsAgree
    <3>4. QED
      BY <2>1, <2>3, <3>1, <3>3 DEF SumAt
  <2>4. QED
    BY <2>2, <2>3
<1>6. h = [c \in Nat |-> SumAt(h, e, c)]
  <2> HIDE DEF F
  <2>1. \A c \in Nat : F[c][c] = SumAt(h, e, c)
    BY <1>5
  <2>2. h = [c \in Nat |-> F[c][c]]
    OBVIOUS
  <2> HIDE DEF h
  <2>3. QED
    BY <2>1, <2>2
<1>7. QED
  BY <1>6

-----------------------------------------------------------------------------
\* Division by a positive number leaves a remainder smaller than it.
LEMMA Division ==
  ASSUME NEW n \in Nat, NEW a \in Nat, a > 0
  PROVE  /\ n \div a \in Nat /\ (n % a) \in 0 .. a - 1
         /\ n = a * (n \div a) + (n % a)
OBVIOUS

\* A multiple of a leaves no remainder.
LEMMA MultipleLeavesNothing ==
  ASSUME NEW q \in Nat, NEW a \in Nat, a > 0
  PROVE  (q * a) % a = 0
<1>1. /\ (q * a) % a \in 0 .. a - 1
      /\ q * a = a * ((q * a) \div a) + ((q * a) % a)
      /\ (q * a) \div a \in Nat
  BY Division
<1>2. QED
  BY <1>1, Z3

\* A multiple of a multiple of b is one of b.
LEMMA DividesOn ==
  ASSUME NEW v \in Nat, NEW a \in Nat, NEW b \in Nat, a > 0, b > 0, v % a = 0, a % b = 0
  PROVE  v % b = 0
<1>1. PICK p, q : p \in Nat /\ q \in Nat /\ v = a * p /\ a = b * q
  <2>1. v \div a \in Nat /\ v = a * (v \div a)
    BY Division
  <2>2. a \div b \in Nat /\ a = b * (a \div b)
    BY Division
  <2>3. QED
    BY <2>1, <2>2
<1>2. v = (q * p) * b /\ q * p \in Nat
  <2>1. v = (b * q) * p
    BY <1>1
  <2>2. (b * q) * p = (q * p) * b
    BY <1>1, Z3
  <2>3. q * p \in Nat
    BY <1>1, Z3
  <2>4. QED
    BY <2>1, <2>2, <2>3
<1>3. PICK m : m = q * p
  OBVIOUS
<1>4. (m * b) % b = 0
  BY <1>2, <1>3, MultipleLeavesNothing
<1>5. QED
  BY <1>2, <1>3, <1>4

\* The powers of two that a uint32, and so an alignment, can be.
PowerOf(v, m) == m \in 0 .. 31 /\ v = 2 ^ m

LEMMA PowerTable ==
  ASSUME NEW p, \A m \in 0 .. 31 : PowerOf(p[m], m)
  PROVE  /\ p[0] = 1 /\ p[1] = 2 /\ p[2] = 4 /\ p[3] = 8
         /\ p[4] = 16 /\ p[5] = 32 /\ p[6] = 64 /\ p[7] = 128
         /\ p[8] = 256 /\ p[9] = 512 /\ p[10] = 1024 /\ p[11] = 2048
         /\ p[12] = 4096 /\ p[13] = 8192 /\ p[14] = 16384 /\ p[15] = 32768
         /\ p[16] = 65536 /\ p[17] = 131072 /\ p[18] = 262144 /\ p[19] = 524288
         /\ p[20] = 1048576 /\ p[21] = 2097152 /\ p[22] = 4194304 /\ p[23] = 8388608
         /\ p[24] = 16777216 /\ p[25] = 33554432 /\ p[26] = 67108864 /\ p[27] = 134217728
         /\ p[28] = 268435456 /\ p[29] = 536870912 /\ p[30] = 1073741824 /\ p[31] = 2147483648
BY DEF PowerOf

LEMMA Exponents ==
  ASSUME NEW m \in 0 .. 31
  PROVE  m \in {0, 1, 2, 3, 4, 5, 6, 7, 8, 9, 10, 11, 12, 13, 14, 15,
             16, 17, 18, 19, 20, 21, 22, 23, 24, 25, 26, 27, 28, 29, 30, 31}
OBVIOUS

\* Those beyond 8192 are multiples of it.
LEMMA Powers ==
  ASSUME NEW v, NEW m, PowerOf(v, m)
  PROVE  v \in Nat /\ 1 <= v /\ (v <= 8192 \/ v % 8192 = 0)
<1>1. PICK p : \A e \in 0 .. 31 : PowerOf(p[e], e)
  <2>1. \A e \in 0 .. 31 : PowerOf([n \in 0 .. 31 |-> 2 ^ n][e], e)
    BY DEF PowerOf
  <2>2. QED
    BY <2>1
<1>2. m \in {0, 1, 2, 3, 4, 5, 6, 7, 8, 9, 10, 11, 12, 13, 14, 15,
             16, 17, 18, 19, 20, 21, 22, 23, 24, 25, 26, 27, 28, 29, 30, 31}
  BY Exponents DEF PowerOf
<1>3. v = p[m]
  BY <1>1, <1>2 DEF PowerOf
<1>4. QED
  BY <1>1, <1>2, <1>3, PowerTable

LEMMA PowersDouble ==
  ASSUME NEW u, NEW n, PowerOf(u, n - 1), NEW v, PowerOf(v, n)
  PROVE  v = 2 * u /\ u \in Nat
<1>1. PICK p : \A e \in 0 .. 31 : PowerOf(p[e], e)
  <2>1. \A e \in 0 .. 31 : PowerOf([x \in 0 .. 31 |-> 2 ^ x][e], e)
    BY DEF PowerOf
  <2>2. QED
    BY <2>1
<1>2. n \in 1 .. 31
  BY DEF PowerOf
<1>3. n \in {0, 1, 2, 3, 4, 5, 6, 7, 8, 9, 10, 11, 12, 13, 14, 15,
             16, 17, 18, 19, 20, 21, 22, 23, 24, 25, 26, 27, 28, 29, 30, 31}
  BY <1>2, Exponents
<1>4. u = p[n - 1] /\ v = p[n]
  BY <1>1, <1>2 DEF PowerOf
<1>5. u \in Nat
  BY Powers
<1>6. p[n] = 2 * p[n - 1]
  BY <1>1, <1>2, <1>3, PowerTable
<1>7. QED
  BY <1>4, <1>5, <1>6

LEMMA PowersGrow ==
  ASSUME NEW u, NEW n, PowerOf(u, n), NEW v, NEW m, PowerOf(v, m), n < m
  PROVE  u < v
<1>1. PICK p : \A e \in 0 .. 31 : PowerOf(p[e], e)
  <2>1. \A e \in 0 .. 31 : PowerOf([x \in 0 .. 31 |-> 2 ^ x][e], e)
    BY DEF PowerOf
  <2>2. QED
    BY <2>1
<1>2. n \in {0, 1, 2, 3, 4, 5, 6, 7, 8, 9, 10, 11, 12, 13, 14, 15,
             16, 17, 18, 19, 20, 21, 22, 23, 24, 25, 26, 27, 28, 29, 30, 31}
  BY Exponents DEF PowerOf
<1>3. m \in {0, 1, 2, 3, 4, 5, 6, 7, 8, 9, 10, 11, 12, 13, 14, 15,
             16, 17, 18, 19, 20, 21, 22, 23, 24, 25, 26, 27, 28, 29, 30, 31}
  BY Exponents DEF PowerOf
<1>4. u = p[n] /\ v = p[m]
  BY <1>1, <1>2, <1>3 DEF PowerOf
<1>5. p[n] < p[m]
  BY <1>1, <1>2, <1>3, PowerTable
<1>6. QED
  BY <1>4, <1>5

\* alignUp never goes back and reaches a multiple.
LEMMA AlignUpLemma ==
  ASSUME NEW v \in Nat, NEW a \in Nat
  PROVE  /\ AlignUp(v, a) \in Nat
         /\ v <= AlignUp(v, a)
         /\ a > 1 => AlignUp(v, a) % a = 0
<1>1. CASE a <= 1
  BY <1>1 DEF AlignUp
<1>2. CASE a > 1
  <2> DEFINE n == v + a - 1
  <2>1. n \in Nat
    BY <1>2
  <2> HIDE DEF n
  <2>2. /\ n \div a \in Nat /\ (n % a) \in 0 .. a - 1
        /\ n = a * (n \div a) + (n % a)
    BY <1>2, <2>1, Division
  <2>3. (n \div a) * a = a * (n \div a)
    BY <2>1, <2>2
  <2>4. (n \div a) * a >= n - a + 1
    BY <2>1, <2>2, <2>3
  <2>5. ((n \div a) * a) % a = 0
    <3> DEFINE q == n \div a
    <3>1. q \in Nat
      BY <2>2
    <3> HIDE DEF q
    <3>2. (q * a) % a = 0
      BY <1>2, <3>1, MultipleLeavesNothing
    <3>3. QED
      BY <3>2 DEF q
  <2>6. AlignUp(v, a) = (n \div a) * a
    BY <1>2 DEF AlignUp, n
  <2>7. QED
    BY <1>2, <2>2, <2>4, <2>5, <2>6 DEF n
<1>3. QED
  BY <1>1, <1>2

\* padTo only ever grows the buffer, and reaches the target.
LEMMA PadToLemma ==
  ASSUME NEW len \in Nat, NEW target \in Nat
  PROVE  /\ PadTo(len, target) \in Nat
         /\ len <= PadTo(len, target)
         /\ target <= PadTo(len, target)
BY DEF PadTo

\* A chunk lies behind what was written before it, and the buffer ends with it.
LEMMA EmitLength ==
  ASSUME NEW o, o.len \in Nat, NEW target \in Nat, NEW size \in Nat, NEW data
  PROVE  /\ Emit(o, target, size, data).len = PadTo(o.len, target) + size
         /\ Emit(o, target, size, data).len \in Nat
         /\ o.len <= Emit(o, target, size, data).len
<1> DEFINE at == PadTo(o.len, target)
<1>1. at \in Nat /\ o.len <= at
  BY PadToLemma
<1>2. Emit(o, target, size, data).len = at + size
  BY DEF Emit
<1> HIDE DEF at
<1>3. QED
  BY <1>1, <1>2 DEF at

\* What was appended to can be told from the result: all of it but the last.
LEMMA AppendBack ==
  ASSUME NEW S, NEW seq \in Seq(S), NEW e \in S
  PROVE  LET long == Append(seq, e)
         IN  long # << >> /\ seq = SubSeq(long, 1, Len(long) - 1)
<1> DEFINE long == Append(seq, e)
           back == SubSeq(long, 1, Len(seq))
<1>1. /\ Len(seq) \in Nat /\ long \in Seq(S) /\ Len(long) = Len(seq) + 1
      /\ \A n \in 1 .. Len(seq) : long[n] = seq[n]
  OBVIOUS
<1>2. \A n \in 1 .. Len(seq) : long[n] \in S
  BY <1>1
<1>3. /\ back \in Seq(S) /\ Len(back) = Len(seq)
      /\ \A n \in 1 .. Len(seq) : back[n] = seq[n]
  <2> HIDE DEF long
  <2>1. /\ back \in Seq(S)
        /\ Len(back) = IF 1 <= Len(seq) THEN Len(seq) - 1 + 1 ELSE 0
        /\ \A n \in 1 .. Len(seq) - 1 + 1 : back[n] = long[1 + n - 1]
    BY <1>1, <1>2, SubSeqProperties
  <2>2. QED
    BY <1>1, <2>1
<1>4. back = seq
  BY <1>3, SeqEqual
<1>5. QED
  BY <1>1, <1>4

-----------------------------------------------------------------------------
(***************************************************************************)
(* The chunks of a buffer follow one another, so that a reader who looks   *)
(* for bytes by their place and size finds the ones that were written.     *)
(***************************************************************************)
ChunkOf(D) == [at : Nat, size : Nat, data : D]

Chained(chunks, from, to) ==
  /\ \E D : chunks \in Seq(ChunkOf(D))
  /\ \A n \in DOMAIN chunks :
       /\ from <= chunks[n].at /\ chunks[n].at + chunks[n].size <= to
       /\ \A m \in 1 .. n - 1 : chunks[m].at + chunks[m].size <= chunks[n].at

HasChunk(chunks, at, size, bytes) ==
  \E n \in DOMAIN chunks :
    chunks[n].at = at /\ chunks[n].size = size /\ chunks[n].data = bytes

LEMMA GreatestIs ==
  ASSUME NEW S, S \subseteq Int, NEW x \in S, \A y \in S : y <= x
  PROVE  Max(S) = x
<1>1. \A y \in S : x >= y
  OBVIOUS
<1>2. Max(S) \in S /\ \A y \in S : Max(S) >= y
  BY <1>1, Zenon DEF Max
<1> DEFINE g == Max(S)
<1>3. g \in Int /\ g >= x /\ g <= x
  BY <1>2
<1> HIDE DEF g
<1>4. g = x
  BY <1>3
<1>5. QED
  BY <1>4 DEF g

LEMMA LeastIs ==
  ASSUME NEW S, S \subseteq Int, NEW x \in S, \A y \in S : x <= y
  PROVE  Min(S) = x
<1>1. Min(S) \in S /\ \A y \in S : Min(S) <= y
  BY Zenon DEF Min
<1> DEFINE g == Min(S)
<1>2. g \in Int /\ g >= x /\ g <= x
  BY <1>1
<1> HIDE DEF g
<1>3. g = x
  BY <1>2
<1>4. QED
  BY <1>3 DEF g

LEMMA NoChunks == ASSUME NEW from, NEW to PROVE Chained(<< >>, from, to)
BY DEF Chained

LEMMA ChunkFields ==
  ASSUME NEW chunks, NEW from, NEW to, Chained(chunks, from, to)
  PROVE  /\ Len(chunks) \in Nat /\ DOMAIN chunks = 1 .. Len(chunks)
         /\ \A n \in DOMAIN chunks : chunks[n].at \in Nat /\ chunks[n].size \in Nat
<1>1. PICK D : chunks \in Seq(ChunkOf(D))
  BY DEF Chained
<1>2. \A n \in DOMAIN chunks : chunks[n] \in ChunkOf(D)
  BY <1>1
<1>3. QED
  BY <1>1, <1>2 DEF ChunkOf

\* A chunk behind the others prolongs the chain and hides none of them.
LEMMA ChainGrows ==
  ASSUME NEW chunks, NEW from \in Nat, NEW to \in Nat, Chained(chunks, from, to), from <= to,
         NEW e, e \in ChunkOf({e.data}), to <= e.at, NEW longer, longer = Append(chunks, e)
  PROVE  /\ Chained(longer, from, e.at + e.size)
         /\ HasChunk(longer, e.at, e.size, e.data)
         /\ \A a, s, b : HasChunk(chunks, a, s, b) => HasChunk(longer, a, s, b)
<1>1. PICK D : chunks \in Seq(ChunkOf(D))
  BY DEF Chained
<1>2. /\ ChunkOf(D) \subseteq ChunkOf(D \cup {e.data}) /\ e \in ChunkOf(D \cup {e.data})
      /\ ChunkOf({e.data}) \subseteq ChunkOf(D \cup {e.data})
  BY DEF ChunkOf
<1>3. e.at \in Nat /\ e.size \in Nat
  BY DEF ChunkOf
<1>4. /\ Len(chunks) \in Nat /\ DOMAIN chunks = 1 .. Len(chunks)
      /\ \A n \in DOMAIN chunks : chunks[n].at \in Nat /\ chunks[n].size \in Nat
  BY ChunkFields
<1>5. longer \in Seq(ChunkOf(D \cup {e.data}))
  <2>1. chunks \in Seq(ChunkOf(D \cup {e.data}))
    <3> DEFINE T == ChunkOf(D \cup {e.data})
    <3>1. \A n \in 1 .. Len(chunks) : chunks[n] \in ChunkOf(D)
      BY <1>1
    <3>2. \A n \in 1 .. Len(chunks) : chunks[n] \in T
      BY <1>2, <3>1
    <3> HIDE DEF T
    <3>3. chunks \in Seq(T)
      BY <1>1, <1>4, <3>2
    <3>4. QED
      BY <3>3 DEF T
  <2>2. QED
    BY <1>2, <2>1
<1>6. /\ DOMAIN longer = 1 .. Len(chunks) + 1
      /\ \A n \in DOMAIN chunks : longer[n] = chunks[n]
      /\ longer[Len(chunks) + 1] = e
  BY <1>1
<1>7. ASSUME NEW n \in DOMAIN longer
      PROVE  /\ from <= longer[n].at /\ longer[n].at + longer[n].size <= e.at + e.size
             /\ \A m \in 1 .. n - 1 : longer[m].at + longer[m].size <= longer[n].at
  <2>1. CASE n \in DOMAIN chunks
    <3>1. /\ from <= chunks[n].at /\ chunks[n].at + chunks[n].size <= to
          /\ \A m \in 1 .. n - 1 : chunks[m].at + chunks[m].size <= chunks[n].at
      BY <2>1 DEF Chained
    <3>2. longer[n] = chunks[n] /\ \A m \in 1 .. n - 1 : longer[m] = chunks[m]
      BY <1>4, <1>6, <2>1
    <3>3. chunks[n].at + chunks[n].size <= e.at + e.size
      BY <1>3, <1>4, <2>1, <3>1
    <3>4. QED
      BY <3>1, <3>2, <3>3
  <2>2. CASE n = Len(chunks) + 1
    <3>1. longer[n].at = e.at /\ longer[n].size = e.size
      BY <1>3, <1>6, <2>2
    <3>2. ASSUME NEW m \in 1 .. n - 1 PROVE longer[m].at + longer[m].size <= e.at
      <4>1. m \in DOMAIN chunks
        BY <1>4, <2>2
      <4>2. chunks[m].at + chunks[m].size <= to
        BY <4>1 DEF Chained
      <4>3. QED
        BY <1>3, <1>4, <1>6, <4>1, <4>2
    <3>3. from <= e.at
      BY <1>3
    <3>4. QED
      BY <1>3, <3>1, <3>2, <3>3
  <2>3. QED
    BY <1>4, <1>6, <2>1, <2>2
<1>8. Chained(longer, from, e.at + e.size)
  BY <1>5, <1>7 DEF Chained
<1>9. HasChunk(longer, e.at, e.size, e.data)
  BY <1>3, <1>4, <1>6 DEF HasChunk
<1>10. \A a, s, b : HasChunk(chunks, a, s, b) => HasChunk(longer, a, s, b)
  BY <1>4, <1>6 DEF HasChunk
<1>11. QED
  BY <1>8, <1>9, <1>10

\* Emit writes behind what is there, at its target unless that is passed.
LEMMA EmitChains ==
  ASSUME NEW o, NEW from \in Nat, o.len \in Nat, from <= o.len,
         Chained(o.chunks, from, o.len),
         NEW target \in Nat, NEW size \in Nat, NEW bytes
  PROVE  /\ Emit(o, target, size, bytes).len = PadTo(o.len, target) + size
         /\ from <= Emit(o, target, size, bytes).len
         /\ Chained(Emit(o, target, size, bytes).chunks, from, PadTo(o.len, target) + size)
         /\ HasChunk(Emit(o, target, size, bytes).chunks, PadTo(o.len, target), size, bytes)
         /\ \A a, s, b : HasChunk(o.chunks, a, s, b)
                         => HasChunk(Emit(o, target, size, bytes).chunks, a, s, b)
<1> DEFINE at   == PadTo(o.len, target)
           next == Emit(o, target, size, bytes)
<1>1. at \in Nat /\ o.len <= at
  BY PadToLemma
<1>2. /\ next.len = at + size
      /\ next.chunks = Append(o.chunks, [at |-> at, size |-> size, data |-> bytes])
  BY DEF Emit
<1> HIDE DEF at, next
<1>3. from <= next.len
  BY <1>1, <1>2
<1> DEFINE e == [at |-> at, size |-> size, data |-> bytes]
<1>4. e.at = at /\ e.size = size /\ e.data = bytes /\ e \in ChunkOf({e.data})
  BY <1>1 DEF ChunkOf
<1>5. next.chunks = Append(o.chunks, e) /\ o.len <= e.at
  BY <1>1, <1>2
<1> HIDE DEF e
<1>6. /\ Chained(next.chunks, from, e.at + e.size)
      /\ HasChunk(next.chunks, e.at, e.size, e.data)
      /\ \A a, s, b : HasChunk(o.chunks, a, s, b) => HasChunk(next.chunks, a, s, b)
  BY <1>1, <1>4, <1>5, ChainGrows
<1> HIDE DEF e
<1>7. /\ next.len = at + size /\ from <= next.len
      /\ Chained(next.chunks, from, at + size)
      /\ HasChunk(next.chunks, at, size, bytes)
      /\ \A a, s, b : HasChunk(o.chunks, a, s, b) => HasChunk(next.chunks, a, s, b)
  BY <1>2, <1>3, <1>4, <1>6
<1>8. QED
  BY <1>7 DEF at, next

LEMMA ChainDisjoint ==
  ASSUME NEW chunks, NEW from, NEW to, Chained(chunks, from, to)
  PROVE  Disjoint(chunks, from)
<1>1. Len(chunks) \in Nat /\ DOMAIN chunks = 1 .. Len(chunks)
  BY ChunkFields
<1>2. ASSUME NEW n \in DOMAIN chunks, NEW m \in DOMAIN chunks, m # n
      PROVE  \/ chunks[n].at + chunks[n].size <= chunks[m].at
             \/ chunks[m].at + chunks[m].size <= chunks[n].at
  <2>1. m \in 1 .. n - 1 \/ n \in 1 .. m - 1
    BY <1>1, <1>2
  <2>2. QED
    BY <2>1 DEF Chained
<1>3. QED
  BY <1>2 DEF Disjoint, Chained

\* The step every layout argument rests on: a chunk whose target is not behind
\* the buffer's end lands on the target, with its size and data; the chunks in
\* front of it stay what and where they were, none shares a byte with another,
\* and the buffer ends where the new one does (padTo and the writes behind it).
LEMMA EmitLands ==
  ASSUME NEW o, NEW from \in Nat, o.len \in Nat, from <= o.len,
         Chained(o.chunks, from, o.len),
         NEW target \in Nat, o.len <= target, NEW size \in Nat, NEW bytes
  PROVE  LET next == Emit(o, target, size, bytes)
         IN  /\ next.len = target + size
             /\ Len(next.chunks) = Len(o.chunks) + 1
             /\ next.chunks[Len(o.chunks) + 1] = [at |-> target, size |-> size, data |-> bytes]
             /\ \A n \in DOMAIN o.chunks : next.chunks[n] = o.chunks[n]
             /\ Disjoint(next.chunks, from)
<1> DEFINE next == Emit(o, target, size, bytes)
<1>1. PadTo(o.len, target) = target
  BY DEF PadTo
<1>2. PICK e : e = [at |-> target, size |-> size, data |-> bytes]
  OBVIOUS
<1>3. next.len = target + size /\ next.chunks = Append(o.chunks, e)
  BY <1>1, <1>2 DEF Emit
<1>4. Chained(next.chunks, from, target + size)
  BY <1>1, EmitChains
<1>5. Disjoint(next.chunks, from)
  <2>1. target + size \in Nat
    OBVIOUS
  <2> HIDE DEF next
  <2>2. QED
    BY <1>4, ChainDisjoint
<1> HIDE DEF next
<1>6. PICK S : o.chunks \in Seq(S)
  BY DEF Chained
<1>7. /\ Len(next.chunks) = Len(o.chunks) + 1
      /\ next.chunks[Len(o.chunks) + 1] = e
      /\ \A n \in DOMAIN o.chunks : next.chunks[n] = o.chunks[n]
  BY <1>3, <1>6
<1>8. QED
  BY <1>2, <1>3, <1>5, <1>7 DEF next

\* A chunk with a byte is the last that starts where it does.
LEMMA LastThere ==
  ASSUME NEW chunks, NEW from, NEW to, Chained(chunks, from, to),
         NEW n \in DOMAIN chunks, chunks[n].size > 0,
         NEW m \in DOMAIN chunks, chunks[m].at = chunks[n].at
  PROVE  m <= n
<1>1. /\ Len(chunks) \in Nat /\ DOMAIN chunks = 1 .. Len(chunks)
      /\ chunks[n].at \in Nat /\ chunks[n].size \in Nat
  BY ChunkFields
<1>2. SUFFICES ASSUME n < m PROVE FALSE
  BY <1>1
<1>3. chunks[n].at + chunks[n].size <= chunks[m].at
  BY <1>1, <1>2 DEF Chained
<1>4. QED
  BY <1>1, <1>3

LEMMA DataFound ==
  ASSUME NEW chunks, NEW from, NEW to, Chained(chunks, from, to),
         NEW at, NEW size \in Nat \ {0}, NEW bytes, HasChunk(chunks, at, size, bytes)
  PROVE  /\ StartsAt(chunks, at)
         /\ DataAt(chunks, at) = bytes
         /\ \A S : S = {n \in DOMAIN chunks : chunks[n].at = at /\ chunks[n].size = size}
                   => S # {} /\ chunks[Max(S)].data = bytes
<1>1. PICK n \in DOMAIN chunks :
        chunks[n].at = at /\ chunks[n].size = size /\ chunks[n].data = bytes
  BY DEF HasChunk
<1>2. DOMAIN chunks \subseteq Int
  BY ChunkFields
<1>3. \A m \in DOMAIN chunks : chunks[m].at = at => m <= n
  BY <1>1, LastThere
<1>4. StartsAt(chunks, at)
  BY <1>1 DEF StartsAt
<1>5. DataAt(chunks, at) = bytes
  <2> DEFINE T == {m \in DOMAIN chunks : chunks[m].at = at}
  <2>1. n \in T /\ T \subseteq Int /\ \A y \in T : y <= n
    BY <1>1, <1>2, <1>3
  <2>2. Max(T) = n
    <3> HIDE DEF T
    <3>1. QED
      BY <2>1, GreatestIs
  <2>3. QED
    BY <1>1, <1>4, <2>2 DEF DataAt
<1>6. ASSUME NEW S, S = {m \in DOMAIN chunks : chunks[m].at = at /\ chunks[m].size = size}
      PROVE  S # {} /\ chunks[Max(S)].data = bytes
  <2>1. n \in S /\ S \subseteq Int /\ \A y \in S : y <= n
    BY <1>1, <1>2, <1>3, <1>6
  <2>2. Max(S) = n
    BY <2>1, GreatestIs
  <2>3. QED
    BY <1>1, <2>1, <2>2
<1>7. QED
  BY <1>4, <1>5, <1>6


-----------------------------------------------------------------------------
\* Patch touches no byte outside its fields.
LEMMA PatchKeeps ==
  ASSUME NEW code, NEW fields, NEW b \in DOMAIN code,
         \A m \in DOMAIN fields : ~Covers(fields[m], b)
  PROVE  Patch(code, fields)[b] = code[b]
BY DEF Patch

\* A field that fits in the code and shares no byte with a later one holds
\* its value in the end.
LEMMA PatchHolds ==
  ASSUME NEW code, DOMAIN code = 1 .. Len(code), Len(code) \in Nat,
         NEW fields, DOMAIN fields \subseteq Int, NEW m \in DOMAIN fields,
         fields[m].offset \in Nat, fields[m].width \in Nat,
         Inside(fields[m], Len(code)),
         \A n \in DOMAIN fields : \A b \in DOMAIN code :
           Covers(fields[m], b) /\ Covers(fields[n], b) => n <= m
  PROVE  HoldsNumber(Patch(code, fields), fields[m].offset, fields[m].width, fields[m].value)
<1> DEFINE from == fields[m].offset
<1>1. ASSUME NEW b \in 1 .. fields[m].width
      PROVE  /\ from + b \in DOMAIN Patch(code, fields)
             /\ Patch(code, fields)[from + b] = <<"number", fields[m].value, b>>
  <2>1. PICK at : at = from + b
    OBVIOUS
  <2>2. at \in DOMAIN code /\ Covers(fields[m], at) /\ at - from = b
    BY <2>1 DEF Inside, Covers
  <2>3. PICK over : over = {n \in DOMAIN fields :
                              Inside(fields[n], Len(code)) /\ Covers(fields[n], at)}
    OBVIOUS
  <2>4. m \in over /\ over \subseteq Int /\ \A n \in over : n <= m
    BY <2>2, <2>3
  <2>5. Max(over) = m
    BY <2>4, GreatestIs
  <2>6. /\ DOMAIN Patch(code, fields) = DOMAIN code
        /\ Patch(code, fields)[at] =
             IF over = {} THEN code[at]
             ELSE <<"number", fields[Max(over)].value, at - fields[Max(over)].offset>>
    BY <2>2, <2>3 DEF Patch
  <2>7. QED
    BY <2>1, <2>2, <2>4, <2>5, <2>6
<1>2. QED
  BY <1>1 DEF HoldsNumber

=============================================================================
