----------------------------- MODULE FlatProofs -----------------------------
(***************************************************************************)
(* The flat image, for every set of sections, every number of calls and    *)
(* every writer: relocations are found before the first byte, and what a   *)
(* writer that fails has taken is the beginning of the image.  The image   *)
(* is a sum over the sections; FormatLemmas!SumsExist says there is one,   *)
(* and Streaming which byte of it the next piece begins with.              *)
(***************************************************************************)
EXTENDS FlatFile, FormatLemmas

Bytes == Nat \X Nat

\* What the control location says: before the sections have been looked at
\* nothing is written, and afterwards there is no relocation in them.
Passed ==
  /\ pc = "check" => stream = << >> /\ total = 0
  /\ pc = "write" => ~HasRelocs

IInv == TypeOK /\ Passed /\ RefusedUntouched

-----------------------------------------------------------------------------
LEMMA ZerosType == ASSUME NEW n \in Nat PROVE Zeros(n) \in Seq(Bytes)
<1>1. Zero \in Bytes
  BY DEF Zero, Bytes
<1>2. QED
  BY <1>1 DEF Zeros

LEMMA PaddedLonger ==
  ASSUME NEW n \in Nat, NEW a \in Nat
  PROVE  Padded(n, a) - n \in Nat
<1>1. CASE a <= 1 \/ n % a = 0
  BY <1>1 DEF Padded
<1>2. CASE a > 1 /\ n % a # 0
  <2>1. (n % a) \in 0 .. a - 1
    BY <1>2
  <2>2. Padded(n, a) = n + a - (n % a)
    BY <1>2 DEF Padded
  <2>3. QED
    BY <2>1, <2>2
<1>3. QED
  BY <1>1, <1>2

LEMMA ChunkType ==
  ASSUME TypeOK, NEW c \in 1 .. Len(sections)
  PROVE  Chunk(c) \in Seq(Bytes) /\ Len(Chunk(c)) \in Nat
<1> DEFINE s == sections[c]
<1>1. s \in Section
  BY FlatAssumption DEF TypeOK
<1>2. s.align \in Nat /\ s.size \in Nat /\ s.vsize \in Nat
  BY <1>1 DEF Section
<1>3. Raw(c) \in Seq(Bytes)
  <2>1. CASE s.kind = "BSS"
    BY <1>2, <2>1, ZerosType DEF Raw
  <2>2. CASE s.kind # "BSS"
    <3>1. Raw(c) = [b \in 1 .. s.size |-> <<c, b>>]
      BY <2>2 DEF Raw
    <3>2. \A b \in 1 .. s.size : <<c, b>> \in Bytes
      BY <1>2 DEF Bytes
    <3>3. QED
      BY <1>2, <3>1, <3>2
  <2>3. QED
    BY <2>1, <2>2
<1>4. Len(Raw(c)) \in Nat
  BY <1>3
<1>5. Padded(Len(Raw(c)), s.align) - Len(Raw(c)) \in Nat
  BY <1>2, <1>4, PaddedLonger
<1>6. Zeros(Padded(Len(Raw(c)), s.align) - Len(Raw(c))) \in Seq(Bytes)
  BY <1>5, ZerosType
<1>7. Chunk(c) \in Seq(Bytes)
  BY <1>3, <1>6 DEF Chunk
<1>8. QED
  BY <1>7

-----------------------------------------------------------------------------
LEMMA InitIInv == Init => IInv
<1> SUFFICES ASSUME Init PROVE IInv
  OBVIOUS
<1>1. TypeOK
  BY FlatAssumption DEF Init, TypeOK
<1>2. Passed /\ RefusedUntouched
  BY DEF Init, Passed, RefusedUntouched, NoCall
<1>3. QED
  BY <1>1, <1>2 DEF IInv

LEMMA CallerStep == ASSUME IInv, Caller PROVE IInv'
<1>1. /\ pc = "idle" /\ base \in Bases \cup {0} /\ sections \in Seq(Sections)
      /\ i \in 1 .. Len(sections) + 1 /\ total \in Nat /\ stream \in Seq(Nat \X Nat)
      /\ calls \in 0 .. MaxCalls
  BY DEF IInv, TypeOK, Caller, AddSection, SetBaseAddress, WriteTo
<1>2. RefusedUntouched'
  BY DEF Caller, AddSection, SetBaseAddress, WriteTo, IInv, RefusedUntouched
<1>3. CASE \E s \in Sections : AddSection(s)
  <2>1. PICK s \in Sections : AddSection(s)
    BY <1>3
  <2>2. /\ sections' \in Seq(Sections) /\ Len(sections') = Len(sections) + 1
        /\ Len(sections) \in Nat
    BY <1>1, <2>1 DEF AddSection
  <2>3. TypeOK' /\ Passed'
    BY <1>1, <2>1, <2>2 DEF AddSection, TypeOK, Passed
  <2>4. QED
    BY <1>2, <2>3 DEF IInv
<1>4. CASE \E addr \in Bases : SetBaseAddress(addr)
  <2>1. TypeOK' /\ Passed'
    BY <1>1, <1>4 DEF SetBaseAddress, TypeOK, Passed
  <2>2. QED
    BY <1>2, <2>1 DEF IInv
<1>5. CASE WriteTo
  <2>1. Len(sections) \in Nat
    BY <1>1
  <2>2. TypeOK' /\ Passed'
    BY <1>1, <1>5, <2>1, FlatAssumption DEF WriteTo, TypeOK, Passed
  <2>3. QED
    BY <1>2, <2>2 DEF IInv
<1>6. QED
  BY <1>3, <1>4, <1>5 DEF Caller

\* A step that stays inside a call: what it writes are bytes.
LEMMA InsideStep ==
  ASSUME IInv, Accept \/ SkipSection \/ WriteChunk PROVE IInv'
<1>1. /\ base \in Bases \cup {0} /\ sections \in Seq(Sections) /\ Len(sections) \in Nat
      /\ i \in 1 .. Len(sections) + 1 /\ total \in Nat /\ stream \in Seq(Bytes)
      /\ calls \in 0 .. MaxCalls
  BY DEF IInv, TypeOK, Bytes
<1>2. RefusedUntouched'
  BY DEF Accept, SkipSection, WriteChunk, IInv, RefusedUntouched
<1>3. /\ pc' = "write" /\ UNCHANGED <<base, sections, calls>> /\ ~HasRelocs
      /\ i' \in 1 .. Len(sections) + 1
  BY <1>1 DEF Accept, SkipSection, WriteChunk, IInv, Passed
<1>4. total' \in Nat /\ stream' \in Seq(Bytes)
  <2>1. CASE Accept \/ SkipSection
    BY <1>1, <2>1 DEF Accept, SkipSection
  <2>2. CASE WriteChunk
    <3>1. Chunk(i) \in Seq(Bytes) /\ Len(Chunk(i)) \in Nat
      BY <1>1, <2>2, ChunkType DEF WriteChunk, IInv
    <3>2. QED
      BY <1>1, <2>2, <3>1 DEF WriteChunk
  <2>3. QED
    BY <2>1, <2>2
<1>5. TypeOK'
  BY <1>1, <1>3, <1>4 DEF TypeOK, Bytes
<1>6. Passed'
  BY <1>3 DEF Passed, HasRelocs
<1>7. QED
  BY <1>2, <1>5, <1>6 DEF IInv

\* A step that returns: refused untouched, or written without relocations.
LEMMA ReturnStep ==
  ASSUME IInv, Refuse \/ WriteFails \/ WriteDone PROVE IInv'
<1>1. /\ base \in Bases \cup {0} /\ sections \in Seq(Sections) /\ Len(sections) \in Nat
      /\ i \in 1 .. Len(sections) + 1 /\ total \in Nat /\ stream \in Seq(Bytes)
      /\ calls \in 0 .. MaxCalls
  BY DEF IInv, TypeOK, Bytes
<1>2. /\ pc' = "idle" /\ i' = 1 /\ UNCHANGED <<base, sections, calls>>
      /\ last'.stream = stream' /\ last'.count = total'
      /\ last'.input.sections = sections
  BY DEF Refuse, WriteFails, WriteDone, Return
<1>3. total' \in Nat /\ stream' \in Seq(Bytes)
  <2>1. CASE Refuse \/ WriteDone
    BY <1>1, <2>1 DEF Refuse, WriteDone
  <2>2. CASE WriteFails
    <3>1. Chunk(i) \in Seq(Bytes) /\ Len(Chunk(i)) \in Nat
      BY <1>1, <2>2, ChunkType DEF WriteFails, IInv
    <3>2. PICK n \in 0 .. Len(Chunk(i)) - 1 :
            stream' = stream \o SubSeq(Chunk(i), 1, n) /\ total' = total + n
      BY <2>2 DEF WriteFails
    <3>3. SubSeq(Chunk(i), 1, n) \in Seq(Bytes)
      BY <3>1, <3>2
    <3>4. QED
      BY <1>1, <3>1, <3>2, <3>3
  <2>3. QED
    BY <2>1, <2>2
<1>4. TypeOK'
  BY <1>1, <1>2, <1>3 DEF TypeOK, Bytes
<1>5. Passed'
  BY <1>2 DEF Passed
<1>6. RefusedUntouched'
  <2>1. CASE Refuse
    <3>1. /\ last'.status = "refused" /\ HasRelocs
          /\ stream' = << >> /\ total' = 0
      BY <2>1 DEF Refuse, Return, IInv, Passed
    <3>2. QED
      BY <1>2, <3>1 DEF RefusedUntouched, HasRelocs
  <2>2. CASE WriteFails \/ WriteDone
    <3>1. last'.status # "refused" /\ ~HasRelocs
      BY <2>2 DEF WriteFails, WriteDone, Return, IInv, Passed
    <3>2. QED
      BY <1>2, <3>1 DEF RefusedUntouched, HasRelocs
  <2>3. QED
    BY <2>1, <2>2
<1>7. QED
  BY <1>4, <1>5, <1>6 DEF IInv

-----------------------------------------------------------------------------
\* The invariant and the two properties hold in every reachable state, for all
\* sections, base addresses and bounds.
THEOREM Inductive == Spec => []IInv
<1>1. IInv /\ [Next]_vars => IInv'
  <2> SUFFICES ASSUME IInv, [Next]_vars PROVE IInv'
    OBVIOUS
  <2>1. CASE Caller
    BY <2>1, CallerStep
  <2>2. CASE Accept \/ SkipSection \/ WriteChunk
    BY <2>2, InsideStep
  <2>3. CASE Refuse \/ WriteFails \/ WriteDone
    BY <2>3, ReturnStep
  <2>4. CASE UNCHANGED vars
    BY <2>4 DEF vars, IInv, TypeOK, Passed, HasRelocs, RefusedUntouched
  <2>5. QED
    BY <2>1, <2>2, <2>3, <2>4 DEF Next, Write
<1>2. QED
  BY InitIInv, <1>1, PTL DEF Spec

\* Every variable of the flat File keeps its type; what a writer has taken is
\* a sequence of bytes, whatever the alignments are.
THEOREM TypeCorrect == Spec => []TypeOK
<1>1. IInv => TypeOK
  BY DEF IInv
<1>2. QED
  BY Inductive, <1>1, PTL

\* A call is refused exactly when some section has a relocation, and then no
\* byte has reached the writer (the loop in front of the Writes of WriteTo).
THEOREM RefusedBeforeWriting == Spec => []RefusedUntouched
<1>1. IInv => RefusedUntouched
  BY DEF IInv
<1>2. QED
  BY Inductive, <1>1, PTL

-----------------------------------------------------------------------------
\* The safety part of ImplementsBuilder: the File starts as an object.Builder
\* does, every step is one of its steps or a stutter, and a call is refused
\* for the sections' relocations and for nothing else.
THEOREM RefinesBuilder == Spec => Abstract!Init /\ [][Abstract!Next]_(Abstract!vars)
<1>1. Init => Abstract!Init
  BY DEF Init, NoCall, Abstract!Init
<1>2. IInv /\ [Next]_vars => [Abstract!Next]_(Abstract!vars)
  <2> SUFFICES ASSUME IInv, [Next]_vars PROVE Abstract!Next \/ UNCHANGED Abstract!vars
    OBVIOUS
  <2> USE DEF Abstract!vars
  <2>1. CASE \E s \in Sections : AddSection(s)
    <3>1. PICK s \in Sections : AddSection(s)
      BY <2>1
    <3>2. sections' # << >> /\ sections = SubSeq(sections', 1, Len(sections') - 1)
      BY <3>1, AppendBack DEF AddSection, IInv, TypeOK
    <3>3. Abstract!AddSection
      BY <3>1, <3>2 DEF AddSection, Abstract!AddSection
    <3>4. QED
      BY <3>3 DEF Abstract!Next
  <2>2. CASE \E addr \in Bases : SetBaseAddress(addr)
    BY <2>2 DEF SetBaseAddress, Abstract!Configure, Abstract!Next
  <2>3. CASE WriteTo
    BY <2>3 DEF WriteTo, Abstract!Call, Abstract!Next
  <2>4. CASE Accept \/ SkipSection \/ WriteChunk
    BY <2>4 DEF Accept, SkipSection, WriteChunk
  <2>5. CASE Refuse \/ WriteFails \/ WriteDone
    <3>1. /\ pc # "idle" /\ pc' = "idle" /\ UNCHANGED <<base, sections>>
          /\ last'.input = [opts |-> base, sections |-> sections]
      BY <2>5 DEF Refuse, WriteFails, WriteDone, Return
    <3>2. last'.status = "refused" <=> HasRelocs
      BY <2>5 DEF Refuse, WriteFails, WriteDone, Return, IInv, Passed
    <3>3. Promise(last'.input, last')
      BY <3>1, <3>2 DEF Promise, HasRelocs
    <3>4. QED
      BY <3>1, <3>3 DEF Abstract!Return, Abstract!Next
  <2>6. CASE UNCHANGED vars
    BY <2>6 DEF vars
  <2>7. QED
    BY <2>1, <2>2, <2>3, <2>4, <2>5, <2>6 DEF Next, Caller, Write
<1>3. QED
  BY Inductive, <1>1, <1>2, PTL DEF Spec

-----------------------------------------------------------------------------
(***************************************************************************)
(* The image.  A chunk is as long as the extent of its section and holds   *)
(* the image's bytes there; where a section starts is the running sum of   *)
(* the extents in front of it.                                             *)
(***************************************************************************)
LEMMA OneMultiple ==
  ASSUME NEW a \in Nat, a > 0, NEW u \in Nat, NEW v \in Nat,
         u % a = 0, v % a = 0, u <= v, v < u + a
  PROVE  u = v
<1> DEFINE p == u \div a
           q == v \div a
<1>1. p \in Nat /\ q \in Nat /\ u = a * p /\ v = a * q
  BY Division
<1> HIDE DEF p, q
<1>2. q < p + 1
  <2> SUFFICES ASSUME q >= p + 1 PROVE FALSE
    BY <1>1
  <2>1. PICK d \in Nat : q = p + 1 + d
    <3>1. q - p - 1 \in Nat /\ q = p + 1 + (q - p - 1)
      BY <1>1
    <3>2. QED
      BY <3>1
  <2>2. a * q = a * p + a + a * d
    BY <1>1, <2>1, Z3
  <2>3. a * d \in Nat
    BY <2>1, Z3
  <2>4. QED
    BY <1>1, <2>2, <2>3
<1>3. p < q + 1
  <2> SUFFICES ASSUME p >= q + 1 PROVE FALSE
    BY <1>1
  <2>1. PICK d \in Nat : p = q + 1 + d
    <3>1. p - q - 1 \in Nat /\ p = q + 1 + (p - q - 1)
      BY <1>1
    <3>2. QED
      BY <3>1
  <2>2. a * p = a * q + a + a * d
    BY <1>1, <2>1, Z3
  <2>3. a * d \in Nat
    BY <2>1, Z3
  <2>4. QED
    BY <1>1, <2>2, <2>3
<1>4. p = q
  BY <1>1, <1>2, <1>3
<1>5. QED
  BY <1>1, <1>4

LEMMA PaddedReaches ==
  ASSUME NEW n \in Nat, NEW a \in Nat, a > 1
  PROVE  Padded(n, a) \in n .. n + a - 1 /\ Padded(n, a) % a = 0
<1> DEFINE q == n \div a
           r == n % a
<1>1. q \in Nat /\ r \in 0 .. a - 1 /\ n = a * q + r
  BY Division
<1>2. CASE r = 0
  BY <1>2 DEF Padded
<1>3. CASE r # 0
  <2>1. Padded(n, a) = n + a - r
    BY <1>3 DEF Padded
  <2> HIDE DEF q, r
  <2>2. n + a - r = (q + 1) * a
    BY <1>1, Z3
  <2>3. q + 1 \in Nat /\ a > 0
    BY <1>1
  <2>4. ((q + 1) * a) % a = 0
    BY <2>3, MultipleLeavesNothing
  <2>5. n + a - r \in n .. n + a - 1
    BY <1>1, <1>3
  <2>6. QED
    BY <2>1, <2>2, <2>4, <2>5
<1>4. QED
  BY <1>2, <1>3

LEMMA ExtentIs ==
  ASSUME NEW s \in Section
  PROVE  /\ Emitted(s) \in Nat /\ Extent(s) \in Nat /\ Emitted(s) <= Extent(s)
         /\ Extent(s) = Padded(Emitted(s), s.align)
<1> DEFINE n == Emitted(s)
           a == s.align
           P == {m \in n .. n + a - 1 : m % a = 0}
<1>1. n \in Nat /\ a \in Nat
  BY DEF Emitted, Section
<1> HIDE DEF n, a
<1>2. CASE a <= 1
  BY <1>1, <1>2 DEF Extent, Padded, n, a
<1>3. CASE a > 1
  <2> DEFINE m == CHOOSE m \in n .. n + a - 1 : m % a = 0
             p == Padded(n, a)
  <2>1. p \in n .. n + a - 1 /\ p % a = 0
    BY <1>1, <1>3, PaddedReaches
  <2> HIDE DEF p
  <2>2. m \in n .. n + a - 1 /\ m % a = 0
    BY <2>1
  <2>3. Extent(s) = m
    <3>1. ~(s.align <= 1)
      BY <1>1, <1>3 DEF a
    <3>2. QED
      BY <3>1, Zenon DEF Extent, n, a
  <2> HIDE DEF m
  <2>4. m \in Nat /\ p \in Nat /\ m < p + a /\ p < m + a /\ (m <= p \/ p <= m) /\ n <= m
    BY <1>1, <2>1, <2>2
  <2>5. m = p
    <3>1. a \in Nat /\ a > 0
      BY <1>1, <1>3
    <3>2. CASE m <= p
      BY <2>1, <2>2, <2>4, <3>1, <3>2, OneMultiple, Zenon
    <3>3. CASE p <= m
      BY <2>1, <2>2, <2>4, <3>1, <3>3, OneMultiple, Zenon
    <3>4. QED
      BY <2>4, <3>2, <3>3
  <2>6. QED
    BY <1>1, <2>3, <2>4, <2>5 DEF p, n, a
<1>4. QED
  BY <1>1, <1>2, <1>3

LEMMA StartUnfolds ==
  ASSUME NEW ss
  PROVE  \A c \in Nat :
           Start(ss)[c] = IF c <= 1 THEN 0 ELSE Start(ss)[c - 1] + Extent(ss[c - 1])
<1> DEFINE Rule(f) == [c \in Nat |-> IF c <= 1 THEN 0 ELSE f[c - 1] + Extent(ss[c - 1])]
           e == [c \in Nat |-> Extent(ss[c])]
<1>1. PICK f : f = [c \in Nat |-> SumAt(f, e, c)]
  BY SumsExist
<1>2. \A c \in Nat : SumAt(f, e, c) = IF c <= 1 THEN 0 ELSE f[c - 1] + Extent(ss[c - 1])
  <2> SUFFICES ASSUME NEW c \in Nat
               PROVE  SumAt(f, e, c) = IF c <= 1 THEN 0 ELSE f[c - 1] + Extent(ss[c - 1])
    OBVIOUS
  <2>1. c > 1 => c - 1 \in Nat
    OBVIOUS
  <2>2. c > 1 => e[c - 1] = Extent(ss[c - 1])
    BY <2>1
  <2> HIDE DEF e
  <2>3. QED
    BY <2>2 DEF SumAt
<1>3. f = Rule(f)
  <2> HIDE DEF e
  <2>1. QED
    BY <1>1, <1>2
<1>4. Start(ss) = CHOOSE g : g = Rule(g)
  BY DEF Start
<1>5. Start(ss) = Rule(Start(ss))
  <2> HIDE DEF Rule
  <2>1. QED
    BY <1>3, <1>4
<1>6. QED
  BY <1>5

LEMMA StartFacts ==
  ASSUME NEW ss \in Seq(Section)
  PROVE  /\ \A c \in 1 .. Len(ss) : Start(ss)[c + 1] = Start(ss)[c] + Extent(ss[c])
         /\ \A c \in 1 .. Len(ss) + 1 : Start(ss)[c] \in Nat
         /\ \A b \in 1 .. Len(ss) + 1 : \A c \in 1 .. b : Start(ss)[c] <= Start(ss)[b]
         /\ Start(ss)[1] = 0
<1> DEFINE f == Start(ss)
           S == {b \in Nat : b \in 1 .. Len(ss) + 1 =>
                               f[b] \in Nat /\ \A c \in 1 .. b : f[c] \in Nat /\ f[c] <= f[b]}
<1>1. Len(ss) \in Nat /\ \A c \in 1 .. Len(ss) : Extent(ss[c]) \in Nat
  <2>1. \A c \in 1 .. Len(ss) : ss[c] \in Section
    OBVIOUS
  <2>2. QED
    BY <2>1, ExtentIs
<1>2. f[1] = 0
  BY StartUnfolds
<1>3. ASSUME NEW c \in 1 .. Len(ss) PROVE f[c + 1] = f[c] + Extent(ss[c])
  <2>1. c + 1 \in Nat /\ ~(c + 1 <= 1) /\ c + 1 - 1 = c
    BY <1>1
  <2>2. QED
    BY <2>1, StartUnfolds
<1> HIDE DEF f
<1>4. 0 \in S
  BY <1>1
<1>5. ASSUME NEW b \in Nat, b \in S PROVE b + 1 \in S
  <2> SUFFICES ASSUME b + 1 \in 1 .. Len(ss) + 1
               PROVE  f[b + 1] \in Nat /\ \A c \in 1 .. b + 1 : f[c] \in Nat /\ f[c] <= f[b + 1]
    OBVIOUS
  <2>1. CASE b = 0
    <3>1. f[b + 1] = 0 /\ \A c \in 1 .. b + 1 : c = 1
      BY <1>2, <2>1
    <3>2. QED
      BY <1>2, <2>1, <3>1
  <2>2. CASE b > 0
    <3>1. b \in 1 .. Len(ss)
      BY <1>1, <2>2
    <3>2. f[b] \in Nat /\ \A c \in 1 .. b : f[c] \in Nat /\ f[c] <= f[b]
      BY <1>1, <1>5, <3>1
    <3>3. f[b + 1] = f[b] + Extent(ss[b]) /\ Extent(ss[b]) \in Nat
      BY <1>1, <1>3, <3>1
    <3>4. f[b] <= f[b + 1] /\ f[b + 1] \in Nat
      BY <3>2, <3>3
    <3>5. ASSUME NEW c \in 1 .. b + 1 PROVE f[c] \in Nat /\ f[c] <= f[b + 1]
      <4>1. CASE c = b + 1
        BY <3>4, <4>1
      <4>2. CASE c \in 1 .. b
        <5>1. f[c] \in Nat /\ f[c] <= f[b]
          BY <3>2, <4>2
        <5>2. QED
          BY <3>2, <3>4, <5>1
      <4>3. QED
        BY <4>1, <4>2
    <3>6. QED
      BY <3>4, <3>5
  <2>3. QED
    BY <2>1, <2>2
<1>6. Nat \subseteq S
  <2> HIDE DEF S
  <2>1. QED
    BY <1>4, <1>5, Counting
<1>7. QED
  BY <1>1, <1>2, <1>3, <1>6 DEF f

LEMMA ByteAtIs ==
  ASSUME NEW ss \in Seq(Section), NEW c \in 1 .. Len(ss), NEW n \in 1 .. Extent(ss[c])
  PROVE  ByteAt(ss, Start(ss)[c] + n)
           = IF ss[c].kind # "BSS" /\ n <= ss[c].size THEN <<c, n>> ELSE Zero
<1> DEFINE f == Start(ss)
           p == f[c] + n
           d == CHOOSE d \in DOMAIN ss : f[d] < p /\ p <= f[d + 1]
<1>1. /\ Len(ss) \in Nat /\ DOMAIN ss = 1 .. Len(ss)
      /\ \A b \in 1 .. Len(ss) + 1 : f[b] \in Nat
      /\ \A b \in 1 .. Len(ss) + 1 : \A a \in 1 .. b : f[a] <= f[b]
      /\ f[c + 1] = f[c] + Extent(ss[c]) /\ Extent(ss[c]) \in Nat
  <2>1. ss[c] \in Section
    OBVIOUS
  <2>2. QED
    BY <2>1, StartFacts, ExtentIs
<1> HIDE DEF f
<1>2. c \in DOMAIN ss /\ f[c] < p /\ p <= f[c + 1] /\ p \in Nat
  BY <1>1
<1>3. d \in DOMAIN ss /\ f[d] < p /\ p <= f[d + 1]
  <2> HIDE DEF p
  <2>1. QED
    BY <1>2
<1>4. ByteAt(ss, p)
        = IF ss[d].kind # "BSS" /\ p - f[d] <= ss[d].size THEN <<d, p - f[d]>> ELSE Zero
  BY DEF ByteAt, f
<1> HIDE DEF d
<1>5. d = c
  <2> HIDE DEF p
  <2>1. c \in 1 .. Len(ss) /\ d \in 1 .. Len(ss)
    BY <1>1, <1>3
  <2>2. /\ f[c] \in Nat /\ f[d] \in Nat /\ f[c + 1] \in Nat /\ f[d + 1] \in Nat
    BY <1>1, <2>1
  <2>3. CASE d < c
    <3>1. f[d + 1] <= f[c]
      BY <1>1, <2>1, <2>3
    <3>2. QED
      BY <1>2, <1>3, <2>2, <3>1
  <2>4. CASE c < d
    <3>1. f[c + 1] <= f[d]
      BY <1>1, <2>1, <2>4
    <3>2. QED
      BY <1>2, <1>3, <2>2, <3>1
  <2>5. QED
    BY <2>1, <2>3, <2>4
<1>6. p - f[d] = n
  BY <1>1, <1>5
<1>7. QED
  BY <1>4, <1>5, <1>6 DEF f

LEMMA ZerosAre ==
  ASSUME NEW n \in Nat
  PROVE  Zeros(n) \in Seq(Bytes) /\ Len(Zeros(n)) = n /\ \A m \in 1 .. n : Zeros(n)[m] = Zero
<1>1. Len(Zeros(n)) = n /\ \A m \in 1 .. n : Zeros(n)[m] = Zero
  BY DEF Zeros
<1>2. QED
  BY <1>1, ZerosType

LEMMA ChunkIs ==
  ASSUME TypeOK, NEW c \in 1 .. Len(sections)
  PROVE  /\ Chunk(c) \in Seq(Bytes) /\ Len(Chunk(c)) = Extent(sections[c])
         /\ \A n \in 1 .. Extent(sections[c]) :
              Chunk(c)[n] = ByteAt(sections, Start(sections)[c] + n)
<1> DEFINE s == sections[c]
           raw == Raw(c)
           pad == Zeros(Padded(Len(raw), s.align) - Len(raw))
<1>1. s \in Section /\ sections \in Seq(Section)
  BY FlatAssumption DEF TypeOK
<1>2. s.align \in Nat /\ s.size \in Nat /\ s.vsize \in Nat
  BY <1>1 DEF Section
<1>3. /\ raw \in Seq(Bytes) /\ Len(raw) = Emitted(s)
      /\ \A n \in 1 .. Emitted(s) :
           raw[n] = IF s.kind # "BSS" /\ n <= s.size THEN <<c, n>> ELSE Zero
  <2>1. CASE s.kind = "BSS"
    <3>1. raw = Zeros(s.vsize) /\ Emitted(s) = s.vsize
      BY <2>1 DEF Raw, Emitted
    <3>2. QED
      BY <1>2, <2>1, <3>1, ZerosAre
  <2>2. CASE s.kind # "BSS"
    <3>1. raw = [b \in 1 .. s.size |-> <<c, b>>] /\ Emitted(s) = s.size
      BY <2>2 DEF Raw, Emitted
    <3>2. \A b \in 1 .. s.size : <<c, b>> \in Bytes
      BY <1>2 DEF Bytes
    <3>3. QED
      BY <1>2, <2>2, <3>1, <3>2
  <2>3. QED
    BY <2>1, <2>2
<1>4. /\ Emitted(s) \in Nat /\ Extent(s) \in Nat /\ Emitted(s) <= Extent(s)
      /\ Extent(s) = Padded(Emitted(s), s.align)
  BY <1>1, ExtentIs
<1>5. /\ pad \in Seq(Bytes) /\ Len(pad) = Extent(s) - Emitted(s)
      /\ \A n \in 1 .. Extent(s) - Emitted(s) : pad[n] = Zero
  <2>1. Padded(Len(raw), s.align) - Len(raw) = Extent(s) - Emitted(s)
    BY <1>3, <1>4
  <2>2. Extent(s) - Emitted(s) \in Nat
    BY <1>4
  <2>3. QED
    BY <2>1, <2>2, ZerosAre
<1>6. Chunk(c) = raw \o pad
  BY DEF Chunk
<1> HIDE DEF raw, pad
<1>7. /\ Chunk(c) \in Seq(Bytes) /\ Len(Chunk(c)) = Extent(s)
      /\ \A n \in 1 .. Emitted(s) : Chunk(c)[n] = raw[n]
      /\ \A n \in Emitted(s) + 1 .. Extent(s) : Chunk(c)[n] = pad[n - Emitted(s)]
  BY <1>3, <1>4, <1>5, <1>6
<1>8. ASSUME NEW n \in 1 .. Extent(s)
      PROVE  Chunk(c)[n] = IF s.kind # "BSS" /\ n <= s.size THEN <<c, n>> ELSE Zero
  <2>1. CASE n <= Emitted(s)
    BY <1>3, <1>4, <1>7, <2>1
  <2>2. CASE n > Emitted(s)
    <3>1. n - Emitted(s) \in 1 .. Extent(s) - Emitted(s) /\ n \in Emitted(s) + 1 .. Extent(s)
      BY <1>4, <2>2
    <3>2. Chunk(c)[n] = Zero
      BY <1>5, <1>7, <3>1
    <3>3. s.kind = "BSS" \/ n > s.size
      BY <2>2 DEF Emitted
    <3>4. QED
      BY <1>2, <1>4, <3>2, <3>3
  <2>3. QED
    BY <1>4, <2>1, <2>2
<1>9. QED
  BY <1>1, <1>7, <1>8, ByteAtIs

-----------------------------------------------------------------------------
(***************************************************************************)
(* The stream: it is the beginning of the image, and between two Writes it *)
(* ends where the next section starts.                                     *)
(***************************************************************************)
\* What the code does, disputed sections included.
Streamed ==
  /\ StreamHonest(sections, stream, total) \/ pc = "idle"
  /\ last.status \in {"written", "broken"} =>
       StreamHonest(last.input.sections, last.stream, last.count)
  /\ last.status = "written" => last.count = ImageLen(last.input.sections)

Streaming ==
  /\ pc = "check" => i = 1
  /\ pc = "write" => total = Start(sections)[i]
  /\ last.status = "written" => last.stream \in Seq(Bytes)
  /\ last.status \in {"written", "broken"} => last.input.sections \in Seq(Section)

\* A part of the next chunk continues the image.
LEMMA Continues ==
  ASSUME TypeOK, i <= Len(sections), total = Start(sections)[i],
         StreamHonest(sections, stream, total),
         NEW part \in Seq(Bytes), Len(part) <= Len(Chunk(i)),
         \A n \in DOMAIN part : part[n] = Chunk(i)[n]
  PROVE  /\ StreamHonest(sections, stream \o part, total + Len(part))
         /\ stream \o part \in Seq(Bytes)
<1> DEFINE f == Start(sections)
           x == Extent(sections[i])
           all == stream \o part
<1>1. /\ i \in 1 .. Len(sections) /\ Len(sections) \in Nat /\ sections \in Seq(Section)
      /\ stream \in Seq(Bytes) /\ total \in Nat /\ total = Len(stream)
      /\ \A p \in 1 .. Len(stream) : stream[p] = ByteAt(sections, p)
  <2>1. /\ sections \in Seq(Sections) /\ i \in 1 .. Len(sections) + 1
        /\ stream \in Seq(Bytes) /\ total \in Nat
    BY DEF TypeOK, Bytes
  <2>2. sections \in Seq(Section)
    BY <2>1, FlatAssumption
  <2>3. total = Len(stream) /\ \A p \in DOMAIN stream : stream[p] = ByteAt(sections, p)
    BY DEF StreamHonest
  <2>4. QED
    BY <2>1, <2>2, <2>3
<1>2. /\ Len(Chunk(i)) = x
      /\ \A n \in 1 .. x : Chunk(i)[n] = ByteAt(sections, total + n)
  BY <1>1, ChunkIs
<1>3. f[i + 1] = f[i] + x /\ f[i + 1] <= f[Len(sections) + 1] /\ f[i] \in Nat
      /\ f[i + 1] \in Nat /\ f[Len(sections) + 1] \in Nat
  <2>1. i \in 1 .. Len(sections) + 1 /\ i + 1 \in 1 .. Len(sections) + 1
    BY <1>1
  <2>2. Len(sections) + 1 \in 1 .. Len(sections) + 1 /\ i + 1 \in 1 .. (Len(sections) + 1)
    BY <1>1
  <2>3. QED
    BY <1>1, <2>1, <2>2, StartFacts
<1> HIDE DEF f, x
<1>4. Len(part) \in Nat /\ Len(part) <= x /\ DOMAIN part = 1 .. Len(part) /\ x \in Int
  BY <1>2, <1>3, <1>1, ChunkIs
<1>5. /\ all \in Seq(Bytes) /\ Len(all) = total + Len(part) /\ DOMAIN all = 1 .. Len(all)
      /\ \A p \in 1 .. total : all[p] = stream[p]
      /\ \A p \in total + 1 .. total + Len(part) : all[p] = part[p - total]
  BY <1>1
<1>6. total + Len(part) <= ImageLen(sections)
  BY <1>3, <1>4 DEF ImageLen, f
<1>7. ASSUME NEW p \in DOMAIN all PROVE all[p] = ByteAt(sections, p)
  <2>1. CASE p <= total
    BY <1>1, <1>5, <2>1
  <2>2. CASE p > total
    <3>1. /\ p - total \in 1 .. Len(part) /\ p \in total + 1 .. total + Len(part)
          /\ total + (p - total) = p /\ p - total \in 1 .. x
      <4>1. p \in Nat /\ p <= total + Len(part)
        BY <1>1, <1>4, <1>5
      <4>2. QED
        BY <1>1, <1>4, <2>2, <4>1
    <3>2. part[p - total] = Chunk(i)[p - total]
      BY <1>4, <3>1
    <3>3. QED
      BY <1>2, <1>5, <3>1, <3>2
  <2>3. QED
    BY <1>1, <1>4, <1>5, <2>1, <2>2
<1> HIDE DEF all
<1>8. StreamHonest(sections, all, total + Len(part))
  BY <1>5, <1>6, <1>7 DEF StreamHonest
<1>9. QED
  BY <1>5, <1>8 DEF all

LEMMA NothingYet ==
  ASSUME NEW ss \in Seq(Section) PROVE StreamHonest(ss, << >>, 0)
<1>1. Len(ss) + 1 \in 1 .. Len(ss) + 1
  OBVIOUS
<1>2. ImageLen(ss) \in Nat
  BY <1>1, StartFacts DEF ImageLen
<1>3. QED
  BY <1>2 DEF StreamHonest

LEMMA CallerStreams ==
  ASSUME IInv, Streamed, Streaming, Caller
  PROVE  Streamed' /\ Streaming'
<1>1. UNCHANGED last /\ (pc' = "idle" \/ WriteTo) /\ pc' # "write"
  BY DEF Caller, AddSection, SetBaseAddress, WriteTo
<1>2. Streaming'
  BY <1>1 DEF Streaming, WriteTo
<1>3. WriteTo => StreamHonest(sections', stream', total')
  <2>1. sections \in Seq(Section)
    BY FlatAssumption DEF IInv, TypeOK
  <2>2. QED
    BY <2>1, NothingYet DEF WriteTo
<1>4. Streamed'
  <2>1. StreamHonest(sections', stream', total') \/ pc' = "idle"
    BY <1>1, <1>3
  <2>2. QED
    BY <1>1, <2>1 DEF Streamed
<1>5. QED
  BY <1>2, <1>4

LEMMA InsideStreams ==
  ASSUME IInv, Streamed, Streaming, Accept \/ SkipSection \/ WriteChunk
  PROVE  Streamed' /\ Streaming'
<1>1. /\ TypeOK /\ sections \in Seq(Section) /\ i \in 1 .. Len(sections) + 1
      /\ stream \in Seq(Bytes) /\ total \in Nat /\ Len(sections) \in Nat
  BY FlatAssumption DEF IInv, TypeOK, Bytes
<1>2. UNCHANGED <<last, sections>> /\ pc # "idle" /\ pc' = "write"
  BY DEF Accept, SkipSection, WriteChunk
<1>3. StreamHonest(sections, stream, total)
  BY <1>2 DEF Streamed
<1>4. StreamHonest(sections, stream', total') /\ total' = Start(sections)[i']
  <2>1. CASE Accept
    <3>1. UNCHANGED <<i, stream, total>> /\ i = 1 /\ total = 0
      BY <2>1 DEF Accept, Streaming, IInv, Passed
    <3>2. QED
      BY <1>1, <1>3, <3>1, StartFacts
  <2>2. CASE SkipSection
    <3>1. /\ UNCHANGED <<stream, total>> /\ i' = i + 1 /\ i \in 1 .. Len(sections)
          /\ Chunk(i) = << >> /\ total = Start(sections)[i]
      BY <1>1, <2>2 DEF SkipSection, Streaming
    <3>2. Extent(sections[i]) = 0
      BY <1>1, <3>1, ChunkIs
    <3>3. Start(sections)[i + 1] = Start(sections)[i] + Extent(sections[i])
      BY <1>1, <3>1, StartFacts
    <3>4. Start(sections)[i + 1] = total
      BY <1>1, <3>1, <3>2, <3>3
    <3>5. QED
      BY <1>3, <3>1, <3>4
  <2>3. CASE WriteChunk
    <3>1. /\ i' = i + 1 /\ i \in 1 .. Len(sections) /\ i <= Len(sections)
          /\ stream' = stream \o Chunk(i) /\ total' = total + Len(Chunk(i))
          /\ total = Start(sections)[i]
      BY <1>1, <2>3 DEF WriteChunk, Streaming
    <3>2. Chunk(i) \in Seq(Bytes) /\ Len(Chunk(i)) = Extent(sections[i])
      BY <1>1, <3>1, ChunkIs
    <3>3. StreamHonest(sections, stream', total')
      <4> DEFINE part == Chunk(i)
      <4>1. Len(part) <= Len(Chunk(i)) /\ \A n \in DOMAIN part : part[n] = Chunk(i)[n]
        BY <3>2
      <4>2. QED
        BY <1>1, <1>3, <3>1, <3>2, <4>1, Continues
    <3>4. Start(sections)[i + 1] = Start(sections)[i] + Extent(sections[i])
      BY <1>1, <3>1, StartFacts
    <3>5. QED
      BY <3>1, <3>2, <3>3, <3>4
  <2>4. QED
    BY <2>1, <2>2, <2>3
<1>5. Streaming'
  BY <1>2, <1>4 DEF Streaming
<1>6. Streamed'
  BY <1>2, <1>4 DEF Streamed
<1>7. QED
  BY <1>5, <1>6

LEMMA ReturnStreams ==
  ASSUME IInv, Streamed, Streaming, Refuse \/ WriteFails \/ WriteDone
  PROVE  Streamed' /\ Streaming'
<1>1. /\ TypeOK /\ sections \in Seq(Section) /\ i \in 1 .. Len(sections) + 1
      /\ stream \in Seq(Bytes) /\ total \in Nat /\ Len(sections) \in Nat
  BY FlatAssumption DEF IInv, TypeOK, Bytes
<1>2. /\ pc # "idle" /\ pc' = "idle"
      /\ last'.stream = stream' /\ last'.count = total' /\ last'.input.sections = sections
  BY DEF Refuse, WriteFails, WriteDone, Return
<1>3. StreamHonest(sections, stream, total)
  BY <1>2 DEF Streamed
<1>4. \/ last'.status = "refused"
      \/ last'.status = "broken" /\ StreamHonest(sections, stream', total')
      \/ /\ last'.status = "written" /\ StreamHonest(sections, stream', total')
         /\ total' = ImageLen(sections) /\ stream' \in Seq(Bytes)
  <2>1. CASE Refuse
    BY <2>1 DEF Refuse, Return
  <2>2. CASE WriteFails
    <3>1. /\ i \in 1 .. Len(sections) /\ i <= Len(sections) /\ total = Start(sections)[i]
          /\ last'.status = "broken"
      BY <1>1, <2>2 DEF WriteFails, Streaming, Return
    <3>2. PICK n \in 0 .. Len(Chunk(i)) - 1 :
            stream' = stream \o SubSeq(Chunk(i), 1, n) /\ total' = total + n
      BY <2>2 DEF WriteFails
    <3> DEFINE whole == Chunk(i)
               part == SubSeq(whole, 1, n)
    <3>3. whole \in Seq(Bytes) /\ Len(whole) \in Nat
      BY <1>1, <3>1, ChunkType
    <3>4. /\ part \in Seq(Bytes) /\ Len(part) = n /\ Len(part) <= Len(whole)
          /\ \A m \in DOMAIN part : part[m] = whole[m]
      <4> HIDE DEF whole
      <4>1. n \in 0 .. Len(whole) - 1
        BY <3>2 DEF whole
      <4>2. QED
        BY <3>3, <4>1
    <3>5. StreamHonest(sections, stream \o part, total + Len(part))
      <4> HIDE DEF part
      <4>1. QED
        BY <1>1, <1>3, <3>1, <3>4, Continues
    <3>6. QED
      BY <3>1, <3>2, <3>4, <3>5
  <2>3. CASE WriteDone
    <3>1. /\ UNCHANGED <<stream, total>> /\ i > Len(sections) /\ total = Start(sections)[i]
          /\ last'.status = "written"
      BY <2>3 DEF WriteDone, Streaming, Return
    <3>2. i = Len(sections) + 1
      BY <1>1, <3>1
    <3>3. QED
      BY <1>1, <1>3, <3>1, <3>2 DEF ImageLen
  <2>4. QED
    BY <2>1, <2>2, <2>3
<1>5. Streaming'
  BY <1>1, <1>2, <1>4 DEF Streaming
<1>6. Streamed'
  BY <1>2, <1>4 DEF Streamed
<1>7. QED
  BY <1>5, <1>6

LEMMA StreamsStep ==
  IInv /\ Streamed /\ Streaming /\ [Next]_vars => Streamed' /\ Streaming'
<1> SUFFICES ASSUME IInv, Streamed, Streaming, [Next]_vars
             PROVE  Streamed' /\ Streaming'
  OBVIOUS
<1>1. CASE Caller
  BY <1>1, CallerStreams
<1>2. CASE Accept \/ SkipSection \/ WriteChunk
  BY <1>2, InsideStreams
<1>3. CASE Refuse \/ WriteFails \/ WriteDone
  BY <1>3, ReturnStreams
<1>4. CASE UNCHANGED vars
  BY <1>4 DEF vars, Streamed, Streaming
<1>5. QED
  BY <1>1, <1>2, <1>3, <1>4 DEF Next, Write

LEMMA StreamsInvariant == Spec => [](Streamed /\ Streaming)
<1>1. Init => Streamed /\ Streaming
  BY DEF Init, NoCall, Streamed, Streaming
<1>2. QED
  BY Inductive, StreamsStep, <1>1, PTL DEF Spec

\* Whatever the writer takes and whenever it fails, what it has taken is the
\* beginning of the image, in which every section lies behind the aligned
\* extents of the ones in front of it, and the count is how much (the loop of
\* Writes in WriteTo, sectionChunk).
THEOREM StreamBeginsTheImage == Spec => []PartialWritesHonest
<1>1. Streamed => PartialWritesHonest
  BY DEF Streamed, PartialWritesHonest
<1>2. QED
  BY StreamsInvariant, <1>1, PTL

\* A stream that is the whole image of some sections is determined by them.
LEMMA SameStream ==
  ASSUME NEW ss, NEW s \in Seq(Bytes), NEW t \in Seq(Bytes), NEW n, NEW m,
         StreamHonest(ss, s, n), n = ImageLen(ss),
         StreamHonest(ss, t, m), m = ImageLen(ss)
  PROVE  s = t
<1>1. /\ Len(s) = Len(t) /\ DOMAIN s = 1 .. Len(s) /\ DOMAIN t = 1 .. Len(t)
      /\ \A p \in 1 .. Len(s) : s[p] = t[p]
  <2>1. Len(s) = ImageLen(ss) /\ Len(t) = ImageLen(ss)
    BY DEF StreamHonest
  <2>2. /\ \A p \in DOMAIN s : s[p] = ByteAt(ss, p)
        /\ \A p \in DOMAIN t : t[p] = ByteAt(ss, p)
    BY DEF StreamHonest
  <2>3. DOMAIN s = 1 .. Len(s) /\ DOMAIN t = 1 .. Len(t)
    OBVIOUS
  <2>4. QED
    BY <2>1, <2>2, <2>3
<1>2. QED
  BY <1>1, SeqEqual

\* SetBaseAddress alters no byte: two calls on the same sections that both
\* succeed wrote the same stream (SetBaseAddress; File.base is never read).
THEOREM BaseNeverRead == Spec => BaseIsInformational
<1> DEFINE Sound == Streamed /\ Streaming
<1>1. Sound /\ Sound' /\ [Next]_vars
      => [last.status = "written" /\ last' # last /\ last'.status = "written"
            /\ last'.input.sections = last.input.sections
          => last'.stream = last.stream]_vars
  <2> SUFFICES ASSUME Sound, Sound', last.status = "written", last'.status = "written",
                      last'.input.sections = last.input.sections
               PROVE  last'.stream = last.stream
    OBVIOUS
  <2>1. /\ StreamHonest(last.input.sections, last.stream, last.count)
        /\ last.count = ImageLen(last.input.sections) /\ last.stream \in Seq(Bytes)
    BY DEF Streamed, Streaming
  <2>2. /\ StreamHonest(last'.input.sections, last'.stream, last'.count)
        /\ last'.count = ImageLen(last'.input.sections) /\ last'.stream \in Seq(Bytes)
    BY DEF Streamed, Streaming
  <2>3. QED
    BY <2>1, <2>2, SameStream
<1>2. QED
  BY StreamsInvariant, <1>1, PTL DEF Spec, BaseIsInformational

=============================================================================
