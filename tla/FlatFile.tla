------------------------------ MODULE FlatFile ------------------------------
(***************************************************************************)
(* flat.File: the sections one after the other, without a header.  Unlike  *)
(* the structured formats nothing is built in memory: WriteTo makes one    *)
(* Write per section, and the caller's writer may take a part of one and   *)
(* fail.  Serialize is WriteTo into a bytes.Buffer, which takes everything.*)
(*                                                                         *)
(* The image is modelled byte by byte: byte n of section i's Code is       *)
(* <<i, n>>, a zero byte is Zero.                                          *)
(***************************************************************************)
EXTENDS Objects

CONSTANTS
  Sections,      \* the sections a caller may add
  MaxSections,   \* bound: AddSection calls on one File
  MaxCalls,      \* bound: Serialize / WriteTo calls on one File
  Bases          \* the values SetBaseAddress is called with

ASSUME FlatAssumption ==
  /\ Sections \subseteq Section
  /\ MaxSections \in Nat /\ MaxCalls \in Nat

VARIABLES
  base,      \* the load address: recorded, never read
  sections,  \* the File's sections
  pc,        \* "idle", or the loop a call is in
  i,         \* the section to write next
  total,     \* the byte count WriteTo will return
  stream,    \* what the writer of the running call has taken
  last,      \* the last call that returned: its input and its outcome
  calls      \* calls so far, for MaxCalls

vars == <<base, sections, pc, i, total, stream, last, calls>>

NoCall == [status |-> "none"]

Init ==
  /\ base = 0
  /\ sections = << >>
  /\ pc = "idle" /\ i = 1 /\ total = 0 /\ stream = << >>
  /\ last = NoCall
  /\ calls = 0

-----------------------------------------------------------------------------
Zero == <<0, 0>>
Zeros(n) == [b \in 1 .. n |-> Zero]

\* The bytes of a section before padding.  Only a BSS section is filled to
\* its virtual size.
Raw(c) ==
  LET s == sections[c]
  IN  IF s.kind = "BSS" THEN Zeros(s.vsize) ELSE [b \in 1 .. s.size |-> <<c, b>>]

\* The length a chunk is padded to: the next multiple of the alignment.
Padded(n, align) ==
  IF align <= 1 \/ n % align = 0 THEN n ELSE n + align - (n % align)

\* A defect: the end is aligned in memory, behind the base address.
ChunkAtBase(c) ==
  Raw(c) \o Zeros(Padded(base + Len(Raw(c)), sections[c].align) - base - Len(Raw(c)))

\* sectionChunk
Chunk(c) ==
  Raw(c) \o Zeros(Padded(Len(Raw(c)), sections[c].align) - Len(Raw(c)))

AddSection(s) ==
  /\ pc = "idle" /\ Len(sections) < MaxSections
  /\ sections' = Append(sections, s)
  /\ UNCHANGED <<base, pc, i, total, stream, last, calls>>

SetBaseAddress(addr) ==
  /\ pc = "idle"
  /\ base' = addr
  /\ UNCHANGED <<sections, pc, i, total, stream, last, calls>>

Return(status) ==
  /\ last' = [status |-> status, stream |-> stream', count |-> total',
              input |-> [opts |-> base, sections |-> sections]]
  /\ pc' = "idle" /\ i' = 1

\* A defect: the loop starts one section early.
WriteToEarly ==
  /\ pc = "idle" /\ calls < MaxCalls
  /\ calls' = calls + 1
  /\ pc' = "check" /\ i' = 0
  /\ total' = 0 /\ stream' = << >>
  /\ UNCHANGED <<base, sections, last>>

WriteTo ==
  /\ pc = "idle" /\ calls < MaxCalls
  /\ calls' = calls + 1
  /\ pc' = "check" /\ i' = 1
  /\ total' = 0 /\ stream' = << >>
  /\ UNCHANGED <<base, sections, last>>

\* A defect: only the first section is looked at.
HasRelocsFirst == sections # << >> /\ sections[1].relocs # << >>

\* Relocations anywhere are refused before the first Write.
HasRelocs == \E c \in DOMAIN sections : sections[c].relocs # << >>

Refuse ==
  /\ pc = "check" /\ HasRelocs
  /\ UNCHANGED <<base, sections, total, stream, calls>>
  /\ Return("refused")

Accept ==
  /\ pc = "check" /\ ~HasRelocs
  /\ pc' = "write"
  /\ UNCHANGED <<base, sections, i, total, stream, last, calls>>

\* A defect: the loop does not move on.
SkipSectionStuck ==
  /\ pc = "write" /\ i <= Len(sections) /\ Chunk(i) = << >>
  /\ UNCHANGED vars

\* An empty chunk makes no Write.
SkipSection ==
  /\ pc = "write" /\ i <= Len(sections) /\ Chunk(i) = << >>
  /\ i' = i + 1
  /\ UNCHANGED <<base, sections, pc, total, stream, last, calls>>

WriteChunk ==
  /\ pc = "write" /\ i <= Len(sections) /\ Chunk(i) # << >>
  /\ stream' = stream \o Chunk(i)
  /\ total' = total + Len(Chunk(i))
  /\ i' = i + 1
  /\ UNCHANGED <<base, sections, pc, last, calls>>

\* A defect: the bytes of a failed Write are not counted.
WriteFailsUncounted ==
  /\ pc = "write" /\ i <= Len(sections)
  /\ \E n \in 0 .. Len(Chunk(i)) - 1 : stream' = stream \o SubSeq(Chunk(i), 1, n)
  /\ total' = total
  /\ Return("broken")
  /\ UNCHANGED <<base, sections, calls>>

\* The writer takes n bytes of the chunk and reports an error.
WriteFails ==
  /\ pc = "write" /\ i <= Len(sections)
  /\ \E n \in 0 .. Len(Chunk(i)) - 1 :
       /\ stream' = stream \o SubSeq(Chunk(i), 1, n)
       /\ total' = total + n
  /\ Return("broken")
  /\ UNCHANGED <<base, sections, calls>>

WriteDone ==
  /\ pc = "write" /\ i > Len(sections)
  /\ UNCHANGED <<base, sections, total, stream, calls>>
  /\ Return("written")

Caller ==
  \/ \E s \in Sections : AddSection(s)
  \/ \E addr \in Bases : SetBaseAddress(addr)
  \/ WriteTo

Write == Refuse \/ Accept \/ SkipSection \/ WriteChunk \/ WriteFails \/ WriteDone

Next == Caller \/ Write

\* A call that has started runs: the loop waits for nothing but the writer,
\* which is taken to return.
Spec == Init /\ [][Next]_vars /\ WF_vars(Write)

-----------------------------------------------------------------------------
TypeOK ==
  /\ base \in Bases \cup {0}
  /\ sections \in Seq(Sections)
  /\ pc \in {"idle", "check", "write"}
  /\ i \in 1 .. Len(sections) + 1
  /\ total \in Nat
  /\ stream \in Seq(Nat \X Nat)
  /\ calls \in 0 .. MaxCalls

\* Two kinds of section are documented to reserve more than the code emits: a
\* BSS section without VSize stands for len(Code) bytes (object.Section.VSize),
\* and a zero-fill TLS section for VSize (README.md).  BssReserved and
\* ZeroFillEmitted below show what becomes of them.
Undisputed(ss) ==
  \A c \in DOMAIN ss :
    /\ ss[c].kind = "BSS" /\ ss[c].vsize = 0 => ss[c].size = 0
    /\ ss[c].kind = "TLS" /\ ss[c].size = 0  => ss[c].vsize = 0

\* The image of a list of sections: its length, and the byte at a position,
\* given by where the section it falls into starts.
Emitted(s) == IF s.kind = "BSS" THEN s.vsize ELSE s.size
Extent(s) ==
  LET n == Emitted(s)
  IN  IF s.align <= 1 THEN n
      ELSE CHOOSE m \in n .. n + s.align - 1 : m % s.align = 0
Start(ss) ==
  LET before[c \in Nat] == IF c <= 1 THEN 0 ELSE before[c - 1] + Extent(ss[c - 1])
  IN  before

ImageLen(ss) == Start(ss)[Len(ss) + 1]

ByteAt(ss, p) ==
  LET c == CHOOSE c \in DOMAIN ss : Start(ss)[c] < p /\ p <= Start(ss)[c + 1]
      n == p - Start(ss)[c]
  IN  IF ss[c].kind # "BSS" /\ n <= ss[c].size THEN <<c, n>> ELSE Zero

\* However the writer fails, what it has taken is the beginning of the image
\* the sections stand for, and the count WriteTo returns is exactly how much;
\* without an error it is the whole image.  Lists with a section whose bytes the
\* documents and the code disagree about are left out.
StreamHonest(ss, taken, count) ==
  /\ count = Len(taken)
  /\ count <= ImageLen(ss)
  /\ \A p \in DOMAIN taken : taken[p] = ByteAt(ss, p)

PartialWritesHonest ==
  /\ pc # "idle" /\ Undisputed(sections) => StreamHonest(sections, stream, total)
  /\ last.status \in {"written", "broken"} /\ Undisputed(last.input.sections) =>
       /\ StreamHonest(last.input.sections, last.stream, last.count)
       /\ last.status = "written" => last.count = ImageLen(last.input.sections)

\* Relocations in any section, the last one included, are refused before a
\* byte of an earlier section has reached the writer.
RefusedUntouched ==
  last.status # "none" =>
    LET Bad == \E c \in DOMAIN last.input.sections : last.input.sections[c].relocs # << >>
    IN  /\ last.status = "refused" <=> Bad
        /\ Bad => last.stream = << >> /\ last.count = 0

\* The base address does not alter the output: two calls on the same sections
\* that both succeed write the same bytes, whatever SetBaseAddress said.
BaseIsInformational ==
  [][last.status = "written" /\ last' # last /\ last'.status = "written"
       /\ last'.input.sections = last.input.sections
       => last'.stream = last.stream]_vars

\* The flat File is an object.Builder.
Promise(input, outcome) ==
  (outcome.status = "refused") <=>
    \E c \in DOMAIN input.sections : input.sections[c].relocs # << >>

Abstract == INSTANCE Builder WITH config <- base, busy <- pc # "idle"
ImplementsBuilder == Abstract!Spec

-----------------------------------------------------------------------------
\* "SectionBSS and zero-fill SectionTLS carry no file bytes in any structured
\* format [...] flat is the exception: it emits VSize zero bytes" (README.md):
\* sectionChunk drops a zero-fill TLS section.
ZeroFillEmitted ==
  last.status = "written" =>
    last.count >= (LET ss == last.input.sections
                       Z  == {c \in DOMAIN ss : ss[c].kind = "TLS" /\ ss[c].size = 0}
                   IN  IF Z = {} THEN 0 ELSE ss[CHOOSE c \in Z : TRUE].vsize)

\* "VSize uint64 // virtual size; for BSS may exceed len(Code); 0 = len(Code)"
\* (object/section.go): sectionChunk drops a BSS section with Code and no VSize.
BssReserved ==
  last.status = "written" =>
    last.count >= (LET ss == last.input.sections
                       B  == {c \in DOMAIN ss : ss[c].kind = "BSS"}
                   IN  IF B = {} THEN 0 ELSE VirtualSize(ss[CHOOSE c \in B : TRUE]))
=============================================================================
