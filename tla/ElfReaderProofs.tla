--------------------------- MODULE ElfReaderProofs ---------------------------
(***************************************************************************)
(* What a linker finds in the image, for every file.  LInv of              *)
(* ElfLayoutProofs knows where the descriptors are; here it is added what  *)
(* they are.  Meant is the descriptor each place is for, a function of     *)
(* tables that no longer change once the first descriptor exists: Made     *)
(* says that every place holds what it is meant for, so that a step only   *)
(* has to answer for the descriptors it adds.  InOrder says that the       *)
(* chunks of the buffer follow one another: a linker that goes to an       *)
(* offset finds one chunk there.                                           *)
(***************************************************************************)
EXTENDS ElfLayoutProofs

Base == 1 + Len(sections) + Len(relaWork)

\* Where the last descriptors are.
LEMMA IndexPlaces ==
  ASSUME IInv
  PROVE  /\ Len(sections) \in Nat /\ DOMAIN sections = 1 .. Len(sections)
         /\ Len(relaWork) \in Nat /\ DOMAIN relaWork = 1 .. Len(relaWork)
         /\ GroupCount \in Nat /\ StackCount \in {0, 1} /\ Base \in Nat
         /\ (opts.gnuStack <=> StackCount = 1)
         /\ SymtabIdx = Base + GroupCount + StackCount
         /\ StrtabIdx = SymtabIdx + 1 /\ ShstrtabIdx = SymtabIdx + 2
<1>1. /\ Len(sections) \in Nat /\ DOMAIN sections = 1 .. Len(sections)
      /\ Len(relaWork) \in Nat /\ DOMAIN relaWork = 1 .. Len(relaWork)
  BY DEF IInv, TypeOK
<1>2. GroupCount \in Nat
  BY <1>1, GroupsFinite DEF IInv
<1>3. StackCount \in {0, 1} /\ (opts.gnuStack <=> StackCount = 1)
  BY DEF StackCount
<1>4. SymtabIdx = Base + GroupCount + StackCount
  BY <1>1, <1>2 DEF SymtabIdx, Base, StackCount
<1>5. QED
  BY <1>1, <1>2, <1>3, <1>4 DEF Base, StrtabIdx, ShstrtabIdx

-----------------------------------------------------------------------------
\* Two descriptors that differ in their file offsets at most.
Like(d, e) ==
  /\ d.name = e.name /\ d.type = e.type /\ d.link = e.link /\ d.info = e.info
  /\ d.align = e.align /\ d.size = e.size /\ d.noSize = e.noSize /\ d.data = e.data

\* The section whose group comes after n others.
GroupOf(n) ==
  CHOOSE c \in DOMAIN sections : sections[c].linkOnce /\ Cardinality(Groups(c)) = n

NoteDesc ==
  [NullDesc EXCEPT !.name = <<".note.GNU-stack">>, !.type = "PROGBITS", !.align = 1]

SymtabDesc ==
  [NullDesc EXCEPT
     !.name  = <<".symtab">>,
     !.type  = "SYMTAB",
     !.align = Class(opts.arch).word,
     !.link  = StrtabIdx,
     !.info  = firstGlobal,
     !.size  = Class(opts.arch).sym * Len(syms),
     !.data  = syms]

\* The descriptor that section index n is meant for.
Meant(n) ==
  IF n <= Len(sections) THEN ContentDesc(n)
  ELSE IF n < Base THEN RelaDesc(relaWork[n - Len(sections)])
  ELSE IF n < Base + GroupCount THEN GroupDesc(GroupOf(n - Base))
  ELSE IF n < SymtabIdx THEN NoteDesc
  ELSE IF n = SymtabIdx THEN SymtabDesc
  ELSE IF n = StrtabIdx THEN StrDesc(<<".strtab">>, strtab.data)
  ELSE StrDesc(<<".shstrtab">>, shstrtab.data)

Made ==
  pc \in Phase3 =>
    \A n \in 1 .. Len(descs) - 1 :
      Like(descs[n + 1], Meant(n)) /\ descs[n + 1].name \in DOMAIN shstrtab.offsets

InOrder ==
  pc = "write" =>
    /\ pos % Class(opts.arch).word = 0
    /\ \A c \in DOMAIN out.chunks :
         /\ out.chunks[c].at \in Nat /\ out.chunks[c].size \in Nat \ {0}
         /\ out.chunks[c].at + out.chunks[c].size <= out.len
         /\ \A d \in DOMAIN out.chunks :
              c < d => out.chunks[c].at + out.chunks[c].size <= out.chunks[d].at

-----------------------------------------------------------------------------
(***************************************************************************)
(* Each section with a group has a place of its own among the groups.      *)
(***************************************************************************)
Linked == {n \in DOMAIN sections : sections[n].linkOnce}

LEMMA GroupsBelow ==
  ASSUME TypeOK, NEW c \in Linked, NEW S, Groups(c) \cup {c} \subseteq S, S \subseteq Linked
  PROVE  Cardinality(Groups(c)) < Cardinality(S)
<1>1. Len(sections) \in Nat /\ DOMAIN sections = 1 .. Len(sections) /\ c \in Nat
  BY DEF TypeOK, Linked
<1>2. IsFiniteSet(S)
  <2>1. IsFiniteSet(DOMAIN sections)
    BY <1>1, FS_Interval
  <2>2. S \subseteq DOMAIN sections
    BY DEF Linked
  <2>3. QED
    BY <2>1, <2>2, FS_Subset
<1>3. IsFiniteSet(Groups(c)) /\ Cardinality(Groups(c)) \in Nat
  BY <1>1, GroupsFinite
<1>4. c \notin Groups(c)
  BY <1>1 DEF Groups
<1>5. Cardinality(Groups(c) \cup {c}) = Cardinality(Groups(c)) + 1
  BY <1>3, <1>4, FS_AddElement
<1>6. Cardinality(Groups(c) \cup {c}) <= Cardinality(S) /\ Cardinality(S) \in Nat
  BY <1>2, FS_Subset, FS_CardinalityType
<1>7. QED
  BY <1>3, <1>5, <1>6

LEMMA GroupPlace ==
  ASSUME TypeOK, NEW c \in DOMAIN sections, sections[c].linkOnce
  PROVE  /\ Cardinality(Groups(c)) \in Nat /\ Cardinality(Groups(c)) < GroupCount
         /\ GroupOf(Cardinality(Groups(c))) = c
<1>1. Len(sections) \in Nat /\ DOMAIN sections = 1 .. Len(sections) /\ c \in Nat
  BY DEF TypeOK
<1>2. c \in Linked /\ GroupCount = Cardinality(Linked)
  BY DEF Linked, GroupCount
<1>3. \A m \in Linked : Cardinality(Groups(m)) \in Nat
  BY <1>1, GroupsFinite DEF Linked
<1>4. Cardinality(Groups(c)) < GroupCount
  <2>1. Groups(c) \cup {c} \subseteq Linked
    BY <1>2 DEF Groups, Linked
  <2>2. QED
    BY <1>2, <2>1, GroupsBelow
<1>5. ASSUME NEW a \in Linked, NEW b \in Linked, a < b
      PROVE  Cardinality(Groups(a)) < Cardinality(Groups(b))
  <2>1. Groups(a) \cup {a} \subseteq Groups(b) /\ Groups(b) \subseteq Linked
    BY <1>1, <1>5 DEF Groups, Linked
  <2>2. QED
    BY <2>1, GroupsBelow
<1>6. ASSUME NEW m \in Linked, Cardinality(Groups(m)) = Cardinality(Groups(c)) PROVE m = c
  <2>1. m \in Nat /\ ~(m < c) /\ ~(c < m)
    BY <1>1, <1>2, <1>3, <1>5, <1>6 DEF Linked
  <2>2. QED
    BY <1>1, <2>1
<1>7. GroupOf(Cardinality(Groups(c))) = c
  <2> DEFINE g == GroupOf(Cardinality(Groups(c)))
  <2>1. g \in Linked /\ Cardinality(Groups(g)) = Cardinality(Groups(c))
    BY DEF GroupOf, Linked
  <2>2. QED
    BY <1>6, <2>1
<1>8. QED
  BY <1>2, <1>3, <1>4, <1>7

-----------------------------------------------------------------------------
(***************************************************************************)
(* The chunks of the buffer.                                               *)
(***************************************************************************)
LEMMA LayoutDoneOrder == ASSUME IInv, LInv, LayoutDone PROVE InOrder'
<1>1. /\ pc' = "write" /\ out'.chunks = << >> /\ UNCHANGED opts
      /\ pos' = AlignUp(pos, Class(opts.arch).word)
  BY DEF LayoutDone, EmptyOut, file
<1>2. Class(opts.arch).word \in Nat /\ Class(opts.arch).word > 1
  BY DEF Class, Class64, Class32
<1>3. pos' % Class(opts.arch).word = 0
  BY <1>1, <1>2, AlignUpLemma DEF LInv, Types
<1>4. QED
  BY <1>1, <1>3 DEF InOrder

\* Where a section is written: at its offset, behind all that was written.
LEMMA WriteAt ==
  ASSUME IInv, LInv, WriteSection, HasBytes(descs[i])
  PROVE  /\ descs[i].off \in Nat /\ descs[i].size \in Nat \ {0} /\ out.len <= descs[i].off
         /\ out' = [len |-> descs[i].off + descs[i].size,
                    chunks |-> Append(out.chunks, [at |-> descs[i].off, size |-> descs[i].size,
                                                   data |-> descs[i].data])]
<1> DEFINE d == descs[i]
<1>1. pc = "write" /\ i \in 2 .. Len(descs) /\ out.len \in Nat
  BY DEF WriteSection, LInv, Counted, Types, IInv, TypeOK
<1>2. d.off \in Nat /\ d.size \in Nat \ {0}
  <2>1. DescsOK(descs) /\ i \in 1 .. Len(descs)
    BY <1>1 DEF LInv, Types
  <2>2. d.off \in Nat /\ d.size \in Nat
    BY <2>1, DescFields
  <2>3. QED
    BY <2>2 DEF HasBytes
<1>3. out.len <= d.off
  BY <1>1 DEF LInv, WrittenWhereLaidOut, Placed, IInv, TypeOK
<1>4. PadTo(out.len, d.off) = d.off
  BY <1>1, <1>2, <1>3 DEF PadTo
<1>5. QED
  BY <1>2, <1>3, <1>4 DEF WriteSection

LEMMA WriteSectionOrder == ASSUME IInv, LInv, InOrder, WriteSection PROVE InOrder'
<1>1. pc = "write" /\ pc' = "write" /\ UNCHANGED <<opts, pos>>
  BY DEF WriteSection, file
<1>2. CASE ~HasBytes(descs[i])
  BY <1>1, <1>2 DEF WriteSection, InOrder
<1>3. CASE HasBytes(descs[i])
  <2>1. PICK C : out \in [len : Nat, chunks : Seq(C)]
    BY DEF LInv, Types
  <2>2. PICK at, size, chunk :
          /\ at \in Nat /\ size \in Nat \ {0}
          /\ out.len <= at /\ chunk.at = at /\ chunk.size = size
          /\ out'.len = at + size /\ out'.chunks = Append(out.chunks, chunk)
    BY <1>3, WriteAt
  <2>3. PICK b \in Nat : b = Len(out.chunks) /\ DOMAIN out.chunks = 1 .. b
    BY <2>1
  <2>4. /\ DOMAIN out'.chunks = 1 .. b + 1 /\ out'.chunks[b + 1] = chunk
        /\ \A c \in 1 .. b : out'.chunks[c] = out.chunks[c]
    BY <2>1, <2>2, <2>3
  <2>5. /\ pos % Class(opts.arch).word = 0
        /\ \A c \in 1 .. b :
             /\ out.chunks[c].at \in Nat /\ out.chunks[c].size \in Nat \ {0}
             /\ out.chunks[c].at + out.chunks[c].size <= out.len
             /\ \A d \in 1 .. b :
                  c < d => out.chunks[c].at + out.chunks[c].size <= out.chunks[d].at
    BY <1>1, <2>3 DEF InOrder
  <2>6. out.len \in Nat /\ out'.len \in Nat /\ out.len <= out'.len
    BY <2>1, <2>2
  <2>7. ASSUME NEW c \in 1 .. b + 1
        PROVE  /\ out'.chunks[c].at \in Nat /\ out'.chunks[c].size \in Nat \ {0}
               /\ out'.chunks[c].at + out'.chunks[c].size <= out'.len
               /\ \A d \in 1 .. b + 1 :
                    c < d => out'.chunks[c].at + out'.chunks[c].size <= out'.chunks[d].at
    <3>1. CASE c = b + 1
      BY <2>2, <2>4, <3>1
    <3>2. CASE c \in 1 .. b
      <4>1. out'.chunks[c] = out.chunks[c]
        BY <2>4, <3>2
      <4>2. /\ out.chunks[c].at \in Nat /\ out.chunks[c].size \in Nat \ {0}
            /\ out.chunks[c].at + out.chunks[c].size <= out.len
        BY <2>5, <3>2
      <4>3. /\ out.chunks[c].at + out.chunks[c].size <= out'.len
            /\ out.chunks[c].at + out.chunks[c].size <= at
        <5>1. PICK e \in Nat : e = out.chunks[c].at + out.chunks[c].size
          BY <4>2
        <5>2. e <= out.len
          BY <4>2, <5>1
        <5>3. e <= at /\ e <= out'.len
          BY <2>2, <2>6, <5>2
        <5>4. QED
          BY <5>1, <5>3
      <4>4. ASSUME NEW d \in 1 .. b + 1, c < d
            PROVE  out.chunks[c].at + out.chunks[c].size <= out'.chunks[d].at
        <5>1. CASE d = b + 1
          BY <2>2, <2>4, <4>3, <5>1
        <5>2. CASE d \in 1 .. b
          BY <2>4, <2>5, <3>2, <4>4, <5>2
        <5>3. QED
          BY <5>1, <5>2
      <4>5. QED
        BY <4>1, <4>2, <4>3, <4>4
    <3>3. QED
      BY <3>1, <3>2
  <2>8. QED
    BY <1>1, <2>4, <2>5, <2>7 DEF InOrder
<1>4. QED
  BY <1>2, <1>3

LEMMA InOrderStep == IInv /\ LInv /\ InOrder /\ [Next]_vars => InOrder'
<1> SUFFICES ASSUME IInv, LInv, InOrder, [Next]_vars PROVE InOrder'
  OBVIOUS
<1>1. CASE LayoutDone
  BY <1>1, LayoutDoneOrder
<1>2. CASE WriteSection
  BY <1>2, WriteSectionOrder
<1>3. CASE UNCHANGED vars
  BY <1>3 DEF InOrder, vars, file, layout
<1>4. CASE pc' # "write"
  BY <1>4 DEF InOrder
<1>5. pc' # "write" \/ LayoutDone \/ WriteSection \/ UNCHANGED vars
  <2>1. CASE Caller
    BY <2>1 DEF Caller, AddSection, SetOSABI, EnableDWARF, EnableGNUStack, SetOption, WriteTo
  <2>2. CASE RelocFails \/ GroupFails \/ Deliver
    BY <2>2 DEF RelocFails, GroupFails, Deliver, Fail, Return
  <2>3. CASE \/ DefineSymbol \/ SkipSymbol \/ SectionSymbolsDone \/ LocalsDone
             \/ GlobalsDone \/ ExternSymbol \/ ExternsDone
    BY <2>3 DEF DefineSymbol, SkipSymbol, SectionSymbolsDone, NextSection, LocalsDone, Goto,
       GlobalsDone, ExternSymbol, ExternsDone
  <2>4. CASE \/ ConvertReloc \/ SectionRelocsDone \/ RelocsDone \/ ContentSection
             \/ ContentDone \/ RelaSection \/ RelaDone \/ GroupSection \/ NoGroup
             \/ TailSections \/ PlaceSection
    BY <2>4 DEF ConvertReloc, SectionRelocsDone, NextSection, RelocsDone, Goto,
       ContentSection, ContentDone, RelaSection, RelaDone, GroupSection, NoGroup,
       TailSections, PlaceSection
  <2>5. QED
    BY <2>1, <2>2, <2>3, <2>4 DEF Next, Build
<1>6. QED
  BY <1>1, <1>2, <1>3, <1>4, <1>5

-----------------------------------------------------------------------------
(***************************************************************************)
(* The descriptors are what they are meant for.                            *)
(***************************************************************************)
\* What the descriptors are made of: no step of phases 3 to 5 changes it.
made == <<opts, sections, relaWork, strtab, symIndex, syms, firstGlobal>>

LEMMA SamePlaces ==
  ASSUME UNCHANGED made
  PROVE  /\ UNCHANGED <<opts, sections, relaWork, strtab, symIndex, syms, firstGlobal>>
         /\ Base' = Base /\ GroupCount' = GroupCount /\ SymtabIdx' = SymtabIdx
         /\ StrtabIdx' = StrtabIdx /\ ShstrtabIdx' = ShstrtabIdx /\ StackCount' = StackCount
  BY DEF made, Base, GroupCount, SymtabIdx, StrtabIdx, ShstrtabIdx, StackCount

LEMMA SameMeant ==
  ASSUME IInv, UNCHANGED made, NEW n \in Nat, n < Base + GroupCount \/ UNCHANGED shstrtab
  PROVE  Meant(n)' = Meant(n)
<1>1. /\ UNCHANGED <<opts, sections, relaWork, strtab, symIndex, syms, firstGlobal>>
      /\ Base' = Base /\ GroupCount' = GroupCount /\ SymtabIdx' = SymtabIdx
      /\ StrtabIdx' = StrtabIdx
  BY SamePlaces
<1>2. \A c : ContentDesc(c)' = ContentDesc(c)
  BY <1>1 DEF ContentDesc
<1>3. \A rw : RelaDesc(rw)' = RelaDesc(rw)
  BY <1>1 DEF RelaDesc
<1>4. \A s : Signatures(s)' = Signatures(s)
  BY <1>1 DEF Signatures
<1>5. \A c : Members(c)' = Members(c)
  BY <1>1 DEF Members
<1>6. \A c : GroupDesc(c)' = GroupDesc(c)
  BY <1>1, <1>4, <1>5 DEF GroupDesc
<1>7. \A c : GroupOf(c)' = GroupOf(c)
  BY <1>1 DEF GroupOf, Groups
<1>8. SymtabDesc' = SymtabDesc /\ StrDesc(<<".strtab">>, strtab.data)' = StrDesc(<<".strtab">>, strtab.data)
  BY <1>1 DEF SymtabDesc, StrDesc
<1>9. NoteDesc' = NoteDesc
  BY DEF NoteDesc
<1>10. CASE n < Base + GroupCount
  BY <1>1, <1>2, <1>3, <1>6, <1>7, <1>10 DEF Meant
<1>11. CASE UNCHANGED shstrtab
  <2>1. StrDesc(<<".shstrtab">>, shstrtab.data)' = StrDesc(<<".shstrtab">>, shstrtab.data)
    BY <1>11 DEF StrDesc
  <2>2. QED
    BY <1>1, <1>2, <1>3, <1>6, <1>7, <1>8, <1>9, <2>1 DEF Meant
<1>12. QED
  BY <1>10, <1>11

\* No descriptor is lost or changed but for its offset, none is added, and
\* the table of names stays.
LEMMA KeepMade ==
  ASSUME IInv, LInv, Made, pc \in Phase3, UNCHANGED <<made, shstrtab>>,
         Len(descs') = Len(descs),
         \A n \in 1 .. Len(descs) : Like(descs'[n], descs[n])
  PROVE  Made'
<1>1. Len(descs) \in Nat
  BY DEF LInv, Types, DescsOK
<1>2. ASSUME NEW n \in 1 .. Len(descs) - 1
      PROVE  /\ Like(descs'[n + 1], Meant(n)')
             /\ descs'[n + 1].name \in DOMAIN shstrtab'.offsets
  <2>1. n \in Nat /\ n + 1 \in 1 .. Len(descs)
    BY <1>1
  <2>2. Like(descs'[n + 1], descs[n + 1]) /\ Meant(n)' = Meant(n)
    BY <2>1, SameMeant
  <2>3. Like(descs[n + 1], Meant(n)) /\ descs[n + 1].name \in DOMAIN shstrtab.offsets
    BY DEF Made
  <2>4. QED
    BY <2>2, <2>3 DEF Like
<1>3. QED
  BY <1>2 DEF Made, Like

\* A descriptor goes to the end, and its name into the table.
LEMMA AddMade ==
  ASSUME IInv, LInv, Made, pc \in Phase3, UNCHANGED made,
         NEW d, IsDesc(d), d.name \in Name, AddDesc(d),
         Like(d, Meant(Len(descs))), Len(descs) < Base + GroupCount
  PROVE  Made'
<1>1. /\ Len(descs) \in Nat /\ Len(descs') = Len(descs) + 1
      /\ \A n \in 1 .. Len(descs) : descs'[n] = descs[n]
      /\ descs'[Len(descs) + 1] = d
  BY AppendDesc DEF LInv, Types, AddDesc
<1>2. DOMAIN shstrtab'.offsets = DOMAIN shstrtab.offsets \cup {d.name}
  BY InternLemma DEF AddDesc, IInv, TypeOK
<1>3. Base + GroupCount \in Nat
  BY IndexPlaces
<1>4. ASSUME NEW n \in 1 .. Len(descs)
      PROVE  /\ Like(descs'[n + 1], Meant(n)')
             /\ descs'[n + 1].name \in DOMAIN shstrtab'.offsets
  <2>1. Meant(n)' = Meant(n)
    <3>1. n \in Nat /\ n < Base + GroupCount
      BY <1>1, <1>3
    <3>2. QED
      BY <3>1, SameMeant
  <2>2. CASE n = Len(descs)
    BY <1>1, <1>2, <2>1, <2>2
  <2>3. CASE n < Len(descs)
    <3>1. n \in 1 .. Len(descs) - 1 /\ n + 1 \in 1 .. Len(descs)
      BY <1>1, <2>3
    <3>2. Like(descs[n + 1], Meant(n)) /\ descs[n + 1].name \in DOMAIN shstrtab.offsets
      BY <3>1 DEF Made
    <3>3. QED
      BY <1>1, <1>2, <2>1, <3>1, <3>2
  <2>4. QED
    BY <1>1, <2>2, <2>3
<1>5. Len(descs') - 1 = Len(descs)
  BY <1>1
<1>6. QED
  BY <1>4, <1>5 DEF Made, Like

LEMMA ContentMade == ASSUME IInv, LInv, Made, ContentSection PROVE Made'
<1>1. /\ pc = "content" /\ i \in 1 .. Len(sections) /\ AddDesc(ContentDesc(i))
      /\ UNCHANGED made /\ Len(descs) = i
  BY DEF ContentSection, file, relocs, tables, made, IInv, TypeOK, LInv, Counted
<1>2. IsDesc(ContentDesc(i))
  BY <1>1, ContentDescLemma DEF IInv
<1>3. ContentDesc(i).name \in Name
  <2>1. SectionName(sections[i]) \in Name
    BY <1>1, SectionType, SectionNameType DEF IInv
  <2>2. QED
    BY <2>1 DEF ContentDesc, NullDesc
<1>4. Like(ContentDesc(i), Meant(i))
  BY <1>1 DEF Like, Meant
<1>5. i < Base + GroupCount
  BY <1>1, IndexPlaces DEF Base
<1>6. QED
  BY <1>1, <1>2, <1>3, <1>4, <1>5, AddMade DEF Phase3

LEMMA RelaMade == ASSUME IInv, LInv, Made, RelaSection PROVE Made'
<1>1. /\ pc = "rela" /\ i \in 1 .. Len(relaWork) /\ AddDesc(RelaDesc(relaWork[i]))
      /\ UNCHANGED made /\ Len(descs) = Len(sections) + i
  BY DEF RelaSection, file, relocs, tables, made, IInv, TypeOK, LInv, Counted
<1>2. IsDesc(RelaDesc(relaWork[i]))
  BY <1>1, RelaDescLemma DEF IInv
<1>3. RelaDesc(relaWork[i]).name \in Name
  <2>1. relaWork[i].content \in 1 .. Len(sections)
    BY <1>1, IndexPlaces DEF IInv, RelasSound
  <2>2. RelaName(sections[relaWork[i].content]) \in Name
    BY <2>1, SectionType, RelaNameType DEF IInv
  <2>3. QED
    BY <2>2 DEF RelaDesc, NullDesc
<1>4. PICK n \in Nat : n = Len(descs) /\ n = Len(sections) + i
  BY <1>1, IndexPlaces
<1>5. ~(n <= Len(sections)) /\ n < Base /\ n - Len(sections) = i /\ n < Base + GroupCount
  BY <1>1, <1>4, IndexPlaces DEF Base
<1>6. Meant(n) = RelaDesc(relaWork[i])
  BY <1>5 DEF Meant
<1>7. QED
  BY <1>1, <1>2, <1>3, <1>4, <1>5, <1>6, AddMade DEF Phase3, Like

LEMMA GroupMade == ASSUME IInv, LInv, Made, GroupSection PROVE Made'
<1>1. /\ pc = "group" /\ i \in DOMAIN sections /\ AddDesc(GroupDesc(i))
      /\ sections[i].linkOnce /\ UNCHANGED made
      /\ Len(descs) = Base + Cardinality(Groups(i))
  BY DEF GroupSection, file, relocs, tables, made, IInv, TypeOK, LInv, Counted, Base
<1>2. /\ Cardinality(Groups(i)) \in Nat /\ Cardinality(Groups(i)) < GroupCount
      /\ GroupOf(Cardinality(Groups(i))) = i
  BY <1>1, GroupPlace DEF IInv
<1>3. PICK g \in Nat : g = Cardinality(Groups(i))
  BY <1>2
<1>4. PICK n \in Nat : n = Len(descs) /\ n = Base + g
  BY <1>1, <1>3, IndexPlaces
<1>5. ~(n <= Len(sections)) /\ ~(n < Base) /\ n < Base + GroupCount /\ n - Base = g
  BY <1>2, <1>3, <1>4, IndexPlaces DEF Base
<1>6. Meant(n) = GroupDesc(i)
  BY <1>2, <1>3, <1>5 DEF Meant
<1>7. GroupDesc(i).name \in Name
  <2>1. <<".group">> \in Name
    BY FixedNamesAssumption DEF TailNames
  <2>2. QED
    BY <2>1 DEF GroupDesc, NullDesc
<1>8. QED
  BY <1>1, <1>4, <1>5, <1>6, <1>7, GroupDescLemma, AddMade DEF Phase3, Like

\* The last descriptors, and the table of names as the last of them holds it.
LEMMA TailMade == ASSUME IInv, LInv, Made, TailSections PROVE Made'
<1>1. /\ pc = "group" /\ pc' = "layout" /\ i > Len(sections)
      /\ descs' = descs \o TailDescs /\ shstrtab' = TailShstrtab /\ UNCHANGED made
  BY DEF TailSections, file, relocs, tables, made
<1>2. PICK b \in Nat : b = Base + GroupCount
  BY IndexPlaces
<1>3. Len(descs) = b
  <2>1. /\ i <= Len(sections) + 1 /\ i \in Nat
        /\ Len(descs) = Base + Cardinality(Groups(i))
    BY <1>1 DEF LInv, Counted, IInv, TypeOK, Base
  <2>2. Groups(i) = {n \in DOMAIN sections : sections[n].linkOnce}
    BY <1>1, <2>1, IndexPlaces DEF Groups
  <2>3. QED
    BY <1>2, <2>1, <2>2 DEF GroupCount
<1>4. PICK g \in {0, 1} : g = StackCount /\ (opts.gnuStack <=> g = 1)
  BY IndexPlaces
<1>5. SymtabIdx = b + g /\ StrtabIdx = b + g + 1 /\ ShstrtabIdx = b + g + 2
  BY <1>2, <1>4, IndexPlaces
<1>6. DescsOK(descs) /\ DescsOK(TailDescs) /\ Len(TailDescs) = g + 3
  BY <1>4, TailDescsLemma DEF LInv, Types, IInv
<1>7. /\ Len(descs') = b + g + 3
      /\ \A n \in 1 .. b : descs'[n] = descs[n]
      /\ \A n \in 1 .. g + 3 : descs'[b + n] = TailDescs[n]
  BY <1>1, <1>3, <1>4, <1>6, JoinDescs
<1>8. /\ TailDescs[g + 1] = SymtabDesc
      /\ TailDescs[g + 2] = StrDesc(<<".strtab">>, strtab.data)
      /\ TailDescs[g + 3] = StrDesc(<<".shstrtab">>, TailShstrtab.data)
      /\ g = 1 => TailDescs[1] = NoteDesc
  <2>1. CASE g = 1
    <3>1. TailDescs = <<NoteDesc>> \o <<SymtabDesc, StrDesc(<<".strtab">>, strtab.data),
                                        StrDesc(<<".shstrtab">>, TailShstrtab.data)>>
      BY <1>4, <2>1 DEF TailDescs, NoteDesc, SymtabDesc
    <3>2. QED
      BY <2>1, <3>1
  <2>2. CASE g = 0
    <3>1. TailDescs = << >> \o <<SymtabDesc, StrDesc(<<".strtab">>, strtab.data),
                                 StrDesc(<<".shstrtab">>, TailShstrtab.data)>>
      <4>1. ~opts.gnuStack
        BY <1>4, <2>2
      <4>2. QED
        BY <4>1 DEF TailDescs, SymtabDesc
    <3>2. QED
      BY <2>2, <3>1
  <2>3. QED
    BY <1>4, <2>1, <2>2
<1>9. /\ DOMAIN shstrtab.offsets \subseteq DOMAIN TailShstrtab.offsets
      /\ {<<".symtab">>, <<".strtab">>, <<".shstrtab">>} \subseteq DOMAIN TailShstrtab.offsets
      /\ g = 1 => <<".note.GNU-stack">> \in DOMAIN TailShstrtab.offsets
  <2> DEFINE t1 == IF opts.gnuStack THEN Intern(shstrtab, <<".note.GNU-stack">>) ELSE shstrtab
             t2 == Intern(t1, <<".symtab">>)
             t3 == Intern(t2, <<".strtab">>)
  <2>1. \A t, n : StrTabOK(t) /\ n \in TailNames =>
          /\ StrTabOK(Intern(t, n))
          /\ DOMAIN Intern(t, n).offsets = DOMAIN t.offsets \cup {n}
    BY FixedNamesAssumption, InternLemma
  <2>2. /\ StrTabOK(t1) /\ DOMAIN shstrtab.offsets \subseteq DOMAIN t1.offsets
        /\ g = 1 => <<".note.GNU-stack">> \in DOMAIN t1.offsets
    BY <1>4, <2>1 DEF IInv, TypeOK, TailNames
  <2>3. TailShstrtab = Intern(t3, <<".shstrtab">>)
    BY DEF TailShstrtab
  <2> HIDE DEF t1
  <2>4. StrTabOK(t2) /\ DOMAIN t2.offsets = DOMAIN t1.offsets \cup {<<".symtab">>}
    BY <2>1, <2>2 DEF TailNames
  <2> HIDE DEF t2
  <2>5. StrTabOK(t3) /\ DOMAIN t3.offsets = DOMAIN t2.offsets \cup {<<".strtab">>}
    BY <2>1, <2>4 DEF TailNames
  <2> HIDE DEF t3
  <2>6. DOMAIN TailShstrtab.offsets = DOMAIN t3.offsets \cup {<<".shstrtab">>}
    BY <2>1, <2>3, <2>5 DEF TailNames
  <2>7. QED
    BY <2>2, <2>4, <2>5, <2>6
<1>10. \A d : Like(d, d)
  BY DEF Like
<1>11. /\ NoteDesc.name = <<".note.GNU-stack">> /\ SymtabDesc.name = <<".symtab">>
       /\ \A data : /\ StrDesc(<<".strtab">>, data).name = <<".strtab">>
                    /\ StrDesc(<<".shstrtab">>, data).name = <<".shstrtab">>
  BY DEF NoteDesc, SymtabDesc, StrDesc, NullDesc
<1>12. ASSUME NEW n \in 1 .. b - 1
       PROVE  Like(descs'[n + 1], Meant(n)') /\ descs'[n + 1].name \in DOMAIN shstrtab'.offsets
  <2>1. n \in Nat /\ n < b /\ n + 1 \in 1 .. b
    BY <1>2
  <2>2. Meant(n)' = Meant(n)
    BY <1>1, <1>2, <2>1, SameMeant
  <2>3. Like(descs[n + 1], Meant(n)) /\ descs[n + 1].name \in DOMAIN shstrtab.offsets
    BY <1>1, <1>3 DEF Made, Phase3
  <2>4. QED
    BY <1>1, <1>7, <1>9, <2>1, <2>2, <2>3
<1>13. ASSUME NEW n \in b .. b + g + 2
       PROVE  Like(descs'[n + 1], Meant(n)') /\ descs'[n + 1].name \in DOMAIN shstrtab'.offsets
  <2>1. /\ Base' = Base /\ GroupCount' = GroupCount /\ SymtabIdx' = b + g
        /\ StrtabIdx' = b + g + 1 /\ UNCHANGED <<strtab, sections>>
    BY <1>1, <1>5, SamePlaces
  <2>2. ~(n <= Len(sections)) /\ ~(n < Base) /\ ~(n < Base + GroupCount)
    <3>1. Len(sections) \in Nat /\ Base \in Nat /\ Len(sections) < Base
      BY IndexPlaces DEF Base
    <3>2. GroupCount \in Nat /\ b <= n
      BY IndexPlaces
    <3>3. QED
      BY <1>2, <3>1, <3>2
  <2>3. SymtabDesc' = SymtabDesc
    BY <1>1, SamePlaces DEF SymtabDesc
  <2>9. /\ n = b + g => descs'[n + 1] = TailDescs[g + 1]
        /\ n = b + g + 1 => descs'[n + 1] = TailDescs[g + 2]
        /\ n = b + g + 2 => descs'[n + 1] = TailDescs[g + 3]
    <3>1. b \in Nat /\ g \in Nat
      BY <1>4
    <3>2. g + 1 \in 1 .. g + 3 /\ g + 2 \in 1 .. g + 3 /\ g + 3 \in 1 .. g + 3
      BY <3>1
    <3>3. /\ descs'[b + (g + 1)] = TailDescs[g + 1]
          /\ descs'[b + (g + 2)] = TailDescs[g + 2]
          /\ descs'[b + (g + 3)] = TailDescs[g + 3]
      BY <1>7, <3>2
    <3>4. /\ b + g + 1 = b + (g + 1) /\ b + g + 1 + 1 = b + (g + 2)
          /\ b + g + 2 + 1 = b + (g + 3)
      BY <3>1
    <3>5. QED
      BY <3>3, <3>4
  <2>4. CASE n < b + g
    <3>1. g = 1 /\ n = b
      BY <1>2, <1>4, <2>4
    <3>2. Meant(n)' = NoteDesc
      <4>1. NoteDesc' = NoteDesc
        BY DEF NoteDesc
      <4>2. Meant(n)' = NoteDesc'
        BY <2>1, <2>2, <2>4 DEF Meant
      <4>3. QED
        BY <4>1, <4>2
    <3>3. descs'[n + 1] = NoteDesc
      <4>1. 1 \in 1 .. g + 3
        BY <3>1
      <4>2. descs'[b + 1] = TailDescs[1]
        BY <1>7, <4>1
      <4>3. QED
        BY <1>8, <3>1, <4>2
    <3>4. QED
      BY <1>1, <1>9, <1>10, <1>11, <3>1, <3>2, <3>3
  <2>5. CASE n = b + g
    <3>1. Meant(n)' = SymtabDesc
      BY <2>1, <2>2, <2>3, <2>5 DEF Meant
    <3>2. descs'[n + 1] = SymtabDesc
      BY <1>8, <2>5, <2>9
    <3>3. QED
      BY <1>1, <1>9, <1>10, <1>11, <3>1, <3>2
  <2>6. CASE n = b + g + 1
    <3>1. Meant(n)' = StrDesc(<<".strtab">>, strtab.data)
      BY <1>4, <2>1, <2>2, <2>6 DEF Meant, StrDesc
    <3>2. descs'[n + 1] = StrDesc(<<".strtab">>, strtab.data)
      BY <1>8, <2>6, <2>9
    <3>3. QED
      BY <1>1, <1>9, <1>10, <1>11, <3>1, <3>2
  <2>7. CASE n = b + g + 2
    <3>1. Meant(n)' = StrDesc(<<".shstrtab">>, TailShstrtab.data)
      BY <1>1, <1>4, <2>1, <2>2, <2>7 DEF Meant, StrDesc
    <3>2. descs'[n + 1] = StrDesc(<<".shstrtab">>, TailShstrtab.data)
      BY <1>8, <2>7, <2>9
    <3>3. QED
      BY <1>1, <1>9, <1>10, <1>11, <3>1, <3>2
  <2>8. QED
    BY <1>4, <2>4, <2>5, <2>6, <2>7
<1>14. \A n \in 1 .. Len(descs') - 1 : n \in 1 .. b - 1 \/ n \in b .. b + g + 2
  BY <1>4, <1>7
<1>15. QED
  BY <1>12, <1>13, <1>14 DEF Made, Like

\* PlaceSection changes the offset of one descriptor.
LEMMA PlaceKeeps ==
  ASSUME LInv, IInv, PlaceSection
  PROVE  /\ Len(descs') = Len(descs)
         /\ \A n \in 1 .. Len(descs) : Like(descs'[n], descs[n])
<1>1. i \in 1 .. Len(descs)
  BY DEF PlaceSection, IInv, TypeOK
<1>2. PICK D : descs \in Seq(DescOf(D))
  BY DEF LInv, Types, DescsOK
<1>3. PICK at : descs' = [descs EXCEPT ![i].off = at]
  BY DEF PlaceSection
<1>4. descs[i] \in DescOf(D)
  BY <1>1, <1>2
<1>5. Like([descs[i] EXCEPT !.off = at], descs[i])
  BY <1>4 DEF DescOf, Like
<1>6. /\ Len(descs') = Len(descs)
      /\ \A n \in 1 .. Len(descs) :
           descs'[n] = IF n = i THEN [descs[i] EXCEPT !.off = at] ELSE descs[n]
  BY <1>1, <1>2, <1>3
<1>7. \A d : Like(d, d)
  BY DEF Like
<1>8. QED
  BY <1>5, <1>6, <1>7

LEMMA MadeStep == IInv /\ LInv /\ Made /\ [Next]_vars => Made'
<1> SUFFICES ASSUME IInv, LInv, Made, [Next]_vars PROVE Made'
  OBVIOUS
<1>1. CASE ContentSection
  BY <1>1, ContentMade
<1>2. CASE RelaSection
  BY <1>2, RelaMade
<1>3. CASE GroupSection
  BY <1>3, GroupMade
<1>4. CASE TailSections
  BY <1>4, TailMade
<1>5. CASE PlaceSection
  <2>1. pc \in Phase3 /\ UNCHANGED <<made, shstrtab>>
    BY <1>5 DEF PlaceSection, file, tables, relocs, made, Phase3
  <2>2. QED
    BY <1>5, <2>1, PlaceKeeps, KeepMade
<1>6. CASE ContentDone \/ RelaDone \/ NoGroup \/ LayoutDone \/ WriteSection
  <2>1. pc \in Phase3 /\ UNCHANGED <<made, shstrtab, descs>>
    BY <1>6 DEF ContentDone, RelaDone, NoGroup, LayoutDone, WriteSection, Goto, file, tables,
       relocs, layout, made, Phase3
  <2>2. \A d : Like(d, d)
    BY DEF Like
  <2>3. QED
    BY <2>1, <2>2, KeepMade
<1>7. CASE UNCHANGED vars
  <2>1. UNCHANGED <<pc, made, shstrtab, descs>>
    BY <1>7 DEF vars, file, tables, relocs, layout, made
  <2>2. \A d : Like(d, d)
    BY DEF Like
  <2>3. CASE pc \in Phase3
    BY <2>1, <2>2, <2>3, KeepMade
  <2>4. CASE pc \notin Phase3
    BY <2>1, <2>4 DEF Made
  <2>5. QED
    BY <2>3, <2>4
<1>8. CASE RelocsDone
  <2>1. descs' = <<NullDesc>>
    BY <1>8 DEF RelocsDone
  <2>2. 1 .. Len(descs') - 1 = {}
    BY <2>1
  <2>3. QED
    BY <2>2 DEF Made
<1>9. CASE pc' \notin Phase3
  BY <1>9 DEF Made
<1>10. \/ pc' \notin Phase3 \/ RelocsDone \/ UNCHANGED vars
       \/ ContentSection \/ RelaSection \/ GroupSection \/ TailSections \/ PlaceSection
       \/ ContentDone \/ RelaDone \/ NoGroup \/ LayoutDone \/ WriteSection
  <2> USE DEF Phase3
  <2>1. CASE Caller
    BY <2>1 DEF Caller, AddSection, SetOSABI, EnableDWARF, EnableGNUStack, SetOption, WriteTo
  <2>2. CASE RelocFails \/ GroupFails \/ Deliver
    BY <2>2 DEF RelocFails, GroupFails, Deliver, Fail, Return
  <2>3. CASE \/ DefineSymbol \/ SkipSymbol \/ SectionSymbolsDone \/ LocalsDone
             \/ GlobalsDone \/ ExternSymbol \/ ExternsDone
    BY <2>3 DEF DefineSymbol, SkipSymbol, SectionSymbolsDone, NextSection, LocalsDone, Goto,
       GlobalsDone, ExternSymbol, ExternsDone
  <2>4. CASE ConvertReloc \/ SectionRelocsDone
    BY <2>4 DEF ConvertReloc, SectionRelocsDone, NextSection
  <2>5. QED
    BY <2>1, <2>2, <2>3, <2>4 DEF Next, Build
<1>11. QED
  BY <1>1, <1>2, <1>3, <1>4, <1>5, <1>6, <1>7, <1>8, <1>9, <1>10

-----------------------------------------------------------------------------
(***************************************************************************)
(* The image.                                                              *)
(***************************************************************************)
\* A size or an offset that fits its field is stored as it is.
LEMMA SizeKeeps ==
  ASSUME NEW arch, NEW x \in Nat, Is64(arch) \/ x < 2 * Half32
  PROVE  Size(arch, x) = x
<1>1. CASE Is64(arch)
  BY <1>1 DEF Size
<1>2. CASE ~Is64(arch)
  <2>1. PICK w \in Nat : w = 2 * Half32 /\ x < w
    BY <1>2, BoundsAssumption
  <2>2. x % w = x
    BY <2>1
  <2>3. QED
    BY <1>2, <2>1, <2>2 DEF Size, Uint32
<1>3. QED
  BY <1>1, <1>2

\* No two chunks are at the same place.
LEMMA OneChunk ==
  ASSUME LInv, InOrder, pc = "write", NEW c \in DOMAIN out.chunks, NEW d \in DOMAIN out.chunks,
         out.chunks[c].at = out.chunks[d].at
  PROVE  c = d
<1>1. \A a, b \in DOMAIN out.chunks : a < b => out.chunks[a].at # out.chunks[b].at
  <2> SUFFICES ASSUME NEW a \in DOMAIN out.chunks, NEW b \in DOMAIN out.chunks, a < b
               PROVE  out.chunks[a].at # out.chunks[b].at
    OBVIOUS
  <2>1. /\ out.chunks[a].at \in Nat /\ out.chunks[a].size \in Nat \ {0}
        /\ out.chunks[a].at + out.chunks[a].size <= out.chunks[b].at
    BY DEF InOrder
  <2>2. QED
    BY <2>1
<1>2. c \in Nat /\ d \in Nat
  <2>1. PICK C : out \in [len : Nat, chunks : Seq(C)]
    BY DEF LInv, Types
  <2>2. QED
    BY <2>1
<1>3. QED
  BY <1>1, <1>2

\* When the loop over the descriptors is done, each that has bytes has them
\* where the layout said.
LEMMA AllWritten ==
  ASSUME IInv, LInv, Deliver, NEW n \in 2 .. Len(descs), HasBytes(descs[n])
  PROVE  /\ descs[n].off \in Nat /\ descs[n].size \in Nat /\ descs[n].size > 0
         /\ Class(opts.arch).ehdr <= descs[n].off /\ descs[n].off + descs[n].size <= pos
         /\ descs[n].align > 1 => descs[n].off % descs[n].align = 0
         /\ \A m \in 2 .. Len(descs) : HasBytes(descs[m]) /\ m < n =>
              descs[m].off + descs[m].size <= descs[n].off
         /\ \E c \in DOMAIN out.chunks :
              /\ out.chunks[c].at = descs[n].off
              /\ out.chunks[c].size = descs[n].size
              /\ out.chunks[c].data = descs[n].data
<1>1. pc = "write" /\ i > Len(descs) /\ i \in Nat /\ Len(descs) \in Nat
  BY DEF Deliver, IInv, TypeOK, LInv, Types, DescsOK
<1>2. Placed = {m \in 2 .. Len(descs) : HasBytes(descs[m])}
  BY <1>1 DEF Placed
<1>3. n \in Placed /\ ~(n >= i)
  BY <1>1, <1>2
<1>4. descs[n].off \in Nat /\ descs[n].size \in Nat
  <2>1. n \in 1 .. Len(descs) /\ DescsOK(descs)
    BY <1>1 DEF LInv, Types
  <2>2. QED
    BY <2>1, DescFields
<1>5. descs[n].size > 0
  BY DEF HasBytes
<1>6. WrittenWhereLaidOut
  BY DEF LInv
<1>7. /\ Class(opts.arch).ehdr <= descs[n].off /\ descs[n].off + descs[n].size <= pos
      /\ descs[n].align > 1 => descs[n].off % descs[n].align = 0
      /\ \A m \in Placed : m < n => descs[m].off + descs[m].size <= descs[n].off
  BY <1>1, <1>3, <1>6 DEF WrittenWhereLaidOut
<1>8. \E c \in DOMAIN out.chunks :
        /\ out.chunks[c].at = descs[n].off
        /\ out.chunks[c].size = descs[n].size
        /\ out.chunks[c].data = descs[n].data
  BY <1>1, <1>3, <1>6 DEF WrittenWhereLaidOut
<1>9. QED
  BY <1>2, <1>4, <1>5, <1>7, <1>8

LEMMA DescsCounted ==
  ASSUME IInv, LInv, pc \in {"layout", "write"}
  PROVE  Len(descs) = SymtabIdx + 3 /\ SymtabIdx \in Nat /\ SymtabIdx >= 1
<1>1. Len(descs) = ShstrtabIdx + 1
  BY DEF LInv, IndicesHit
<1>2. Base >= 1
  BY IndexPlaces DEF Base
<1>3. QED
  BY <1>1, <1>2, IndexPlaces

\* The headers of the image are those of the descriptors.
LEMMA ImageHeaders ==
  ASSUME IInv, LInv, Made, Deliver, NEW s \in Nat, s = SymtabIdx
  PROVE  /\ img' = Image /\ added' = sections /\ last'.input.opts = opts /\ Built'
         /\ Len(descs) = s + 3 /\ Len(img'.shdrs) = s + 3 /\ Indices' = 1 .. s + 2
         /\ \A n \in 1 .. s + 2 :
              /\ Shdr(n)' = Header(descs[n + 1])
              /\ Like(descs[n + 1], Meant(n))
              /\ Meant(n).name \in DOMAIN shstrtab.offsets
<1>1. /\ pc = "write" /\ last'.image = Image /\ last'.input = Input
      /\ last'.status = "built"
  BY DEF Deliver, Return
<1>2. /\ img' = Image /\ added' = sections /\ last'.input.opts = opts /\ Built'
  BY <1>1 DEF img, added, Input, Built
<1>3. Len(descs) = s + 3
  BY <1>1, DescsCounted
<1>4. Image.shdrs = [n \in 1 .. s + 3 |-> Header(descs[n])]
  BY <1>3 DEF Image
<1>5. Len(img'.shdrs) = s + 3
  BY <1>2, <1>4
<1>6. Indices' = 1 .. s + 2
  BY <1>5 DEF Indices
<1>7. ASSUME NEW n \in 1 .. s + 2
      PROVE  /\ Shdr(n)' = Header(descs[n + 1])
             /\ Like(descs[n + 1], Meant(n))
             /\ Meant(n).name \in DOMAIN shstrtab.offsets
  <2>1. img'.shdrs[n + 1] = Header(descs[n + 1])
    BY <1>2, <1>4
  <2>2. n \in 1 .. Len(descs) - 1
    BY <1>3
  <2>3. Like(descs[n + 1], Meant(n)) /\ descs[n + 1].name \in DOMAIN shstrtab.offsets
    BY <1>1, <2>2 DEF Made, Phase3
  <2>4. QED
    BY <2>1, <2>3 DEF Shdr, Like
<1>8. QED
  BY <1>2, <1>3, <1>5, <1>6, <1>7

LEMMA ShdrFields ==
  ASSUME IInv, LInv, Made, Deliver, NEW s \in Nat, s = SymtabIdx, NEW n \in 1 .. s + 2
  PROVE  /\ Shdr(n)'.type = Meant(n).type /\ Shdr(n)'.link = Meant(n).link
         /\ Shdr(n)'.info = Meant(n).info /\ Shdr(n)'.align = Meant(n).align
         /\ Shdr(n)'.name = shstrtab.offsets[Meant(n).name]
<1>1. /\ Shdr(n)' = Header(descs[n + 1]) /\ Like(descs[n + 1], Meant(n))
      /\ Meant(n).name \in DOMAIN shstrtab.offsets
  BY ImageHeaders
<1>2. QED
  BY <1>1 DEF Header, Like, Lookup

\* Nothing of a short file is cut off.
LEMMA ShortFile ==
  ASSUME IInv, LInv, Deliver, FewBytes', NEW x \in Nat, x <= pos
  PROVE  Size(opts.arch, x) = x /\ img'.shdrsAt = pos
<1>1. img'.arch = opts.arch /\ img'.shdrsAt = PadTo(out.len, pos)
  BY DEF Deliver, Return, img, Image
<1>2. pc = "write" /\ out.len <= pos /\ out.len \in Nat /\ pos \in Nat
  BY DEF Deliver, LInv, WrittenWhereLaidOut, Types
<1>3. PadTo(out.len, pos) = pos
  BY <1>2 DEF PadTo
<1>4. Is64(opts.arch) \/ pos < 2 * Half32
  <2>1. Is64(img'.arch) \/ img'.shdrsAt < 2 * Half32
    BY DEF FewBytes, Is64
  <2>2. QED
    BY <1>1, <1>3, <2>1
<1>5. Is64(opts.arch) \/ x < 2 * Half32
  <2>1. PICK w \in Nat : w = 2 * Half32
    BY BoundsAssumption
  <2>2. QED
    BY <1>2, <1>4, <2>1
<1>6. QED
  BY <1>1, <1>3, <1>5, SizeKeeps

\* What is at the offset of a header.
LEMMA ShdrBytes ==
  ASSUME IInv, LInv, Made, InOrder, Deliver, FewBytes', NEW s \in Nat, s = SymtabIdx,
         NEW n \in 1 .. s + 2, Meant(n).type # "NOBITS"
  PROVE  /\ Shdr(n)'.size = Meant(n).size /\ Meant(n).size \in Nat
         /\ Meant(n).size > 0 =>
              /\ HasBytes(descs[n + 1]) /\ Shdr(n)'.off = descs[n + 1].off
              /\ descs[n + 1].size = Meant(n).size
              /\ \E c : ChunksOf(Shdr(n))' = {c}
              /\ Contents(Shdr(n))' = Meant(n).data
         /\ Meant(n).size = 0 => Contents(Shdr(n))' = << >>
<1> DEFINE d == descs[n + 1]
<1>1. /\ Shdr(n)' = Header(d) /\ Like(d, Meant(n)) /\ Len(descs) = s + 3
      /\ img' = Image
  BY ImageHeaders
<1>2. n + 1 \in 2 .. Len(descs) /\ n + 1 \in 1 .. Len(descs)
  BY <1>1
<1>3. d.size \in Nat /\ d.off \in Nat
  BY <1>2, DescFields DEF LInv, Types
<1>4. d.type # "NOBITS" /\ d.size = Meant(n).size /\ d.data = Meant(n).data
  BY <1>1 DEF Like
<1>5. img'.chunks = out.chunks /\ Shdr(n)'.type # "NOBITS"
  BY <1>1, <1>4 DEF Image, Header
<1>6. ChunksOf(Shdr(n))' = {c \in DOMAIN out.chunks :
        out.chunks[c].at = Shdr(n)'.off /\ out.chunks[c].size = Shdr(n)'.size}
  BY <1>5 DEF ChunksOf
<1>7. pc = "write" /\ 0 \in Nat /\ 0 <= pos
  BY DEF Deliver, LInv, Types
<1>8. CASE d.size > 0
  <2>1. HasBytes(d)
    BY <1>4, <1>8 DEF HasBytes
  <2>2. /\ d.off + d.size <= pos
        /\ \E c \in DOMAIN out.chunks :
             out.chunks[c].at = d.off /\ out.chunks[c].size = d.size /\ out.chunks[c].data = d.data
    BY <1>2, <2>1, AllWritten
  <2>3. PICK c \in DOMAIN out.chunks :
          out.chunks[c].at = d.off /\ out.chunks[c].size = d.size /\ out.chunks[c].data = d.data
    BY <2>2
  <2>4. d.off <= pos /\ d.size <= pos
    BY <1>3, <1>7, <2>2 DEF LInv, Types
  <2>5. Shdr(n)'.off = d.off /\ Shdr(n)'.size = d.size
    <3>1. Size(opts.arch, d.off) = d.off /\ Size(opts.arch, d.size) = d.size
      BY <1>3, <2>4, ShortFile
    <3>2. QED
      BY <1>1, <1>4, <3>1 DEF Header
  <2>6. ChunksOf(Shdr(n))' = {c}
    <3>1. \A b \in DOMAIN out.chunks : out.chunks[b].at = d.off => b = c
      BY <1>7, <2>3, OneChunk
    <3>2. QED
      BY <1>6, <2>3, <2>5, <3>1
  <2>7. Contents(Shdr(n))' = d.data
    <3>1. \A x : x \in {c} => x = c
      OBVIOUS
    <3>2. (CHOOSE x \in ChunksOf(Shdr(n)) : TRUE)' = c
      BY <2>6, <3>1
    <3>3. QED
      BY <1>5, <2>3, <2>6, <3>2 DEF Contents
  <2>8. Meant(n).size \in Nat /\ Meant(n).size # 0
    BY <1>3, <1>4, <1>8
  <2>9. QED
    BY <1>4, <2>1, <2>5, <2>6, <2>7, <2>8
<1>9. CASE d.size = 0
  <2>1. Shdr(n)'.size = 0
    <3>1. Size(opts.arch, 0) = 0
      BY <1>7, ShortFile
    <3>2. QED
      BY <1>1, <1>4, <1>9, <3>1 DEF Header
  <2>2. ChunksOf(Shdr(n))' = {}
    BY <1>6, <1>7, <2>1 DEF InOrder
  <2>3. Contents(Shdr(n))' = << >>
    BY <2>2 DEF Contents
  <2>4. QED
    BY <1>3, <1>4, <1>9, <2>1, <2>3
<1>10. d.size > 0 \/ d.size = 0
  BY <1>3
<1>11. QED
  BY <1>8, <1>9, <1>10

\* The offsets of an image the build delivers.
LEMMA DeliverOffsets == ASSUME IInv, LInv, Made, InOrder, Deliver PROVE OffsetsHonest'
<1>1. PICK s \in Nat : s = SymtabIdx
  BY IndexPlaces
<1>2. img' = Image /\ Indices' = 1 .. s + 2 /\ Len(descs) = s + 3
  BY <1>1, ImageHeaders
<1>3. img'.arch = opts.arch /\ pc = "write" /\ pos \in Nat /\ pos <= pos
  BY <1>2 DEF Image, Deliver, LInv, Types
<1>4. ASSUME FewBytes' PROVE img'.shdrsAt = pos /\ img'.shoff = pos
  <2>1. img'.shdrsAt = pos /\ Size(opts.arch, pos) = pos
    BY <1>3, <1>4, ShortFile
  <2>2. QED
    BY <1>2, <2>1 DEF Image
<1>5. pos % Class(opts.arch).word = 0
  BY <1>3 DEF InOrder
<1>6. ASSUME FewBytes', NEW n \in 1 .. s + 2, Shdr(n)'.type # "NOBITS", Shdr(n)'.size > 0
      PROVE  /\ n + 1 \in 2 .. Len(descs) /\ HasBytes(descs[n + 1])
             /\ Shdr(n)'.off = descs[n + 1].off /\ Shdr(n)'.size = descs[n + 1].size
             /\ Shdr(n)'.align = descs[n + 1].align
             /\ \E c : ChunksOf(Shdr(n))' = {c}
  <2>1. /\ Shdr(n)'.type = Meant(n).type /\ Shdr(n)'.align = Meant(n).align
    BY <1>1, ShdrFields
  <2>2. Like(descs[n + 1], Meant(n))
    BY <1>1, ImageHeaders
  <2>3. Shdr(n)'.size = Meant(n).size
    BY <1>1, <1>6, <2>1, ShdrBytes
  <2>4. /\ HasBytes(descs[n + 1]) /\ Shdr(n)'.off = descs[n + 1].off
        /\ descs[n + 1].size = Meant(n).size
        /\ \E c : ChunksOf(Shdr(n))' = {c}
    BY <1>1, <1>6, <2>1, <2>3, ShdrBytes
  <2>5. n + 1 \in 2 .. Len(descs)
    BY <1>2
  <2>6. QED
    BY <2>1, <2>2, <2>3, <2>4, <2>5 DEF Like
<1>7. ASSUME FewBytes', NEW n \in 1 .. s + 2, Shdr(n)'.type # "NOBITS", Shdr(n)'.size > 0
      PROVE  /\ Cardinality(ChunksOf(Shdr(n)))' = 1
             /\ Shdr(n)'.align > 1 => Shdr(n)'.off % Shdr(n)'.align = 0
             /\ Shdr(n)'.off >= Class(opts.arch).ehdr
             /\ Shdr(n)'.off + Shdr(n)'.size <= pos
  <2>1. /\ n + 1 \in 2 .. Len(descs) /\ HasBytes(descs[n + 1])
        /\ Shdr(n)'.off = descs[n + 1].off /\ Shdr(n)'.size = descs[n + 1].size
        /\ Shdr(n)'.align = descs[n + 1].align
    BY <1>6, <1>7
  <2>2. PICK c : ChunksOf(Shdr(n))' = {c}
    BY <1>6, <1>7
  <2>3. Cardinality({c}) = 1
    BY FS_Singleton
  <2>4. /\ descs[n + 1].off \in Nat /\ Class(opts.arch).ehdr <= descs[n + 1].off
        /\ descs[n + 1].off + descs[n + 1].size <= pos
        /\ descs[n + 1].align > 1 => descs[n + 1].off % descs[n + 1].align = 0
    BY <2>1, AllWritten
  <2>5. Class(opts.arch).ehdr \in Nat
    BY DEF Class, Class64, Class32
  <2>6. descs[n + 1].off >= Class(opts.arch).ehdr
    BY <2>4, <2>5
  <2>7. QED
    BY <2>1, <2>2, <2>3, <2>4, <2>6
<1>8. ASSUME FewBytes', NEW n \in 1 .. s + 2, Shdr(n)'.type # "NOBITS", Shdr(n)'.size > 0,
             NEW m \in (1 .. s + 2) \ {n}, Shdr(m)'.type # "NOBITS", Shdr(m)'.size > 0
      PROVE  \/ Shdr(n)'.off + Shdr(n)'.size <= Shdr(m)'.off
             \/ Shdr(m)'.off + Shdr(m)'.size <= Shdr(n)'.off
  <2>1. /\ n + 1 \in 2 .. Len(descs) /\ HasBytes(descs[n + 1])
        /\ Shdr(n)'.off = descs[n + 1].off /\ Shdr(n)'.size = descs[n + 1].size
    BY <1>6, <1>8
  <2>2. /\ m + 1 \in 2 .. Len(descs) /\ HasBytes(descs[m + 1])
        /\ Shdr(m)'.off = descs[m + 1].off /\ Shdr(m)'.size = descs[m + 1].size
    BY <1>6, <1>8
  <2>3. \/ m + 1 < n + 1
        \/ n + 1 < m + 1
    BY <1>8
  <2>4. CASE m + 1 < n + 1
    BY <2>1, <2>2, <2>4, AllWritten
  <2>5. CASE n + 1 < m + 1
    BY <2>1, <2>2, <2>5, AllWritten
  <2>6. QED
    BY <2>3, <2>4, <2>5
<1>9. QED
  BY <1>2, <1>3, <1>4, <1>5, <1>7, <1>8 DEF OffsetsHonest

\* The headers, the sections and the bytes stay those of the call that
\* returned last until the next one returns.
LEMMA SameImage ==
  ASSUME UNCHANGED last
  PROVE  /\ Built' = Built /\ img' = img /\ added' = added /\ Indices' = Indices
         /\ FewHeaders' = FewHeaders /\ FewBytes' = FewBytes
         /\ \A n : Shdr(n)' = Shdr(n)
         /\ \A n : ChunksOf(Shdr(n))' = ChunksOf(Shdr(n)) /\ Contents(Shdr(n))' = Contents(Shdr(n))
         /\ \A t : OfType(t)' = OfType(t)
<1>1. Built' = Built /\ img' = img /\ added' = added
  BY DEF Built, img, added
<1>2. FewHeaders' = FewHeaders /\ FewBytes' = FewBytes /\ Indices' = Indices
  BY <1>1 DEF FewHeaders, FewBytes, Indices
<1>3. \A n : Shdr(n)' = Shdr(n)
  BY <1>1 DEF Shdr
<1>4. \A n : ChunksOf(Shdr(n))' = ChunksOf(Shdr(n))
  BY DEF ChunksOf, Shdr, img
<1>5. \A n : Contents(Shdr(n))' = Contents(Shdr(n))
  BY DEF Contents, ChunksOf, Shdr, img
<1>6. \A t : OfType(t)' = OfType(t)
  BY <1>2, <1>3 DEF OfType
<1>7. QED
  BY <1>1, <1>2, <1>3, <1>4, <1>5, <1>6

\* Every step but the return of a call leaves the last image alone, and a
\* call that fails leaves none.
LEMMA OtherSteps ==
  ASSUME IInv, [Next]_vars
  PROVE  Deliver \/ ~Built' \/ UNCHANGED last
<1>1. CASE RelocFails \/ GroupFails
  <2>1. last'.status = "failed"
    BY <1>1 DEF RelocFails, GroupFails, Fail, Return
  <2>2. QED
    BY <2>1 DEF Built
<1>2. Deliver \/ RelocFails \/ GroupFails \/ UNCHANGED last
  BY StaysBusy DEF Next, Build, Caller, AddSection, SetOSABI, EnableDWARF,
     EnableGNUStack, SetOption, WriteTo, vars
<1>3. QED
  BY <1>1, <1>2

LEMMA InitReader == Init => ~Built /\ Made /\ InOrder
BY DEF Init, Built, NoCall, Made, InOrder, Phase3

\* In every image that is short enough for its class, each section with file
\* bytes starts where its header says, aligned, behind the ELF header and in
\* front of the section headers, and shares no byte with another one: the
\* offsets the layout loop computed are those at which the serialiser, which
\* counts for itself, wrote.
THEOREM BytesWhereHeadersSay == Spec => []OffsetsHonest
<1>1. Init => OffsetsHonest
  BY InitReader DEF OffsetsHonest
<1>2. IInv /\ LInv /\ Made /\ InOrder /\ OffsetsHonest /\ [Next]_vars => OffsetsHonest'
  <2> SUFFICES ASSUME IInv, LInv, Made, InOrder, OffsetsHonest, [Next]_vars PROVE OffsetsHonest'
    OBVIOUS
  <2>1. CASE Deliver
    BY <2>1, DeliverOffsets
  <2>2. CASE ~Built'
    BY <2>2 DEF OffsetsHonest
  <2>3. CASE UNCHANGED last
    BY <2>3, SameImage DEF OffsetsHonest
  <2>4. QED
    BY <2>1, <2>2, <2>3, OtherSteps
<1>3. QED
  BY Inductive, LayoutInductive, InitReader, MadeStep, InOrderStep, <1>1, <1>2, PTL DEF Spec

-----------------------------------------------------------------------------
(***************************************************************************)
(* What a linker finds that looks for a type of header.                    *)
(***************************************************************************)
\* The regions the section indices fall into.
LEMMA Regions ==
  ASSUME IInv, NEW s \in Nat, s = SymtabIdx, NEW n \in 1 .. s + 2
  PROVE  \/ n \in DOMAIN sections /\ Meant(n) = ContentDesc(n)
         \/ /\ Len(sections) < n /\ n < Base /\ n - Len(sections) \in DOMAIN relaWork
            /\ Meant(n) = RelaDesc(relaWork[n - Len(sections)])
         \/ /\ Base <= n /\ n < Base + GroupCount
            /\ Meant(n) = GroupDesc(GroupOf(n - Base))
         \/ opts.gnuStack /\ n = s - 1 /\ n >= Base + GroupCount /\ Meant(n) = NoteDesc
         \/ n = s /\ Meant(n) = SymtabDesc
         \/ n = s + 1 /\ Meant(n) = StrDesc(<<".strtab">>, strtab.data)
         \/ n = s + 2 /\ Meant(n) = StrDesc(<<".shstrtab">>, shstrtab.data)
<1>1. PICK l \in Nat : l = Len(sections) /\ DOMAIN sections = 1 .. l
  BY DEF IInv, TypeOK
<1>2. PICK r \in Nat : r = Len(relaWork) /\ DOMAIN relaWork = 1 .. r
  BY DEF IInv, TypeOK
<1>3. PICK b \in Nat : b = Base /\ b = 1 + l + r
  BY <1>1, <1>2 DEF Base
<1>4. PICK g \in Nat : g = GroupCount
  BY IndexPlaces
<1>5. PICK t \in {0, 1} : t = StackCount /\ s = b + g + t /\ StrtabIdx = s + 1
  BY <1>3, <1>4, IndexPlaces
<1>6. t = 1 => opts.gnuStack
  BY <1>5, IndexPlaces
<1>7. CASE n <= l
  <2>1. n \in DOMAIN sections /\ n <= Len(sections)
    BY <1>1, <1>7
  <2>2. Meant(n) = ContentDesc(n)
    BY <2>1 DEF Meant
  <2>3. QED
    BY <2>1, <2>2
<1>8. CASE l < n /\ n < b
  <2>1. ~(n <= l) /\ n - l \in 1 .. r
    BY <1>3, <1>8
  <2>2. Meant(n) = RelaDesc(relaWork[n - Len(sections)])
    BY <1>1, <1>3, <1>8, <2>1 DEF Meant
  <2>3. QED
    BY <1>1, <1>2, <1>3, <1>8, <2>1, <2>2
<1>9. CASE b <= n /\ n < b + g
  <2>1. ~(n <= l) /\ ~(n < b)
    BY <1>3, <1>9
  <2>2. Meant(n) = GroupDesc(GroupOf(n - Base))
    BY <1>1, <1>3, <1>4, <1>9, <2>1 DEF Meant
  <2>3. QED
    BY <1>3, <1>4, <1>9, <2>2
<1>10. CASE b + g <= n
  <2>1. ~(n <= l) /\ ~(n < b) /\ ~(n < b + g)
    BY <1>3, <1>10
  <2>2. ~(n <= Len(sections)) /\ ~(n < Base) /\ ~(n < Base + GroupCount)
    BY <1>1, <1>3, <1>4, <2>1
  <2>3. CASE n < s
    <3>1. t = 1 /\ n = s - 1
      BY <1>5, <1>10, <2>3
    <3>2. Meant(n) = NoteDesc /\ n >= Base + GroupCount
      BY <1>3, <1>4, <1>10, <2>2, <2>3 DEF Meant
    <3>3. QED
      BY <1>6, <3>1, <3>2
  <2>4. CASE n = s
    <3>1. ~(s < s)
      OBVIOUS
    <3>2. Meant(n) = SymtabDesc
      BY <2>2, <2>4, <3>1 DEF Meant
    <3>3. QED
      BY <2>4, <3>2
  <2>5. CASE n = s + 1
    <3>1. ~(n < s) /\ n # s
      BY <2>5
    <3>2. Meant(n) = StrDesc(<<".strtab">>, strtab.data)
      BY <1>5, <2>2, <2>5, <3>1 DEF Meant
    <3>3. QED
      BY <2>5, <3>2
  <2>6. CASE n = s + 2
    <3>1. ~(n < s) /\ n # s /\ n # s + 1
      BY <2>6
    <3>2. Meant(n) = StrDesc(<<".shstrtab">>, shstrtab.data)
      BY <1>5, <2>2, <3>1 DEF Meant
    <3>3. QED
      BY <2>6, <3>2
  <2>7. n < s \/ n = s \/ n = s + 1 \/ n = s + 2
    OBVIOUS
  <2>8. QED
    BY <2>3, <2>4, <2>5, <2>6, <2>7
<1>11. n <= l \/ (l < n /\ n < b) \/ (b <= n /\ n < b + g) \/ b + g <= n
  OBVIOUS
<1>12. QED
  BY <1>7, <1>8, <1>9, <1>10, <1>11

LEMMA DescTypes ==
  /\ \A n : ContentDesc(n).type = ContentType(sections[n])
  /\ \A rw : RelaDesc(rw).type = "RELA"
  /\ \A n : GroupDesc(n).type = "GROUP"
  /\ NoteDesc.type = "PROGBITS" /\ SymtabDesc.type = "SYMTAB" /\ SymtabDesc.link = StrtabIdx
  /\ \A name, data : StrDesc(name, data).type = "STRTAB"
  /\ \A n : ContentType(sections[n]) \notin {"SYMTAB", "STRTAB", "RELA", "GROUP"}
<1>1. \A n : ContentDesc(n).type = ContentType(sections[n])
  BY DEF ContentDesc, NullDesc
<1>2. \A rw : RelaDesc(rw).type = "RELA"
  BY DEF RelaDesc, NullDesc
<1>3. \A n : GroupDesc(n).type = "GROUP"
  BY DEF GroupDesc, NullDesc
<1>4. NoteDesc.type = "PROGBITS" /\ SymtabDesc.type = "SYMTAB" /\ SymtabDesc.link = StrtabIdx
  BY DEF NoteDesc, SymtabDesc, NullDesc
<1>5. \A name, data : StrDesc(name, data).type = "STRTAB"
  BY DEF StrDesc, NullDesc
<1>6. \A s : ContentType(s) \notin {"SYMTAB", "STRTAB", "RELA", "GROUP"}
  BY DEF ContentType
<1>7. QED
  BY <1>1, <1>2, <1>3, <1>4, <1>5, <1>6

LEMMA FoundByType ==
  ASSUME IInv, NEW s \in Nat, s = SymtabIdx, NEW n \in 1 .. s + 2
  PROVE  /\ n \in DOMAIN sections => Meant(n).type = ContentType(sections[n])
         /\ Meant(n).type = "SYMTAB" <=> n = s
         /\ Meant(n).type = "STRTAB" <=> n \in {s + 1, s + 2}
         /\ Meant(n).type = "RELA" <=> Len(sections) < n /\ n < Base
         /\ Meant(n).type = "GROUP" <=> Base <= n /\ n < Base + GroupCount
         /\ Meant(n).type = "PROGBITS" /\ n > Len(sections) => opts.gnuStack /\ n = s - 1
<1>1. PICK l \in Nat, b \in Nat, g \in Nat, t \in Nat :
        /\ l = Len(sections) /\ DOMAIN sections = 1 .. l /\ b = Base /\ g = GroupCount
        /\ l < b /\ s = b + g + t
  <2>1. /\ Len(sections) \in Nat /\ DOMAIN sections = 1 .. Len(sections)
        /\ Len(sections) < Base /\ Base \in Nat /\ GroupCount \in Nat
    BY IndexPlaces DEF Base
  <2>2. StackCount \in Nat /\ s = Base + GroupCount + StackCount
    BY IndexPlaces
  <2>3. QED
    BY <2>1, <2>2
<1>2. CASE n \in DOMAIN sections /\ Meant(n) = ContentDesc(n)
  <2>1. n <= l /\ n # s /\ n \notin {s + 1, s + 2} /\ ~(l < n) /\ ~(Base <= n)
    BY <1>1, <1>2
  <2>2. Meant(n).type = ContentType(sections[n])
    BY <1>2, DescTypes
  <2>3. ContentType(sections[n]) \notin {"SYMTAB", "STRTAB", "RELA", "GROUP"}
    BY DescTypes
  <2>4. QED
    BY <1>1, <2>1, <2>2, <2>3
<1>3. CASE Len(sections) < n /\ n < Base /\ Meant(n) = RelaDesc(relaWork[n - Len(sections)])
  <2>1. n \notin DOMAIN sections /\ n # s /\ n \notin {s + 1, s + 2} /\ ~(Base <= n)
    BY <1>1, <1>3
  <2>2. Meant(n).type = "RELA"
    BY <1>3, DescTypes
  <2>3. QED
    BY <1>3, <2>1, <2>2
<1>4. CASE /\ Base <= n /\ n < Base + GroupCount
           /\ Meant(n) = GroupDesc(GroupOf(n - Base))
  <2>1. n \notin DOMAIN sections /\ n # s /\ n \notin {s + 1, s + 2} /\ ~(n < Base)
    BY <1>1, <1>4
  <2>2. Meant(n).type = "GROUP"
    BY <1>4, DescTypes
  <2>3. QED
    BY <1>4, <2>1, <2>2
<1>5. CASE opts.gnuStack /\ n = s - 1 /\ n >= Base + GroupCount /\ Meant(n) = NoteDesc
  <2>1. /\ n \notin DOMAIN sections /\ n # s /\ n \notin {s + 1, s + 2} /\ ~(n < Base)
        /\ ~(n < Base + GroupCount)
    BY <1>1, <1>5
  <2>2. Meant(n).type = "PROGBITS"
    BY <1>5, DescTypes
  <2>3. QED
    BY <1>5, <2>1, <2>2
<1>6. CASE n = s /\ Meant(n) = SymtabDesc
  <2>1. /\ n \notin DOMAIN sections /\ n \notin {s + 1, s + 2} /\ ~(n < Base)
        /\ ~(n < Base + GroupCount)
    BY <1>1, <1>6
  <2>2. Meant(n).type = "SYMTAB"
    BY <1>6, DescTypes
  <2>3. QED
    BY <1>6, <2>1, <2>2
<1>7. CASE \/ n = s + 1 /\ Meant(n) = StrDesc(<<".strtab">>, strtab.data)
           \/ n = s + 2 /\ Meant(n) = StrDesc(<<".shstrtab">>, shstrtab.data)
  <2>1. /\ n \notin DOMAIN sections /\ n # s /\ n \in {s + 1, s + 2} /\ ~(n < Base)
        /\ ~(n < Base + GroupCount)
    BY <1>1, <1>7
  <2>2. Meant(n).type = "STRTAB"
    BY <1>7, DescTypes
  <2>3. QED
    BY <2>1, <2>2
<1>8. QED
  BY <1>2, <1>3, <1>4, <1>5, <1>6, <1>7, Regions

\* The headers of the image, by their type.
LEMMA ImageTypes ==
  ASSUME IInv, LInv, Made, Deliver, NEW s \in Nat, s = SymtabIdx
  PROVE  /\ OfType("SYMTAB")' = {s} /\ OfType("STRTAB")' = {s + 1, s + 2}
         /\ OfType("RELA")' = {n \in 1 .. s + 2 : Len(sections) < n /\ n < Base}
         /\ OfType("GROUP")' = {n \in 1 .. s + 2 : Base <= n /\ n < Base + GroupCount}
         /\ s \in 1 .. s + 2 /\ s + 1 \in 1 .. s + 2 /\ s + 2 \in 1 .. s + 2
         /\ Shdr(s)'.link = s + 1 /\ Len(sections) < s /\ Base <= s
<1>1. Indices' = 1 .. s + 2
  BY ImageHeaders
<1>2. \A n \in 1 .. s + 2 : Shdr(n)'.type = Meant(n).type
  BY ShdrFields
<1>3. \A n \in 1 .. s + 2 :
        /\ Meant(n).type = "SYMTAB" <=> n = s
        /\ Meant(n).type = "STRTAB" <=> n \in {s + 1, s + 2}
        /\ Meant(n).type = "RELA" <=> Len(sections) < n /\ n < Base
        /\ Meant(n).type = "GROUP" <=> Base <= n /\ n < Base + GroupCount
  BY FoundByType
<1>4. s >= 1 /\ Len(sections) < s /\ Base <= s /\ StrtabIdx = s + 1
  <2>1. Len(sections) \in Nat /\ Len(sections) < Base /\ Base \in Nat /\ GroupCount \in Nat
    BY IndexPlaces DEF Base
  <2>2. StackCount \in Nat /\ s = Base + GroupCount + StackCount /\ StrtabIdx = s + 1
    BY IndexPlaces
  <2>3. QED
    BY <2>1, <2>2
<1>5. s \in 1 .. s + 2 /\ s + 1 \in 1 .. s + 2 /\ s + 2 \in 1 .. s + 2
  BY <1>4
<1>6. OfType("SYMTAB")' = {s} /\ OfType("STRTAB")' = {s + 1, s + 2}
  BY <1>1, <1>2, <1>3, <1>5 DEF OfType
<1>7. OfType("RELA")' = {n \in 1 .. s + 2 : Len(sections) < n /\ n < Base}
  BY <1>1, <1>2, <1>3 DEF OfType
<1>8. OfType("GROUP")' = {n \in 1 .. s + 2 : Base <= n /\ n < Base + GroupCount}
  BY <1>1, <1>2, <1>3 DEF OfType
<1>9. Shdr(s)'.link = s + 1
  <2>1. Shdr(s)'.link = Meant(s).link
    BY <1>5, ShdrFields
  <2>2. Meant(s) = SymtabDesc
    <3>1. s \notin {s + 1, s + 2} /\ ~(s < s) /\ ~(s = s - 1)
      OBVIOUS
    <3>2. Meant(s).type = "SYMTAB"
      BY <1>3, <1>5
    <3>3. s \notin DOMAIN sections /\ ~(s < Base) /\ ~(s < Base + GroupCount)
      BY <1>3, <1>4, <1>5, <3>2, IndexPlaces
    <3>4. QED
      BY <1>5, <3>1, <3>3, Regions
  <2>3. QED
    BY <1>4, <2>1, <2>2, DescTypes
<1>10. QED
  BY <1>4, <1>5, <1>6, <1>7, <1>8, <1>9

LEMMA PairCardinality == ASSUME NEW a, NEW b, a # b PROVE Cardinality({a, b}) = 2
<1>1. {a, b} = {a} \cup {b} /\ b \notin {a}
  OBVIOUS
<1>2. IsFiniteSet({a}) /\ Cardinality({a}) = 1
  BY FS_Singleton
<1>3. QED
  BY <1>1, <1>2, FS_AddElement

\* Below SHN_LORESERVE the two numbers of the ELF header are not cut off.
LEMMA FewNumbers ==
  ASSUME IInv, LInv, Made, Deliver, FewHeaders', NEW s \in Nat, s = SymtabIdx
  PROVE  /\ img'.shnum = s + 3 /\ img'.shstrndx = s + 2
         /\ \A n \in Nat : n <= s + 3 => Uint16(n) = n
<1>1. img' = Image /\ Len(descs) = s + 3 /\ Len(img'.shdrs) = s + 3 /\ ShstrtabIdx = s + 2
  BY ImageHeaders, IndexPlaces
<1>2. s + 3 < LoReserve
  BY <1>1 DEF FewHeaders
<1>3. ASSUME NEW n \in Nat, n <= s + 3 PROVE Uint16(n) = n
  <2>1. LoReserve \in Nat /\ Word16 \in Nat /\ LoReserve <= Word16
    BY ReserveAssumption, BoundsAssumption
  <2>2. n % Word16 = n
    BY <1>2, <1>3, <2>1
  <2>3. QED
    BY <2>2 DEF Uint16
<1>4. Uint16(s + 3) = s + 3 /\ Uint16(s + 2) = s + 2
  BY <1>3
<1>5. QED
  BY <1>1, <1>3, <1>4 DEF Image

\* The image of a call that succeeds satisfies HeadersAgree.
LEMMA DeliverHeaders == ASSUME IInv, LInv, Made, Deliver PROVE HeadersAgree'
<1>1. PICK s \in Nat : s = SymtabIdx
  BY IndexPlaces
<1>2. /\ added' = sections /\ last'.input.opts = opts /\ Indices' = 1 .. s + 2
      /\ Len(img'.shdrs) = s + 3
  BY <1>1, ImageHeaders
<1>3. /\ OfType("SYMTAB")' = {s} /\ OfType("STRTAB")' = {s + 1, s + 2}
      /\ s \in 1 .. s + 2 /\ s + 1 \in 1 .. s + 2 /\ s + 2 \in 1 .. s + 2
      /\ Shdr(s)'.link = s + 1
  BY <1>1, ImageTypes
<1>4. Cardinality({s + 1, s + 2}) = 2 /\ s + 1 # s + 2
  <2>1. s + 1 # s + 2
    OBVIOUS
  <2>2. QED
    BY <2>1, PairCardinality
<1>5. FewHeaders' => img'.shnum = s + 3 /\ img'.shstrndx = s + 2
  BY <1>1, FewNumbers
<1>6. \A n \in 1 .. s + 2 :
        /\ n \in DOMAIN sections => Shdr(n)'.type = ContentType(sections[n])
        /\ Shdr(n)'.type = "PROGBITS" /\ n > Len(sections) => opts.gnuStack
  <2> SUFFICES ASSUME NEW n \in 1 .. s + 2
               PROVE  /\ n \in DOMAIN sections => Shdr(n)'.type = ContentType(sections[n])
                      /\ Shdr(n)'.type = "PROGBITS" /\ n > Len(sections) => opts.gnuStack
    OBVIOUS
  <2>1. Shdr(n)'.type = Meant(n).type
    BY <1>1, ShdrFields
  <2>2. n \in DOMAIN sections => Meant(n).type = ContentType(sections[n])
    BY <1>1, FoundByType
  <2>3. Meant(n).type = "PROGBITS" /\ n > Len(sections) => opts.gnuStack
    BY <1>1, FoundByType
  <2>4. QED
    BY <2>1, <2>2, <2>3
<1>7. \A c \in DOMAIN sections : c \in 1 .. s + 2
  <2>1. Len(sections) \in Nat /\ DOMAIN sections = 1 .. Len(sections) /\ Len(sections) < s
    BY <1>1, ImageTypes DEF IInv, TypeOK
  <2>2. QED
    BY <2>1
<1>8. ASSUME opts.gnuStack
      PROVE  \E n \in 1 .. s + 2 : Shdr(n)'.type = "PROGBITS" /\ n > Len(sections)
  <2>1. StackCount = 1
    BY <1>8, IndexPlaces
  <2>2. PICK l \in Nat, b \in Nat : /\ l = Len(sections) /\ l < b /\ b = Base + GroupCount
                                    /\ s = b + 1
    <3>1. Len(sections) \in Nat /\ Len(sections) < Base /\ Base \in Nat
      BY IndexPlaces DEF Base
    <3>2. GroupCount \in Nat /\ s = Base + GroupCount + StackCount
      BY <1>1, IndexPlaces
    <3>3. QED
      BY <2>1, <3>1, <3>2
  <2>3. b \in 1 .. s + 2 /\ b > l /\ ~(b <= l) /\ b < s /\ ~(b < b)
    BY <2>2
  <2>4. ~(b < Base) /\ ~(b < Base + GroupCount)
    BY <2>2, IndexPlaces
  <2>5. Meant(b) = NoteDesc
    BY <1>1, <2>2, <2>3, <2>4 DEF Meant
  <2>6. Shdr(b)'.type = "PROGBITS"
    BY <1>1, <2>3, <2>5, ShdrFields, DescTypes
  <2>7. QED
    BY <2>2, <2>3, <2>6
<1>9. (/\ FewHeaders => img.shnum = Len(img.shdrs) /\ img.shstrndx \in OfType("STRTAB")
       /\ \E st \in OfType("STRTAB") :
            /\ Cardinality(OfType("STRTAB")) = 2
            /\ FewHeaders => st # img.shstrndx
            /\ \A n \in OfType("SYMTAB") : Shdr(n).link = st)'
  BY <1>2, <1>3, <1>4, <1>5
<1>10. (\E n \in Indices : OfType("SYMTAB") = {n})'
  BY <1>2, <1>3
<1>11. (\A c \in DOMAIN added : Shdr(c).type = ContentType(added[c]))'
  <2>1. \A c \in DOMAIN sections : Shdr(c)'.type = ContentType(sections[c])
    BY <1>6, <1>7
  <2>2. QED
    BY <1>2, <2>1
<1>12. (last.input.opts.gnuStack <=>
          \E n \in Indices : Shdr(n).type = "PROGBITS" /\ n > Len(added))'
  BY <1>2, <1>6, <1>8
<1>13. QED
  BY <1>9, <1>10, <1>11, <1>12 DEF HeadersAgree

\* Every cross reference between the headers of an image the build delivers
\* hits a header of the right kind, and the two numbers of the ELF header are
\* right below SHN_LORESERVE: symtabIdx, strtabIdx and shstrtabIdx were
\* computed from counts before any header existed.
THEOREM HeadersFound == Spec => []HeadersAgree
<1>1. Init => HeadersAgree
  BY InitReader DEF HeadersAgree
<1>2. IInv /\ LInv /\ Made /\ HeadersAgree /\ [Next]_vars => HeadersAgree'
  <2> SUFFICES ASSUME IInv, LInv, Made, HeadersAgree, [Next]_vars PROVE HeadersAgree'
    OBVIOUS
  <2>1. CASE Deliver
    BY <2>1, DeliverHeaders
  <2>2. CASE ~Built'
    BY <2>2 DEF HeadersAgree
  <2>3. CASE UNCHANGED last
    <3>1. /\ Built' = Built /\ img' = img /\ added' = added /\ Indices' = Indices
          /\ FewHeaders' = FewHeaders
      BY <2>3, SameImage
    <3>2. \A t : OfType(t)' = OfType(t)
      BY <2>3, SameImage
    <3>3. \A n : Shdr(n)' = Shdr(n)
      BY <2>3, SameImage
    <3>4. QED
      BY <2>3, <3>1, <3>2, <3>3 DEF HeadersAgree
  <2>4. QED
    BY <2>1, <2>2, <2>3, OtherSteps
<1>3. QED
  BY Inductive, LayoutInductive, InitReader, MadeStep, <1>1, <1>2, PTL DEF Spec

-----------------------------------------------------------------------------
(***************************************************************************)
(* The names of the sections.                                              *)
(***************************************************************************)
LEMMA DescNames ==
  /\ \A n : ContentDesc(n).name = SectionName(sections[n])
  /\ \A n : GroupDesc(n).name = <<".group">>
  /\ SymtabDesc.name = <<".symtab">>
<1>1. \A n : ContentDesc(n).name = SectionName(sections[n])
  BY DEF ContentDesc, NullDesc
<1>2. \A n : GroupDesc(n).name = <<".group">>
  BY DEF GroupDesc, NullDesc
<1>3. SymtabDesc.name = <<".symtab">>
  BY DEF SymtabDesc, NullDesc
<1>4. QED
  BY <1>1, <1>2, <1>3

\* The name each index is meant to have.
LEMMA MeantNames ==
  ASSUME IInv, NEW s \in Nat, s = SymtabIdx, NEW n \in 1 .. s + 2
  PROVE  /\ n \in DOMAIN sections => Meant(n).name = SectionName(sections[n])
         /\ Meant(n).type = "RELA" => Meant(n).name = RelaName(sections[Meant(n).info])
         /\ Meant(n).type = "GROUP" => Meant(n).name = <<".group">>
         /\ Meant(n).type = "SYMTAB" => Meant(n).name = <<".symtab">>
         /\ Meant(n).type = "STRTAB" =>
              Meant(n).name = IF n = s + 2 THEN <<".shstrtab">> ELSE <<".strtab">>
<1>1. /\ n \in DOMAIN sections => Meant(n).type = ContentType(sections[n])
      /\ ContentType(sections[n]) \notin {"SYMTAB", "STRTAB", "RELA", "GROUP"}
  BY FoundByType, DescTypes
<1>2. CASE n \in DOMAIN sections /\ Meant(n) = ContentDesc(n)
  BY <1>1, <1>2, DescNames
<1>3. n \notin DOMAIN sections \/ Meant(n).type \notin {"SYMTAB", "STRTAB", "RELA", "GROUP"}
  BY <1>1
<1>4. CASE Meant(n) = RelaDesc(relaWork[n - Len(sections)])
  <2>1. Meant(n).type = "RELA"
    BY <1>4, DescTypes
  <2>2. Meant(n).name = RelaName(sections[Meant(n).info])
    BY <1>4 DEF RelaDesc, NullDesc
  <2>3. /\ Meant(n).type = "RELA" /\ n \notin DOMAIN sections
        /\ Meant(n).name = RelaName(sections[Meant(n).info])
    BY <1>3, <1>4, <2>1, <2>2
  <2>4. QED
    BY <1>4, <2>3
<1>5. CASE Meant(n) = GroupDesc(GroupOf(n - Base))
  <2>1. Meant(n).type = "GROUP"
    BY <1>5, DescTypes
  <2>2. Meant(n).name = <<".group">>
    BY <1>5, DescNames
  <2>3. /\ Meant(n).type = "GROUP" /\ n \notin DOMAIN sections
        /\ Meant(n).name = <<".group">>
    BY <1>3, <1>5, <2>1, <2>2
  <2>4. QED
    BY <1>5, <2>3
<1>6. CASE n >= Base + GroupCount /\ Meant(n) = NoteDesc
  <2>1. n \notin DOMAIN sections
    <3>1. /\ Len(sections) \in Nat /\ DOMAIN sections = 1 .. Len(sections)
          /\ Len(sections) < Base /\ Base \in Nat
      BY IndexPlaces DEF Base
    <3>2. GroupCount \in Nat
      BY IndexPlaces
    <3>3. QED
      BY <1>6, <3>1, <3>2
  <2>2. Meant(n).type = "PROGBITS"
    BY <1>6, DescTypes
  <2>3. QED
    BY <2>1, <2>2
<1>7. CASE n = s /\ Meant(n) = SymtabDesc
  <2>1. /\ Meant(n).type = "SYMTAB" /\ n \notin DOMAIN sections
        /\ Meant(n).name = <<".symtab">>
    BY <1>3, <1>7, DescTypes, DescNames
  <2>2. QED
    BY <2>1
<1>8. CASE n = s + 1 /\ Meant(n) = StrDesc(<<".strtab">>, strtab.data)
  <2>1. Meant(n).type = "STRTAB"
    BY <1>8, DescTypes
  <2>2. Meant(n).name = <<".strtab">>
    BY <1>8 DEF StrDesc, NullDesc
  <2>3. /\ Meant(n).type = "STRTAB" /\ n \notin DOMAIN sections /\ n # s + 2
        /\ Meant(n).name = <<".strtab">>
    BY <1>3, <1>8, <2>1, <2>2
  <2>4. QED
    BY <1>8, <2>3
<1>9. CASE n = s + 2 /\ Meant(n) = StrDesc(<<".shstrtab">>, shstrtab.data)
  <2>1. Meant(n).type = "STRTAB"
    BY <1>9, DescTypes
  <2>2. Meant(n).name = <<".shstrtab">>
    BY <1>9 DEF StrDesc, NullDesc
  <2>3. /\ Meant(n).type = "STRTAB" /\ n \notin DOMAIN sections
        /\ Meant(n).name = <<".shstrtab">>
    BY <1>3, <1>9, <2>1, <2>2
  <2>4. QED
    BY <1>9, <2>3
<1>10. QED
  BY <1>2, <1>4, <1>5, <1>6, <1>7, <1>8, <1>9, Regions

\* The bytes of the two string tables are in the image.
LEMMA StringBytes ==
  ASSUME IInv, LInv, Made, InOrder, Deliver, FewBytes', NEW s \in Nat, s = SymtabIdx
  PROVE  /\ Contents(Shdr(s + 1))' = strtab.data
         /\ Contents(Shdr(s + 2))' = shstrtab.data
<1>1. /\ strtab.data # << >> /\ strtab.data \in Seq(Char \cup {NUL})
      /\ shstrtab.data # << >> /\ shstrtab.data \in Seq(Char \cup {NUL})
  BY DEF IInv, TypeOK, StrTabOK, Consistent
<1>2. Len(strtab.data) > 0 /\ Len(shstrtab.data) > 0
  BY <1>1
<1>3. s + 1 \in 1 .. s + 2 /\ s + 2 \in 1 .. s + 2 /\ s # s + 1 /\ s # s + 2 /\ s + 1 # s + 2
  OBVIOUS
<1>4. Meant(s + 1).type = "STRTAB" /\ Meant(s + 2).type = "STRTAB"
  BY <1>3, FoundByType
<1>6. Meant(s + 1) = StrDesc(<<".strtab">>, strtab.data)
  <2>1. s + 1 \notin DOMAIN sections
    BY <1>3, <1>4, FoundByType, DescTypes
  <2>2. QED
    BY <1>3, <1>4, <2>1, Regions, DescTypes
<1>7. Meant(s + 2) = StrDesc(<<".shstrtab">>, shstrtab.data)
  <2>1. s + 2 \notin DOMAIN sections
    BY <1>3, <1>4, FoundByType, DescTypes
  <2>2. QED
    BY <1>3, <1>4, <2>1, Regions, DescTypes
<1>8. /\ Meant(s + 1).data = strtab.data /\ Meant(s + 1).size > 0
      /\ Meant(s + 2).data = shstrtab.data /\ Meant(s + 2).size > 0
  BY <1>2, <1>6, <1>7 DEF StrDesc, NullDesc
<1>9. Contents(Shdr(s + 1))' = strtab.data
  BY <1>3, <1>4, <1>8, ShdrBytes
<1>10. Contents(Shdr(s + 2))' = shstrtab.data
  BY <1>3, <1>4, <1>8, ShdrBytes
<1>11. QED
  BY <1>9, <1>10

\* The names of an image the build delivers.
LEMMA DeliverNames == ASSUME IInv, LInv, Made, InOrder, Deliver PROVE NamesResolve'
<1>1. PICK s \in Nat : s = SymtabIdx
  BY IndexPlaces
<1>2. added' = sections /\ Indices' = 1 .. s + 2 /\ s + 2 \in 1 .. s + 2
  BY <1>1, ImageHeaders
<1>3. ASSUME FewHeaders', FewBytes'
      PROVE  /\ img'.shstrndx = s + 2
             /\ (IF img.shstrndx \in Indices THEN Contents(Shdr(img.shstrndx)) ELSE << >>)' = shstrtab.data
  <2>1. img'.shstrndx = s + 2
    BY <1>1, <1>3, FewNumbers
  <2>2. Contents(Shdr(s + 2))' = shstrtab.data
    BY <1>1, <1>3, StringBytes
  <2>3. Contents(Shdr(img.shstrndx))' = Contents(Shdr(s + 2))'
    BY <2>1 DEF Contents, ChunksOf, Shdr
  <2>4. QED
    BY <1>2, <2>1, <2>2, <2>3
<1>4. ASSUME NEW n \in 1 .. s + 2
      PROVE  ReadsAs(shstrtab.data, Shdr(n)'.name, Meant(n).name)
  <2>1. Shdr(n)'.name = shstrtab.offsets[Meant(n).name] /\ Meant(n).name \in DOMAIN shstrtab.offsets
    BY <1>1, ShdrFields, ImageHeaders
  <2>2. Consistent(shstrtab)
    BY DEF IInv, TypeOK, StrTabOK
  <2>3. QED
    BY <2>1, <2>2 DEF Consistent
<1>5. ASSUME FewHeaders', FewBytes', NEW n \in 1 .. s + 2
      PROVE  /\ n \in DOMAIN sections => ReadsAs(shstrtab.data, Shdr(n)'.name, SectionName(sections[n]))
             /\ Shdr(n)'.type = "RELA" =>
                  ReadsAs(shstrtab.data, Shdr(n)'.name, RelaName(sections[Shdr(n)'.info]))
             /\ Shdr(n)'.type = "GROUP" => ReadsAs(shstrtab.data, Shdr(n)'.name, <<".group">>)
             /\ Shdr(n)'.type = "SYMTAB" => ReadsAs(shstrtab.data, Shdr(n)'.name, <<".symtab">>)
             /\ Shdr(n)'.type = "STRTAB" =>
                  ReadsAs(shstrtab.data, Shdr(n)'.name,
                          IF n = img'.shstrndx THEN <<".shstrtab">> ELSE <<".strtab">>)
  <2>1. Shdr(n)'.type = Meant(n).type /\ Shdr(n)'.info = Meant(n).info
    BY <1>1, ShdrFields
  <2>2. ReadsAs(shstrtab.data, Shdr(n)'.name, Meant(n).name) /\ img'.shstrndx = s + 2
    BY <1>3, <1>4, <1>5
  <2>3. /\ n \in DOMAIN sections => Meant(n).name = SectionName(sections[n])
        /\ Meant(n).type = "RELA" => Meant(n).name = RelaName(sections[Meant(n).info])
        /\ Meant(n).type = "GROUP" => Meant(n).name = <<".group">>
        /\ Meant(n).type = "SYMTAB" => Meant(n).name = <<".symtab">>
        /\ Meant(n).type = "STRTAB" =>
             Meant(n).name = IF n = s + 2 THEN <<".shstrtab">> ELSE <<".strtab">>
    BY <1>1, MeantNames
  <2>4. QED
    BY <2>1, <2>2, <2>3
<1>6. QED
  BY <1>2, <1>3, <1>5 DEF NamesResolve

\* In every image that has fewer headers than SHN_LORESERVE and is short
\* enough for its class, each header's sh_name, read in the section
\* e_shstrndx points to, is the name its section's role calls for: every name
\* was interned before .shstrtab was captured, its own included.
THEOREM NamesFound == Spec => []NamesResolve
<1>1. Init => NamesResolve
  BY InitReader DEF NamesResolve
<1>2. IInv /\ LInv /\ Made /\ InOrder /\ NamesResolve /\ [Next]_vars => NamesResolve'
  <2> SUFFICES ASSUME IInv, LInv, Made, InOrder, NamesResolve, [Next]_vars PROVE NamesResolve'
    OBVIOUS
  <2>1. CASE Deliver
    BY <2>1, DeliverNames
  <2>2. CASE ~Built'
    BY <2>2 DEF NamesResolve
  <2>3. CASE UNCHANGED last
    <3>1. /\ Built' = Built /\ img' = img /\ added' = added /\ Indices' = Indices
          /\ FewHeaders' = FewHeaders /\ FewBytes' = FewBytes
      BY <2>3, SameImage
    <3>2. \A n : Shdr(n)' = Shdr(n)
      BY <2>3, SameImage
    <3>3. Contents(Shdr(img.shstrndx))' = Contents(Shdr(img.shstrndx))
      BY <2>3 DEF Contents, ChunksOf, Shdr, img
    <3>4. QED
      BY <3>1, <3>2, <3>3 DEF NamesResolve
  <2>4. QED
    BY <2>1, <2>2, <2>3, OtherSteps
<1>3. QED
  BY Inductive, LayoutInductive, InitReader, MadeStep, InOrderStep, <1>1, <1>2, PTL DEF Spec

-----------------------------------------------------------------------------
(***************************************************************************)
(* Which symbol a name stands for.  Among the places of the input that     *)
(* have passed by, the one the map stands for wins: an exported symbol     *)
(* over a local one, else the later over the earlier.                      *)
(***************************************************************************)
SymOf(n, m) == sections[n].symbols[m]

Passed(n, m) == pc \notin Passes \/ Seen(n, m)

\* Place <<n, m>> gives name to a symbol that a pass enters.
Gives(name, n, m) == SymOf(n, m).name = name /\ ~Label(n, m)

EntryFor(e, n, m) ==
  /\ e.shndx = Uint16(n) /\ e.value = SymOf(n, m).offset
  /\ e.bind = SymBind[SymOf(n, m).binding] /\ e.type = SymType[SymOf(n, m).kind]

IsLocal(n, m) == SymOf(n, m).binding = "Local"

Behind(n, m, a, b) == n > a \/ (n = a /\ m > b)

Wins(n, m, a, b) ==
  \/ a = n /\ b = m
  \/ ~IsLocal(n, m) /\ IsLocal(a, b)
  \/ (IsLocal(n, m) <=> IsLocal(a, b)) /\ Behind(n, m, a, b)

\* Entry e is what name stands for when <<n, m>> gives it.
Winner(e, name, n, m) ==
  /\ Gives(name, n, m) /\ Passed(n, m) /\ EntryFor(e, n, m)
  /\ \A a \in DOMAIN sections : \A b \in DOMAIN sections[a].symbols :
       Gives(name, a, b) /\ Passed(a, b) => Wins(n, m, a, b)

BoundTo(e, name) ==
  \/ \E n \in DOMAIN sections : \E m \in DOMAIN sections[n].symbols : Winner(e, name, n, m)
  \/ name \notin DefinedNames(sections) /\ e.shndx = 0 /\ e.bind = "GLOBAL"

Bound ==
  pc # "idle" => \A name \in DOMAIN symIndex : BoundTo(syms[symIndex[name] + 1], name)

\* The RELA sections: one for each section that has relocations, in the order
\* of the sections, with the entries the relocations become.
Worked ==
  /\ pc \in Phase3 \cup {"relocs"} =>
       /\ \A j \in DOMAIN relaWork :
            LET c == relaWork[j].content
            IN  /\ c \in DOMAIN sections /\ sections[c].relocs # << >>
                /\ pc = "relocs" => c < i
                /\ \A l \in DOMAIN relaWork : j < l => c < relaWork[l].content
                /\ \A m \in DOMAIN relaWork[j].data :
                     relaWork[j].data[m] = RelaEntry(sections[c].relocs[m])
       /\ \A c \in DOMAIN sections :
            sections[c].relocs # << >> /\ (pc = "relocs" => c < i) =>
              \E j \in DOMAIN relaWork : relaWork[j].content = c
  /\ pc = "relocs" /\ i <= Len(sections) =>
       \A m \in DOMAIN relas : relas[m] = RelaEntry(sections[i].relocs[m])


LEMMA BoundIdle == ASSUME pc' = "idle" PROVE Bound'
BY DEF Bound

LEMMA WriteToBound == ASSUME IInv, WriteTo PROVE Bound'
<1>1. pc = "idle" /\ UNCHANGED symIndex
  BY DEF WriteTo
<1>2. symIndex = EmptyMap
  BY <1>1 DEF IInv, Shape
<1>3. QED
  BY <1>1, <1>2 DEF Bound, EmptyMap

\* A name keeps its symbol when no place that gives it passes by.
LEMMA KeepWinner ==
  ASSUME UNCHANGED sections, NEW e, NEW name, NEW n \in DOMAIN sections,
         NEW m \in DOMAIN sections[n].symbols, Winner(e, name, n, m),
         \A a \in DOMAIN sections : \A b \in DOMAIN sections[a].symbols :
           Gives(name, a, b) => (Passed(a, b)' <=> Passed(a, b))
  PROVE  Winner(e, name, n, m)'
<1>1. \A a, b : /\ Gives(name, a, b)' <=> Gives(name, a, b)
                /\ EntryFor(e, a, b)' <=> EntryFor(e, a, b)
                /\ Wins(n, m, a, b)' <=> Wins(n, m, a, b)
  BY DEF Gives, Label, EntryFor, Wins, IsLocal, Behind, SymOf
<1>2. Gives(name, n, m) /\ Passed(n, m) /\ EntryFor(e, n, m)
  BY DEF Winner
<1>3. Gives(name, n, m)' /\ Passed(n, m)' /\ EntryFor(e, n, m)'
  BY <1>1, <1>2
<1>4. \A a \in DOMAIN sections : \A b \in DOMAIN sections[a].symbols :
        Gives(name, a, b) /\ Passed(a, b) => Wins(n, m, a, b)
  BY DEF Winner
<1>5. \A a \in DOMAIN sections : \A b \in DOMAIN sections[a].symbols :
        Gives(name, a, b)' /\ Passed(a, b)' => Wins(n, m, a, b)'
  BY <1>1, <1>4
<1>6. QED
  BY <1>3, <1>5 DEF Winner

LEMMA KeepBoundTo ==
  ASSUME UNCHANGED sections, NEW e, NEW name, BoundTo(e, name),
         \A a \in DOMAIN sections : \A b \in DOMAIN sections[a].symbols :
           Gives(name, a, b) => (Passed(a, b)' <=> Passed(a, b))
  PROVE  BoundTo(e, name)'
<1>1. CASE \E n \in DOMAIN sections : \E m \in DOMAIN sections[n].symbols : Winner(e, name, n, m)
  <2>1. PICK n \in DOMAIN sections : \E m \in DOMAIN sections[n].symbols : Winner(e, name, n, m)
    BY <1>1
  <2>4. PICK m \in DOMAIN sections[n].symbols : Winner(e, name, n, m)
    BY <2>1
  <2>2. Winner(e, name, n, m)'
    BY <2>4, KeepWinner
  <2>3. QED
    BY <2>2 DEF BoundTo
<1>2. CASE name \notin DefinedNames(sections) /\ e.shndx = 0 /\ e.bind = "GLOBAL"
  <2>1. DefinedNames(sections)' = DefinedNames(sections)
    OBVIOUS
  <2>2. QED
    BY <1>2, <2>1 DEF BoundTo
<1>3. QED
  BY <1>1, <1>2 DEF BoundTo

\* So it is for all names when the tables stay and every place that gives one
\* has passed by before and after.
LEMMA KeepBound ==
  ASSUME IInv, Bound, UNCHANGED <<sections, symIndex, syms>>, pc # "idle",
         \A a \in DOMAIN sections : \A b \in DOMAIN sections[a].symbols :
           ~Label(a, b) => (Passed(a, b)' <=> Passed(a, b))
  PROVE  Bound'
<1>1. ASSUME NEW name \in DOMAIN symIndex PROVE BoundTo(syms[symIndex[name] + 1], name)'
  <2>1. PICK e : e = syms[symIndex[name] + 1]
    OBVIOUS
  <2>2. BoundTo(e, name)
    BY <2>1 DEF Bound
  <2>3. BoundTo(e, name)'
    BY <2>2, KeepBoundTo DEF Gives
  <2>4. syms'[symIndex'[name] + 1] = e
    BY <2>1
  <2>5. QED
    BY <2>3, <2>4 DEF BoundTo, Winner, EntryFor
<1>2. QED
  BY <1>1 DEF Bound

\* A new entry: the other names keep theirs.
LEMMA EnterBound ==
  ASSUME IInv, Bound, pc # "idle", UNCHANGED sections, NEW name, NEW entry,
         symIndex' = Put(symIndex, name, Len(syms)), syms' = Append(syms, entry),
         BoundTo(entry, name)',
         \A a \in DOMAIN sections : \A b \in DOMAIN sections[a].symbols :
           SymOf(a, b).name # name => (Passed(a, b)' <=> Passed(a, b))
  PROVE  Bound'
<1>1. syms \in Seq(SymEntry) /\ Len(syms) \in Nat
  BY DEF IInv, TypeOK
<1>2. syms'[Len(syms) + 1] = entry /\ \A n \in 1 .. Len(syms) : syms'[n] = syms[n]
  BY <1>1
<1>3. DOMAIN symIndex' = DOMAIN symIndex \cup {name} /\ symIndex'[name] = Len(syms)
  BY DEF Put
<1>4. ASSUME NEW other \in DOMAIN symIndex', other # name
      PROVE  BoundTo(syms[symIndex[other] + 1], other)'
  <2>1. other \in DOMAIN symIndex /\ symIndex'[other] = symIndex[other]
    BY <1>4 DEF Put
  <2>2. symIndex[other] \in Nat /\ symIndex[other] < Len(syms)
    BY <2>1 DEF IInv, IndexSound
  <2>3. symIndex[other] + 1 \in 1 .. Len(syms)
    BY <1>1, <2>2
  <2>4. PICK e : e = syms[symIndex[other] + 1]
    OBVIOUS
  <2>5. BoundTo(e, other)
    BY <2>1, <2>4 DEF Bound
  <2>6. BoundTo(e, other)'
    <3>1. \A a \in DOMAIN sections : \A b \in DOMAIN sections[a].symbols :
            Gives(other, a, b) => (Passed(a, b)' <=> Passed(a, b))
      BY <1>4 DEF Gives
    <3>2. QED
      BY <2>5, <3>1, KeepBoundTo
  <2>7. syms'[symIndex'[other] + 1] = e
    BY <1>2, <2>1, <2>3, <2>4
  <2>8. QED
    BY <2>6, <2>7 DEF BoundTo, Winner, EntryFor
<1>5. syms'[symIndex'[name] + 1] = entry
  BY <1>2, <1>3
<1>6. BoundTo(syms[symIndex[name] + 1], name)'
  <2>1. PICK e : e = syms'[symIndex'[name] + 1]
    OBVIOUS
  <2>2. BoundTo(e, name)'
    BY <1>5, <2>1
  <2>3. QED
    BY <2>1, <2>2 DEF BoundTo, Winner, EntryFor
<1>7. QED
  BY <1>4, <1>6 DEF Bound

\* Where the passes are.
LEMMA AtPlace ==
  ASSUME IInv, DefineSymbol \/ SkipSymbol
  PROVE  /\ pc \in Passes /\ pc' = pc /\ i' = i /\ k' = k + 1 /\ UNCHANGED sections
         /\ i \in DOMAIN sections /\ k \in DOMAIN sections[i].symbols
<1> USE DEF file, tables, layout, relocs
<1>1. QED
  BY DEF DefineSymbol, SkipSymbol, AtSymbol, IInv, TypeOK, Passes

\* The cursor passes one place: what has passed by is that place and what had
\* before.
LEMMA PassOne ==
  ASSUME IInv, DefineSymbol \/ SkipSymbol, NEW a \in DOMAIN sections,
         NEW b \in DOMAIN sections[a].symbols
  PROVE  /\ (a = i /\ b = k) \/ (Passed(a, b)' <=> Passed(a, b))
         /\ a = i /\ b = k => (Passed(a, b)' <=> (pc = "globals" \/ IsLocal(a, b)))
         /\ Passed(a, b)' /\ ~(a = i /\ b = k) /\ (IsLocal(i, k) <=> pc = "locals") =>
              Wins(i, k, a, b)
<1>1. /\ pc \in Passes /\ pc' = pc /\ i' = i /\ k' = k + 1 /\ UNCHANGED sections
      /\ i \in DOMAIN sections /\ k \in DOMAIN sections[i].symbols
  BY AtPlace
<1>2. /\ i \in Nat /\ k \in Nat /\ a \in Nat /\ b \in Nat
  BY <1>1, PlaceType
<1>3. \A c, d : /\ Passed(c, d) <=>
                     \/ pc = "globals" /\ IsLocal(c, d)
                     \/ (IsLocal(c, d) <=> pc = "locals") /\ (c < i \/ (c = i /\ d < k))
                /\ Passed(c, d)' <=>
                     \/ pc = "globals" /\ IsLocal(c, d)
                     \/ (IsLocal(c, d) <=> pc = "locals") /\ (c < i \/ (c = i /\ d < k + 1))
  BY <1>1 DEF Passed, Seen, IsLocal, SymOf
<1>4. (a = i /\ b = k) \/ (b < k + 1 <=> b < k) \/ a # i
  BY <1>2
<1>5. (a = i /\ b = k) \/ (Passed(a, b)' <=> Passed(a, b))
  BY <1>3, <1>4
<1>6. ~(i < i) /\ k < k + 1
  BY <1>2
<1>7. a = i /\ b = k => (Passed(a, b)' <=> (pc = "globals" \/ IsLocal(a, b)))
  BY <1>1, <1>3, <1>6 DEF Passes
<1>8. ASSUME Passed(a, b)', ~(a = i /\ b = k), IsLocal(i, k) <=> pc = "locals"
      PROVE  Wins(i, k, a, b)
  <2>1. CASE pc = "globals" /\ IsLocal(a, b)
    BY <1>8, <2>1 DEF Wins
  <2>2. CASE (IsLocal(a, b) <=> pc = "locals") /\ (a < i \/ (a = i /\ b < k + 1))
    <3>1. Behind(i, k, a, b)
      BY <1>2, <1>8, <2>2 DEF Behind
    <3>2. QED
      BY <1>8, <2>2, <3>1 DEF Wins
  <2>3. QED
    BY <1>3, <1>8, <2>1, <2>2
<1>9. QED
  BY <1>5, <1>7, <1>8

LEMMA DefineBound == ASSUME IInv, Bound, DefineSymbol PROVE Bound'
<1>1. /\ pc \in Passes /\ pc' = pc /\ UNCHANGED sections
      /\ i \in DOMAIN sections /\ k \in DOMAIN sections[i].symbols
  BY AtPlace
<1>2. PICK n, m : n \in DOMAIN sections /\ m \in DOMAIN sections[n].symbols /\ n = i /\ m = k
  BY <1>1
<1>3. PICK name, e :
        /\ name = SymOf(n, m).name /\ Wanted(SymOf(n, m)) /\ EntryFor(e, n, m)
        /\ symIndex' = Put(symIndex, name, Len(syms)) /\ syms' = Append(syms, e)
  BY <1>2 DEF DefineSymbol, EnterSymbol, NewEntry, EntryFor, SymOf
<1>4. /\ Gives(name, n, m) /\ (IsLocal(n, m) <=> pc = "locals")
      /\ pc = "globals" \/ IsLocal(n, m)
  BY <1>1, <1>3 DEF Wanted, Gives, Label, IsLocal, SymOf, Passes
<1>5. Passed(n, m)'
  BY <1>2, <1>4, PassOne
<1>6. \A a \in DOMAIN sections : \A b \in DOMAIN sections[a].symbols :
        Passed(a, b)' => Wins(n, m, a, b)
  BY <1>2, <1>4, PassOne DEF Wins
<1>7. \A a, b : /\ Gives(name, a, b)' <=> Gives(name, a, b)
                /\ EntryFor(e, a, b)' <=> EntryFor(e, a, b)
                /\ Wins(n, m, a, b)' <=> Wins(n, m, a, b)
  BY <1>1 DEF Gives, Label, EntryFor, Wins, IsLocal, Behind, SymOf
<1>8. Winner(e, name, n, m)'
  BY <1>1, <1>3, <1>4, <1>5, <1>6, <1>7 DEF Winner
<1>9. BoundTo(e, name)'
  BY <1>1, <1>2, <1>8 DEF BoundTo
<1>10. \A a \in DOMAIN sections : \A b \in DOMAIN sections[a].symbols :
         SymOf(a, b).name # name => (Passed(a, b)' <=> Passed(a, b))
  BY <1>2, <1>3, PassOne
<1>11. pc # "idle"
  BY <1>1 DEF Passes
<1>12. QED
  BY <1>1, <1>3, <1>9, <1>10, <1>11, EnterBound

\* Only DefineSymbol makes a place pass by that gives a name.
LEMMA SkipKeeps ==
  ASSUME IInv, SkipSymbol
  PROVE  /\ pc \in Passes /\ pc # "idle" /\ UNCHANGED <<sections, strtab, symIndex, syms>>
         /\ \A a \in DOMAIN sections : \A b \in DOMAIN sections[a].symbols :
              ~Label(a, b) => (Passed(a, b)' <=> Passed(a, b))
<1>1. /\ pc \in Passes /\ pc' = pc /\ UNCHANGED <<sections, strtab, symIndex, syms>>
      /\ i \in DOMAIN sections /\ k \in DOMAIN sections[i].symbols
  BY AtPlace DEF SkipSymbol, tables
<1>2. ASSUME NEW a \in DOMAIN sections, NEW b \in DOMAIN sections[a].symbols, ~Label(a, b)
      PROVE  Passed(a, b)' <=> Passed(a, b)
  <2>1. CASE a = i /\ b = k
    <3>1. ~Wanted(SymOf(a, b))
      BY <2>1 DEF SkipSymbol, SymOf
    <3>2. IF pc = "locals" THEN ~IsLocal(a, b) ELSE pc = "globals" /\ IsLocal(a, b)
      BY <1>1, <1>2, <3>1 DEF Wanted, Label, IsLocal, SymOf, Passes
    <3>3. CASE pc = "locals"
      <4>1. ~Passed(a, b)
        BY <1>1, <3>2, <3>3 DEF Passed, Seen, IsLocal, SymOf
      <4>2. ~Passed(a, b)'
        BY <1>1, <3>2, <3>3 DEF Passed, Seen, IsLocal, SymOf
      <4>3. QED
        BY <4>1, <4>2
    <3>4. CASE pc = "globals"
      BY <1>1, <3>2, <3>4 DEF Passed, Seen, IsLocal, SymOf
    <3>5. QED
      BY <1>1, <3>3, <3>4 DEF Passes
  <2>2. CASE ~(a = i /\ b = k)
    BY <2>2, PassOne
  <2>3. QED
    BY <2>1, <2>2
<1>3. pc # "idle"
  BY <1>1 DEF Passes
<1>4. QED
  BY <1>1, <1>2, <1>3

LEMMA NextKeeps ==
  ASSUME IInv, SectionSymbolsDone
  PROVE  /\ pc \in Passes /\ pc # "idle" /\ UNCHANGED <<sections, strtab, symIndex, syms>>
         /\ \A a \in DOMAIN sections : \A b \in DOMAIN sections[a].symbols :
              ~Label(a, b) => (Passed(a, b)' <=> Passed(a, b))
<1> USE DEF tables, file
<1>1. /\ pc \in Passes /\ k > Len(sections[i].symbols)
      /\ i \in DOMAIN sections /\ i' = i + 1 /\ k' = 1
      /\ UNCHANGED <<pc, sections, strtab, symIndex, syms>>
  BY DEF SectionSymbolsDone, NextSection, IInv, TypeOK, Passes
<1>2. ASSUME NEW a \in DOMAIN sections, NEW b \in DOMAIN sections[a].symbols
      PROVE  Passed(a, b)' <=> Passed(a, b)
  <2>1. /\ a \in Nat /\ b \in Nat /\ b >= 1 /\ i \in Nat /\ k \in Nat
        /\ a = i => b < k
    BY <1>1, PlaceType
  <2>2. (a < i + 1 \/ (a = i + 1 /\ b < 1)) <=> (a < i \/ (a = i /\ b < k))
    BY <2>1
  <2>3. QED
    BY <1>1, <2>2 DEF Passed, Seen
<1>3. pc # "idle"
  BY <1>1 DEF Passes
<1>4. QED
  BY <1>1, <1>2, <1>3

LEMMA PassKeeps ==
  ASSUME IInv, LocalsDone \/ GlobalsDone
  PROVE  /\ pc \in Passes /\ pc # "idle" /\ UNCHANGED <<sections, strtab, symIndex, syms>>
         /\ \A a \in DOMAIN sections : \A b \in DOMAIN sections[a].symbols :
              ~Label(a, b) => (Passed(a, b)' <=> Passed(a, b))
<1> USE DEF tables, file
<1>1. /\ pc \in Passes /\ i > Len(sections)
      /\ pc' = (IF pc = "locals" THEN "globals" ELSE "externs")
      /\ i' = 1 /\ k' = 1 /\ UNCHANGED <<sections, strtab, symIndex, syms>>
  BY DEF LocalsDone, GlobalsDone, Goto, Passes
<1>2. ASSUME NEW a \in DOMAIN sections, NEW b \in DOMAIN sections[a].symbols
      PROVE  Passed(a, b)' <=> Passed(a, b)
  <2>1. a < i /\ ~(a < 1) /\ ~(b < 1)
    BY <1>1, PlaceType
  <2>2. CASE pc = "locals"
    <3>1. Passed(a, b) <=> IsLocal(a, b)
      BY <2>1, <2>2 DEF Passed, Seen, Passes, IsLocal, SymOf
    <3>2. Passed(a, b)' <=> IsLocal(a, b)
      BY <1>1, <2>1, <2>2 DEF Passed, Seen, Passes, IsLocal, SymOf
    <3>3. QED
      BY <3>1, <3>2
  <2>3. CASE pc = "globals"
    <3>1. Passed(a, b)
      BY <2>1, <2>3 DEF Passed, Seen, Passes
    <3>2. Passed(a, b)'
      BY <1>1, <2>3 DEF Passed, Passes
    <3>3. QED
      BY <3>1, <3>2
  <2>4. QED
    BY <1>1, <2>2, <2>3 DEF Passes
<1>3. pc # "idle"
  BY <1>1 DEF Passes
<1>4. QED
  BY <1>1, <1>2, <1>3

LEMMA PassedKeeps ==
  ASSUME IInv, SkipSymbol \/ SectionSymbolsDone \/ LocalsDone \/ GlobalsDone
  PROVE  /\ pc \in Passes /\ pc # "idle" /\ UNCHANGED <<sections, strtab, symIndex, syms>>
         /\ \A a \in DOMAIN sections : \A b \in DOMAIN sections[a].symbols :
              ~Label(a, b) => (Passed(a, b)' <=> Passed(a, b))
BY SkipKeeps, NextKeeps, PassKeeps

LEMMA ExternBound == ASSUME IInv, Bound, ExternSymbol PROVE Bound'
<1>1. pc = "externs" /\ pc' = pc /\ UNCHANGED sections
  BY DEF ExternSymbol, file
<1>2. PICK name, e :
        /\ name \in Undefined
        /\ e.shndx = 0 /\ e.bind = "GLOBAL"
        /\ symIndex' = Put(symIndex, name, Len(syms)) /\ syms' = Append(syms, e)
  BY DEF ExternSymbol, EnterSymbol, NewEntry
<1>3. name \notin DefinedNames(sections)
  BY <1>2 DEF Undefined, ExternalSymbols
<1>4. BoundTo(e, name)'
  <2>1. DefinedNames(sections)' = DefinedNames(sections)
    BY <1>1
  <2>2. QED
    BY <1>2, <1>3, <2>1 DEF BoundTo
<1>5. \A a, b : Passed(a, b)' <=> Passed(a, b)
  BY <1>1 DEF Passed, Passes
<1>6. QED
  BY <1>1, <1>2, <1>4, <1>5, EnterBound

\* Behind the loops over the symbols the tables of phase 1 stay as they are.
LEMMA TableSteps ==
  ASSUME IInv, [Next]_vars
  PROVE  \/ pc' = "idle" \/ WriteTo \/ DefineSymbol \/ ExternSymbol \/ UNCHANGED vars
         \/ SkipSymbol \/ SectionSymbolsDone \/ LocalsDone \/ GlobalsDone
         \/ /\ pc \notin Passes \cup {"idle"} /\ pc' \notin Passes \cup {"externs"}
            /\ UNCHANGED <<sections, strtab, symIndex, syms>>
<1> USE DEF tables, file, Passes, Goto, NextSection
<1>1. CASE Caller
  BY <1>1 DEF Caller, AddSection, SetOSABI, EnableDWARF, EnableGNUStack, SetOption
<1>2. CASE RelocFails \/ GroupFails \/ Deliver
  BY <1>2 DEF RelocFails, GroupFails, Deliver, Fail, Return
<1>3. CASE \/ ExternsDone \/ ConvertReloc \/ SectionRelocsDone \/ RelocsDone
  BY <1>3 DEF ExternsDone, ConvertReloc, SectionRelocsDone, RelocsDone
<1>4. CASE \/ ContentSection \/ ContentDone \/ RelaSection \/ RelaDone
           \/ GroupSection \/ NoGroup \/ TailSections
  BY <1>4 DEF ContentSection, ContentDone, RelaSection, RelaDone, GroupSection,
     NoGroup, TailSections
<1>5. CASE PlaceSection \/ LayoutDone \/ WriteSection
  BY <1>5 DEF PlaceSection, LayoutDone, WriteSection
<1>6. QED
  BY <1>1, <1>2, <1>3, <1>4, <1>5 DEF Next, Build

LEMMA BoundStep == IInv /\ Bound /\ [Next]_vars => Bound'
<1> SUFFICES ASSUME IInv, Bound, [Next]_vars PROVE Bound'
  OBVIOUS
<1> USE DEF tables, file
<1>1. CASE pc' = "idle"
  BY <1>1, BoundIdle
<1>2. CASE WriteTo
  BY <1>2, WriteToBound
<1>3. CASE DefineSymbol
  BY <1>3, DefineBound
<1>4. CASE SkipSymbol \/ SectionSymbolsDone \/ LocalsDone \/ GlobalsDone
  BY <1>4, PassedKeeps, KeepBound
<1>5. CASE ExternSymbol
  BY <1>5, ExternBound
<1>6. CASE /\ pc \notin Passes \cup {"idle"} /\ pc' \notin Passes
           /\ UNCHANGED <<sections, symIndex, syms>>
  <2>1. \A a, b : Passed(a, b)' <=> Passed(a, b)
    BY <1>6 DEF Passed
  <2>2. QED
    BY <1>6, <2>1, KeepBound
<1>7. CASE UNCHANGED vars
  <2>1. UNCHANGED <<pc, i, k, sections, symIndex, syms>>
    BY <1>7 DEF vars
  <2>2. \A a, b : Passed(a, b)' <=> Passed(a, b)
    BY <2>1 DEF Passed, Seen
  <2>3. CASE pc = "idle"
    BY <1>1, <2>1, <2>3
  <2>4. CASE pc # "idle"
    BY <2>1, <2>2, <2>4, KeepBound
  <2>5. QED
    BY <2>3, <2>4
<1>8. QED
  BY <1>1, <1>2, <1>3, <1>4, <1>5, <1>6, <1>7, TableSteps


-----------------------------------------------------------------------------
LEMMA SameEntries == ASSUME UNCHANGED <<opts, symIndex>> PROVE \A r : RelaEntry(r)' = RelaEntry(r)
BY DEF RelaEntry

LEMMA ExternsDoneWorked == ASSUME IInv, ExternsDone PROVE Worked'
<1>1. /\ pc = "externs" /\ pc' = "relocs" /\ i' = 1 /\ UNCHANGED <<sections, relas, relaWork>>
  BY DEF ExternsDone, Goto, file, relocs
<1>2. relas = << >> /\ relaWork = << >>
  BY <1>1 DEF IInv, Shape
<1>3. Len(sections) \in Nat /\ \A c \in DOMAIN sections : ~(c < 1)
  BY DEF IInv, TypeOK
<1>4. QED
  BY <1>1, <1>2, <1>3 DEF Worked, Phase3

LEMMA ConvertWorked == ASSUME IInv, Worked, ConvertReloc PROVE Worked'
<1>1. /\ pc = "relocs" /\ pc' = pc /\ i' = i /\ k' = k + 1
      /\ UNCHANGED <<opts, sections, symIndex, relaWork>>
      /\ i <= Len(sections) /\ k <= Len(sections[i].relocs)
      /\ relas' = Append(relas, RelaEntry(sections[i].relocs[k]))
  BY DEF ConvertReloc, AtReloc, file, tables
<1>2. \A r : RelaEntry(r)' = RelaEntry(r)
  BY <1>1, SameEntries
<1>3. /\ relas \in Seq(RelaEntries) /\ Len(relas) = k - 1 /\ k \in Nat
  BY <1>1 DEF IInv, TypeOK, RelasSound
<1>4. /\ DOMAIN relas' = 1 .. k /\ relas'[k] = RelaEntry(sections[i].relocs[k])
      /\ \A m \in 1 .. k - 1 : m \in DOMAIN relas /\ relas'[m] = relas[m]
  BY <1>1, <1>3
<1>5. ASSUME NEW m \in DOMAIN relas' PROVE relas'[m] = RelaEntry(sections[i].relocs[m])
  <2>1. m = k \/ m \in 1 .. k - 1
    BY <1>3, <1>4
  <2>2. CASE m \in 1 .. k - 1
    BY <1>1, <1>4, <2>2 DEF Worked
  <2>3. QED
    BY <1>4, <2>1, <2>2
<1>6. \A j, m : relaWork'[j].data[m] = relaWork[j].data[m] /\ relaWork'[j].content = relaWork[j].content
  BY <1>1
<1>7. QED
  BY <1>1, <1>2, <1>5 DEF Worked

LEMMA SectionRelocsWorked == ASSUME IInv, Worked, SectionRelocsDone PROVE Worked'
<1>1. /\ pc = "relocs" /\ pc' = pc /\ i' = i + 1 /\ relas' = << >>
      /\ i <= Len(sections) /\ k > Len(sections[i].relocs)
      /\ UNCHANGED <<opts, sections, symIndex>>
  BY DEF SectionRelocsDone, NextSection, file, tables
<1>2. /\ i \in 1 .. Len(sections) /\ i \in DOMAIN sections /\ i \in Nat
      /\ DOMAIN sections = 1 .. Len(sections) /\ Len(sections) \in Nat
  BY <1>1 DEF IInv, TypeOK
<1>3. \A r : RelaEntry(r)' = RelaEntry(r)
  BY <1>1, SameEntries
<1>4. \A c \in DOMAIN sections : c < i + 1 <=> c < i \/ c = i
  BY <1>2
<1>5. \A j \in DOMAIN relaWork :
        LET c == relaWork[j].content
        IN  /\ c \in DOMAIN sections /\ sections[c].relocs # << >> /\ c < i
            /\ \A l \in DOMAIN relaWork : j < l => c < relaWork[l].content
            /\ \A m \in DOMAIN relaWork[j].data :
                 relaWork[j].data[m] = RelaEntry(sections[c].relocs[m])
  BY <1>1 DEF Worked
<1>6. \A c \in DOMAIN sections :
        sections[c].relocs # << >> /\ c < i => \E j \in DOMAIN relaWork : relaWork[j].content = c
  BY <1>1 DEF Worked
<1>7. CASE sections[i].relocs = << >>
  <2>1. relaWork' = relaWork
    BY <1>7 DEF SectionRelocsDone
  <2>2. \A c \in DOMAIN sections :
          sections[c].relocs # << >> /\ c < i + 1 => \E j \in DOMAIN relaWork : relaWork[j].content = c
    BY <1>4, <1>6, <1>7
  <2>3. \A j \in DOMAIN relaWork : relaWork[j].content < i + 1
    BY <1>4, <1>5
  <2>4. QED
    BY <1>1, <1>3, <1>5, <2>1, <2>2, <2>3 DEF Worked, Phase3
<1>8. CASE sections[i].relocs # << >>
  <2>1. PICK rw : /\ rw = [content |-> i, data |-> relas] /\ relaWork' = Append(relaWork, rw)
    BY <1>8 DEF SectionRelocsDone
  <2>2. PICK r \in Nat : r = Len(relaWork) /\ DOMAIN relaWork = 1 .. r
    BY DEF IInv, TypeOK
  <2>3. /\ DOMAIN relaWork' = 1 .. r + 1 /\ relaWork'[r + 1] = rw
        /\ \A j \in 1 .. r : relaWork'[j] = relaWork[j]
    BY <2>1, <2>2 DEF IInv, TypeOK
  <2>4. \A m \in DOMAIN relas : relas[m] = RelaEntry(sections[i].relocs[m])
    BY <1>1 DEF Worked
  <2>5. rw.content = i /\ rw.data = relas
    BY <2>1
  <2>6. ASSUME NEW j \in 1 .. r + 1, NEW c, c = relaWork'[j].content
        PROVE  /\ c \in DOMAIN sections /\ sections[c].relocs # << >> /\ c < i + 1
               /\ \A l \in 1 .. r + 1 : j < l => c < relaWork'[l].content
               /\ \A m \in DOMAIN relaWork'[j].data :
                    relaWork'[j].data[m] = RelaEntry(sections[c].relocs[m])
    <3>1. CASE j = r + 1
      <4>1. c = i /\ relaWork'[j].data = relas
        BY <2>3, <2>5, <2>6, <3>1
      <4>2. \A l \in 1 .. r + 1 : ~(j < l)
        BY <3>1
      <4>3. i < i + 1
        BY <1>2
      <4>4. QED
        BY <1>2, <1>8, <2>4, <4>1, <4>2, <4>3
    <3>2. CASE j \in 1 .. r
      <4>1. relaWork'[j] = relaWork[j] /\ j \in DOMAIN relaWork /\ c = relaWork[j].content
        BY <2>2, <2>3, <2>6, <3>2
      <4>2. c \in DOMAIN sections /\ sections[c].relocs # << >> /\ c < i
        BY <1>5, <4>1
      <4>3. \A m \in DOMAIN relaWork'[j].data :
              relaWork'[j].data[m] = RelaEntry(sections[c].relocs[m])
        BY <1>5, <4>1
      <4>4. ASSUME NEW l \in 1 .. r + 1, j < l PROVE c < relaWork'[l].content
        <5>1. CASE l = r + 1
          BY <2>3, <2>5, <4>2, <5>1
        <5>2. CASE l \in 1 .. r
          BY <1>5, <2>2, <2>3, <4>1, <4>4, <5>2
        <5>3. QED
          BY <5>1, <5>2
      <4>5. QED
        BY <1>4, <4>2, <4>3, <4>4
    <3>3. QED
      BY <2>6, <3>1, <3>2
  <2>7. ASSUME NEW c \in DOMAIN sections, sections[c].relocs # << >>, c < i + 1
        PROVE  \E j \in 1 .. r + 1 : relaWork'[j].content = c
    <3>1. CASE c = i
      BY <2>3, <2>5, <3>1
    <3>2. CASE c < i
      <4>1. PICK j \in DOMAIN relaWork : relaWork[j].content = c
        BY <1>6, <2>7, <3>2
      <4>2. j \in 1 .. r + 1 /\ relaWork'[j].content = c
        BY <2>2, <2>3, <4>1
      <4>3. QED
        BY <4>2
    <3>3. QED
      BY <1>4, <2>7, <3>1, <3>2
  <2>8. \A j \in DOMAIN relaWork' :
          LET c == relaWork'[j].content
          IN  /\ c \in DOMAIN sections /\ sections[c].relocs # << >> /\ c < i + 1
              /\ \A l \in DOMAIN relaWork' : j < l => c < relaWork'[l].content
              /\ \A m \in DOMAIN relaWork'[j].data :
                   relaWork'[j].data[m] = RelaEntry(sections[c].relocs[m])
    BY <2>3, <2>6
  <2>9. \A c \in DOMAIN sections :
          sections[c].relocs # << >> /\ c < i + 1 => \E j \in DOMAIN relaWork' : relaWork'[j].content = c
    BY <2>3, <2>7
  <2>10. QED
    BY <1>1, <1>3, <2>8, <2>9 DEF Worked, Phase3
<1>9. QED
  BY <1>7, <1>8

\* Nothing changes the RELA sections from then on.
LEMMA KeepWorked ==
  ASSUME IInv, Worked, pc \in Phase3 \cup {"relocs"}, pc' \in Phase3,
         pc = "relocs" => i > Len(sections),
         UNCHANGED <<opts, sections, symIndex, relaWork>>
  PROVE  Worked'
<1>1. \A r : RelaEntry(r)' = RelaEntry(r)
  BY SameEntries
<1>2. pc = "relocs" => \A c \in DOMAIN sections : c < i
  BY DEF IInv, TypeOK
<1>3. pc' # "relocs"
  BY DEF Phase3
<1>4. \A c \in DOMAIN sections :
        sections[c].relocs # << >> => \E j \in DOMAIN relaWork : relaWork[j].content = c
  BY <1>2 DEF Worked
<1>5. QED
  BY <1>1, <1>3, <1>4 DEF Worked

LEMMA WorkedStep == IInv /\ Worked /\ [Next]_vars => Worked'
<1> SUFFICES ASSUME IInv, Worked, [Next]_vars PROVE Worked'
  OBVIOUS
<1> USE DEF tables, file, relocs
<1>1. CASE pc' \notin Phase3 \cup {"relocs"}
  BY <1>1 DEF Worked
<1>2. CASE ExternsDone
  BY <1>2, ExternsDoneWorked
<1>3. CASE ConvertReloc
  BY <1>3, ConvertWorked
<1>4. CASE SectionRelocsDone
  BY <1>4, SectionRelocsWorked
<1>5. CASE RelocsDone
  <2>1. /\ pc = "relocs" /\ pc' = "content" /\ i > Len(sections)
        /\ UNCHANGED <<opts, sections, symIndex, relaWork>>
    BY <1>5 DEF RelocsDone, Goto
  <2>2. QED
    BY <2>1, KeepWorked DEF Phase3
<1>6. CASE /\ pc \in Phase3 /\ pc' \in Phase3
           /\ UNCHANGED <<opts, sections, symIndex, relaWork>>
  BY <1>6, KeepWorked DEF Phase3
<1>7. CASE UNCHANGED vars
  <2>1. UNCHANGED <<pc, i, opts, sections, symIndex, relas, relaWork>>
    BY <1>7 DEF vars
  <2>2. \A r : RelaEntry(r)' = RelaEntry(r)
    BY <2>1, SameEntries
  <2>3. QED
    BY <2>1, <2>2 DEF Worked
<1>8. \/ pc' \notin Phase3 \cup {"relocs"} \/ ExternsDone \/ ConvertReloc \/ SectionRelocsDone
      \/ RelocsDone \/ UNCHANGED vars
      \/ /\ pc \in Phase3 /\ pc' \in Phase3
         /\ UNCHANGED <<opts, sections, symIndex, relaWork>>
  <2> USE DEF Phase3, Goto, NextSection
  <2>1. CASE Caller
    BY <2>1 DEF Caller, AddSection, SetOSABI, EnableDWARF, EnableGNUStack, SetOption, WriteTo
  <2>2. CASE RelocFails \/ GroupFails \/ Deliver
    BY <2>2 DEF RelocFails, GroupFails, Deliver, Fail, Return
  <2>3. CASE \/ DefineSymbol \/ SkipSymbol \/ SectionSymbolsDone \/ LocalsDone
             \/ GlobalsDone \/ ExternSymbol
    BY <2>3 DEF DefineSymbol, SkipSymbol, SectionSymbolsDone, LocalsDone, GlobalsDone, ExternSymbol
  <2>4. CASE \/ ContentSection \/ ContentDone \/ RelaSection \/ RelaDone
             \/ GroupSection \/ NoGroup \/ TailSections
    BY <2>4 DEF ContentSection, ContentDone, RelaSection, RelaDone, GroupSection,
       NoGroup, TailSections
  <2>5. CASE PlaceSection \/ LayoutDone \/ WriteSection
    BY <2>5 DEF PlaceSection, LayoutDone, WriteSection
  <2>6. QED
    BY <2>1, <2>2, <2>3, <2>4, <2>5 DEF Next, Build
<1>9. QED
  BY <1>1, <1>2, <1>3, <1>4, <1>5, <1>6, <1>7, <1>8


-----------------------------------------------------------------------------
(***************************************************************************)
(* What a reference reaches.                                               *)
(***************************************************************************)
LEMMA MeantSymtab == ASSUME IInv, NEW s \in Nat, s = SymtabIdx PROVE Meant(s) = SymtabDesc
<1>1. s >= 1 /\ Base <= s
  <2>1. Len(sections) \in Nat /\ Len(sections) < Base /\ Base \in Nat /\ GroupCount \in Nat
    BY IndexPlaces DEF Base
  <2>2. StackCount \in Nat /\ s = Base + GroupCount + StackCount
    BY IndexPlaces
  <2>3. QED
    BY <2>1, <2>2
<1>2. s \in 1 .. s + 2
  BY <1>1
<1>3. Meant(s).type = "SYMTAB"
  BY <1>2, FoundByType
<1>4. s \notin DOMAIN sections /\ ~(s < Base) /\ ~(s < Base + GroupCount)
  <2>1. ~(s < Base)
    BY <1>1, IndexPlaces DEF Base
  <2>2. s \notin DOMAIN sections
    BY <1>1, IndexPlaces DEF Base
  <2>3. ~(s < Base + GroupCount)
    BY IndexPlaces
  <2>4. QED
    BY <2>1, <2>2, <2>3
<1>5. s # s - 1 /\ s # s + 1 /\ s # s + 2
  OBVIOUS
<1>6. QED
  BY <1>2, <1>4, <1>5, Regions

\* The symbol table and its string table, as the linker reads them.
LEMMA SymbolBytes ==
  ASSUME IInv, LInv, Made, InOrder, Deliver, FewBytes', NEW s \in Nat, s = SymtabIdx
  PROVE  /\ SymtabShdr' = Shdr(s)' /\ Symtab' = syms /\ Strtab' = strtab.data
<1>1. OfType("SYMTAB")' = {s} /\ Shdr(s)'.link = s + 1 /\ s \in 1 .. s + 2 /\ s + 1 \in 1 .. s + 2
  BY ImageTypes
<1>2. (CHOOSE n \in {s} : TRUE) = s
  OBVIOUS
<1>3. SymtabShdr' = Shdr(s)'
  BY <1>1, <1>2 DEF SymtabShdr, Shdr
<1>4. Len(syms) \in Nat /\ Len(syms) > 0
  <2>1. pc = "write"
    BY DEF Deliver
  <2>2. Len(sections) < Len(syms) /\ Len(sections) \in Nat /\ Len(syms) \in Nat
    BY <2>1 DEF IInv, Shape, TypeOK
  <2>3. QED
    BY <2>2
<1>5. SymtabDesc.data = syms /\ SymtabDesc.size = Class(opts.arch).sym * Len(syms)
  BY DEF SymtabDesc, NullDesc
<1>6. Class(opts.arch).sym \in {16, 24}
  BY DEF Class, Class64, Class32
<1>7. SymtabDesc.size > 0
  BY <1>4, <1>5, <1>6
<1>8. Meant(s) = SymtabDesc /\ Meant(s).type # "NOBITS"
  BY MeantSymtab, DescTypes
<1>9. Contents(Shdr(s))' = syms
  BY <1>1, <1>5, <1>7, <1>8, ShdrBytes
<1>10. Contents(SymtabShdr)' = Contents(Shdr(s))'
  BY <1>3 DEF Contents, ChunksOf
<1>11. SymtabShdr'.link = s + 1 /\ s + 1 \in Indices'
  BY <1>1, <1>3, ImageHeaders
<1>12. Contents(Shdr(s + 1))' = strtab.data
  BY StringBytes
<1>13. Contents(Shdr(SymtabShdr.link))' = Contents(Shdr(s + 1))'
  BY <1>11 DEF Contents, ChunksOf, Shdr
<1>14. QED
  BY <1>3, <1>9, <1>10, <1>11, <1>12, <1>13 DEF Symtab, Strtab

\* The index a name stands for is that of a symbol the linker finds, with
\* that name.
LEMMA NameCalled ==
  ASSUME IInv, LInv, Made, InOrder, Deliver, FewBytes', NEW name \in DOMAIN symIndex,
         NEW x, x = symIndex[name]
  PROVE  x \in Nat /\ x < Len(syms) /\ x + 1 \in DOMAIN syms /\ Called(x, name)'
<1>1. PICK s \in Nat : s = SymtabIdx
  BY IndexPlaces
<1>2. Symtab' = syms /\ Strtab' = strtab.data
  BY <1>1, SymbolBytes
<1>3. /\ x \in Nat /\ x < Len(syms) /\ ReadsAs(strtab.data, syms[x + 1].name, name)
  BY DEF IInv, IndexSound
<1>4. Len(syms) \in Nat /\ DOMAIN syms = 1 .. Len(syms)
  BY DEF IInv, TypeOK
<1>5. x + 1 \in DOMAIN syms
  BY <1>3, <1>4
<1>6. QED
  BY <1>2, <1>3, <1>5 DEF Called

\* The places of the image's input are those of the build's.
LEMMA PlacesLemma ==
  ASSUME IInv, added' = sections, NEW name
  PROVE  /\ \A p \in PlacesOf(name)' :
              /\ p = <<p[1], p[2]>> /\ p[1] \in DOMAIN sections
              /\ p[2] \in DOMAIN sections[p[1]].symbols /\ Gives(name, p[1], p[2])
         /\ \A n \in DOMAIN sections : \A m \in DOMAIN sections[n].symbols :
              Gives(name, n, m) => <<n, m>> \in PlacesOf(name)'
         /\ Exported(name)' = {p \in PlacesOf(name)' : ~IsLocal(p[1], p[2])}
<1>1. \A p : SymAt(p)' = SymOf(p[1], p[2])
  BY DEF SymAt, SymOf
<1>2. \A p : Entered(p)' <=> ~Label(p[1], p[2])
  BY <1>1 DEF Entered, Label, SymOf
<1>3. Places' = UNION {{c} \X DOMAIN sections[c].symbols : c \in DOMAIN sections}
  BY DEF Places
<1>4. PlacesOf(name)' = {p \in Places' : Gives(name, p[1], p[2])}
  BY <1>1, <1>2 DEF PlacesOf, Gives
<1>5. ASSUME NEW p \in PlacesOf(name)'
      PROVE  /\ p = <<p[1], p[2]>> /\ p[1] \in DOMAIN sections
             /\ p[2] \in DOMAIN sections[p[1]].symbols /\ Gives(name, p[1], p[2])
  <2>1. PICK c \in DOMAIN sections : p \in {c} \X DOMAIN sections[c].symbols
    BY <1>3, <1>4, <1>5
  <2>2. p = <<p[1], p[2]>> /\ p[1] = c /\ p[2] \in DOMAIN sections[c].symbols
    BY <2>1
  <2>3. QED
    BY <1>4, <1>5, <2>2
<1>6. ASSUME NEW n \in DOMAIN sections, NEW m \in DOMAIN sections[n].symbols, Gives(name, n, m)
      PROVE  <<n, m>> \in PlacesOf(name)'
  <2>1. <<n, m>> \in {n} \X DOMAIN sections[n].symbols
    OBVIOUS
  <2>2. <<n, m>> \in Places'
    BY <1>3, <2>1
  <2>3. <<n, m>>[1] = n /\ <<n, m>>[2] = m
    OBVIOUS
  <2>4. QED
    BY <1>4, <1>6, <2>2, <2>3
<1>7. Exported(name)' = {p \in PlacesOf(name)' : ~IsLocal(p[1], p[2])}
  BY <1>1 DEF Exported, IsLocal
<1>8. QED
  BY <1>5, <1>6, <1>7

\* The place that wins is the last of its class.
LEMMA LastWins ==
  ASSUME NEW S, NEW p \in S, \A q \in S \ {p} : Later(p, q),
         p[1] \in Nat, p[2] \in Nat, \A q \in S : q[1] \in Nat /\ q[2] \in Nat
  PROVE  LastOf(S) = p
<1>1. \A r \in S : (\A q \in S \ {r} : Later(r, q)) => r = p
  <2> SUFFICES ASSUME NEW r \in S, \A q \in S \ {r} : Later(r, q), r # p PROVE FALSE
    OBVIOUS
  <2>1. Later(r, p) /\ Later(p, r)
    OBVIOUS
  <2>2. QED
    BY <2>1 DEF Later
<1>2. QED
  BY <1>1 DEF LastOf

\* The entry a name stands for is the symbol a reference to it must reach.
LEMMA TargetReached ==
  ASSUME IInv, Bound, pc = "write", added' = sections, NEW e, NEW name, BoundTo(e, name),
         FewHeaders' => \A n \in DOMAIN sections : Uint16(n) = n
  PROVE  Target(e, name)'
<1> DEFINE T == IF Exported(name)' # {} THEN Exported(name)' ELSE PlacesOf(name)'
<1>1. \A p \in PlacesOf(name)' :
        /\ p = <<p[1], p[2]>> /\ p[1] \in DOMAIN sections
        /\ p[2] \in DOMAIN sections[p[1]].symbols /\ Gives(name, p[1], p[2])
  BY PlacesLemma
<1>2. Exported(name)' = {p \in PlacesOf(name)' : ~IsLocal(p[1], p[2])}
  BY PlacesLemma
<1>3. CASE \E n \in DOMAIN sections : \E m \in DOMAIN sections[n].symbols : Winner(e, name, n, m)
  <2>1. PICK n \in DOMAIN sections : \E m \in DOMAIN sections[n].symbols : Winner(e, name, n, m)
    BY <1>3
  <2>2. PICK m \in DOMAIN sections[n].symbols : Winner(e, name, n, m)
    BY <2>1
  <2>3. PICK p : p = <<n, m>> /\ p[1] = n /\ p[2] = m
    <3>1. <<n, m>>[1] = n /\ <<n, m>>[2] = m
      OBVIOUS
    <3>2. QED
      BY <3>1
  <2>4. Gives(name, n, m) /\ EntryFor(e, n, m)
    BY <2>2 DEF Winner
  <2>5. p \in PlacesOf(name)'
    BY <2>3, <2>4, PlacesLemma
  <2>6. \A a, b : Passed(a, b)
    BY DEF Passed, Passes
  <2>7. \A q \in PlacesOf(name)' : Wins(n, m, q[1], q[2])
    BY <1>1, <2>2, <2>6 DEF Winner
  <2>8. \A q \in PlacesOf(name)' : q # p => ~(q[1] = n /\ q[2] = m)
    BY <1>1, <2>3
  <2>9. p \in T
    <3>1. CASE IsLocal(n, m)
      <4>1. \A q \in PlacesOf(name)' : IsLocal(q[1], q[2])
        BY <2>7, <3>1 DEF Wins
      <4>2. Exported(name)' = {}
        BY <1>2, <4>1
      <4>3. QED
        BY <2>5, <4>2
    <3>2. CASE ~IsLocal(n, m)
      BY <1>2, <2>3, <2>5, <3>2
    <3>3. QED
      BY <3>1, <3>2
  <2>10. T \subseteq PlacesOf(name)'
    BY <1>2
  <2>11. \A q \in T \ {p} : Later(p, q)
    <3> SUFFICES ASSUME NEW q \in T, q # p PROVE Later(p, q)
      OBVIOUS
    <3>1. Wins(n, m, q[1], q[2]) /\ ~(q[1] = n /\ q[2] = m)
      BY <2>7, <2>8, <2>10
    <3>2. IsLocal(n, m) \/ ~IsLocal(q[1], q[2])
      <4>1. CASE ~IsLocal(n, m)
        <5>1. p \in Exported(name)'
          BY <1>2, <2>3, <2>5, <4>1
        <5>2. q \in Exported(name)'
          BY <5>1
        <5>3. QED
          BY <1>2, <5>2
      <4>2. QED
        BY <4>1
    <3>3. Behind(n, m, q[1], q[2])
      BY <3>1, <3>2 DEF Wins
    <3>4. QED
      BY <2>3, <3>3 DEF Later, Behind
  <2>12. \A q \in T : q[1] \in Nat /\ q[2] \in Nat
    <3>1. \A c \in DOMAIN sections : c \in Nat /\ \A d \in DOMAIN sections[c].symbols : d \in Nat
      BY PlaceType
    <3>2. QED
      BY <1>1, <2>10, <3>1
  <2>13. LastOf(T) = p
    <3> HIDE DEF T
    <3>1. QED
      BY <2>9, <2>11, <2>12, LastWins
  <2>14. T # {}
    BY <2>9
  <2>15. PICK sy : sy = SymOf(n, m)
    OBVIOUS
  <2>16. SymAt(p)' = sy
    BY <2>3, <2>15 DEF SymAt, SymOf
  <2>17. SymbolFor(e, sy, n)'
    BY <2>4, <2>15 DEF EntryFor, SymbolFor
  <2>18. QED
    BY <2>3, <2>13, <2>14, <2>16, <2>17 DEF Target, SymAt, SymbolFor, LastOf
<1>4. CASE name \notin DefinedNames(sections) /\ e.shndx = 0 /\ e.bind = "GLOBAL"
  <2>1. \A n \in DOMAIN sections : \A m \in DOMAIN sections[n].symbols : ~Gives(name, n, m)
    BY <1>4 DEF DefinedNames, Gives, SymOf
  <2>2. PlacesOf(name)' = {}
    BY <1>1, <2>1
  <2>3. Exported(name)' = {}
    BY <1>2, <2>2
  <2>4. QED
    BY <1>4, <2>2, <2>3 DEF Target
<1>5. QED
  BY <1>3, <1>4 DEF BoundTo


-----------------------------------------------------------------------------
(***************************************************************************)
(* The RELA sections of the image.                                         *)
(***************************************************************************)
LEMMA RelaFound ==
  ASSUME IInv, LInv, Made, InOrder, Worked, Deliver, NEW s \in Nat, s = SymtabIdx,
         NEW j \in DOMAIN relaWork, NEW n \in Nat, n = Len(sections) + j
  PROVE  /\ n \in OfType("RELA")' /\ n \in 1 .. s + 2
         /\ Shdr(n)'.info = relaWork[j].content /\ Shdr(n)'.link = s
         /\ FewBytes' => Contents(Shdr(n))' = relaWork[j].data
<1>1. PICK l \in Nat, r \in Nat : l = Len(sections) /\ r = Len(relaWork) /\ j \in 1 .. r
  BY IndexPlaces
<1>2. Base = 1 + l + r /\ Base <= s
  BY <1>1, ImageTypes DEF Base
<1>3. n \in 1 .. s + 2 /\ l < n /\ n < Base /\ n - l = j
  BY <1>1, <1>2
<1>4. Meant(n) = RelaDesc(relaWork[j])
  <2>1. ~(n <= Len(sections)) /\ n < Base /\ n - Len(sections) = j
    BY <1>1, <1>3
  <2>2. QED
    BY <2>1 DEF Meant
<1>5. n \in OfType("RELA")'
  BY <1>1, <1>3, ImageTypes
<1>6. /\ Meant(n).type = "RELA" /\ Meant(n).info = relaWork[j].content /\ Meant(n).link = s
      /\ Meant(n).data = relaWork[j].data
      /\ Meant(n).size = Class(opts.arch).rela * Len(relaWork[j].data)
  BY <1>4 DEF RelaDesc, NullDesc
<1>7. Shdr(n)'.info = relaWork[j].content /\ Shdr(n)'.link = s
  BY <1>3, <1>6, ShdrFields
<1>8. Len(relaWork[j].data) \in Nat /\ Len(relaWork[j].data) > 0
  <2>1. PICK c \in DOMAIN sections : c = relaWork[j].content /\ sections[c].relocs # << >>
    BY DEF Worked, Deliver, Phase3
  <2>2. Len(relaWork[j].data) = Len(sections[c].relocs)
    BY <2>1 DEF IInv, RelasSound
  <2>3. sections[c].relocs \in Seq(Reloc)
    BY PlaceType
  <2>4. QED
    BY <2>1, <2>2, <2>3
<1>9. Meant(n).size > 0
  <2>1. Class(opts.arch).rela \in {24, 12}
    BY DEF Class, Class64, Class32
  <2>2. QED
    BY <1>6, <1>8, <2>1
<1>10. FewBytes' => Contents(Shdr(n))' = relaWork[j].data
  BY <1>3, <1>6, <1>9, ShdrBytes
<1>11. QED
  BY <1>3, <1>5, <1>7, <1>10

\* Each section that has relocations has one of them.
LEMMA RelaSet ==
  ASSUME IInv, LInv, Made, InOrder, Worked, Deliver, NEW c \in DOMAIN sections
  PROVE  /\ sections[c].relocs = << >> => {n \in OfType("RELA")' : Shdr(n)'.info = c} = {}
         /\ sections[c].relocs # << >> => \E j \in DOMAIN relaWork : relaWork[j].content = c
         /\ \A j \in DOMAIN relaWork : relaWork[j].content = c =>
              /\ sections[c].relocs # << >>
              /\ {n \in OfType("RELA")' : Shdr(n)'.info = c} = {Len(sections) + j}
              /\ \A q \in DOMAIN relaWork : relaWork[q].content = c => q = j
<1>1. PICK s \in Nat : s = SymtabIdx
  BY IndexPlaces
<1>2. PICK l \in Nat, r \in Nat :
        l = Len(sections) /\ r = Len(relaWork) /\ DOMAIN relaWork = 1 .. r /\ Base = 1 + l + r
  BY IndexPlaces DEF Base
<1>3. /\ \A j \in DOMAIN relaWork :
           /\ relaWork[j].content \in DOMAIN sections
           /\ sections[relaWork[j].content].relocs # << >>
           /\ \A q \in DOMAIN relaWork : j < q => relaWork[j].content < relaWork[q].content
      /\ sections[c].relocs # << >> => \E j \in DOMAIN relaWork : relaWork[j].content = c
  BY DEF Worked, Deliver, Phase3
<1>4. ASSUME NEW n \in OfType("RELA")'
      PROVE  \E j \in DOMAIN relaWork : n = l + j /\ Shdr(n)'.info = relaWork[j].content
  <2>1. n \in 1 .. s + 2 /\ l < n /\ n < Base
    BY <1>1, <1>2, ImageTypes
  <2>2. PICK j \in Nat : j = n - l
    BY <1>2, <2>1
  <2>3. j \in DOMAIN relaWork /\ n = l + j /\ n \in Nat
    BY <1>2, <2>1, <2>2
  <2>4. Shdr(n)'.info = relaWork[j].content
    BY <1>1, <1>2, <2>3, RelaFound
  <2>5. QED
    BY <2>3, <2>4
<1>5. ASSUME NEW j \in DOMAIN relaWork, relaWork[j].content = c
      PROVE  /\ sections[c].relocs # << >>
             /\ {n \in OfType("RELA")' : Shdr(n)'.info = c} = {l + j}
             /\ \A q \in DOMAIN relaWork : relaWork[q].content = c => q = j
  <2>1. sections[c].relocs # << >>
    BY <1>3, <1>5
  <2>2. ASSUME NEW q \in DOMAIN relaWork, relaWork[q].content = c PROVE q = j
    <3>1. ~(j < q) /\ ~(q < j)
      <4>1. c \in Nat
        BY IndexPlaces
      <4>2. QED
        BY <1>3, <1>5, <2>2, <4>1
    <3>2. QED
      BY <1>2, <3>1
  <2>3. PICK x \in Nat : x = l + j
    BY <1>2
  <2>4. x \in OfType("RELA")' /\ Shdr(x)'.info = c
    BY <1>1, <1>2, <1>5, <2>3, RelaFound
  <2>5. ASSUME NEW n \in OfType("RELA")', Shdr(n)'.info = c PROVE n = x
    <3>1. PICK q \in DOMAIN relaWork : n = l + q /\ Shdr(n)'.info = relaWork[q].content
      BY <1>4
    <3>2. q = j
      BY <2>2, <2>5, <3>1
    <3>3. QED
      BY <2>3, <3>1, <3>2
  <2>6. QED
    BY <2>1, <2>2, <2>3, <2>4, <2>5
<1>6. ASSUME sections[c].relocs = << >>, NEW n \in OfType("RELA")', Shdr(n)'.info = c
      PROVE  FALSE
  <2>1. PICK q \in DOMAIN relaWork : n = l + q /\ Shdr(n)'.info = relaWork[q].content
    BY <1>4
  <2>2. QED
    BY <1>3, <1>6, <2>1
<1>7. QED
  BY <1>2, <1>3, <1>5, <1>6


-----------------------------------------------------------------------------
(***************************************************************************)
(* What the relocations of a section become.                               *)
(***************************************************************************)
\* An addend that fits is stored as it is, and so is a symbol index.
LEMMA AddendKeeps ==
  ASSUME NEW arch, NEW a \in Int, Is64(arch) \/ a \in (0 - Half32) .. (Half32 - 1)
  PROVE  Addend(arch, a) = a
<1>1. CASE Is64(arch)
  BY <1>1 DEF Addend
<1>2. CASE ~Is64(arch)
  <2>1. PICK h \in Nat, w \in Nat : h = Half32 /\ w = 2 * Half32 /\ w = h + h /\ w > 0
    BY BoundsAssumption
  <2>2. a + h \in Nat /\ a + h < w
    BY <1>2, <2>1
  <2>3. (a + h) % w = a + h
    BY <2>1, <2>2
  <2>4. Int32(a) = ((a + h) % w) - h
    BY <2>1 DEF Int32
  <2>5. (a + h) - h = a
    BY <2>1
  <2>6. QED
    BY <1>2, <2>3, <2>4, <2>5 DEF Addend
<1>3. QED
  BY <1>1, <1>2

LEMMA SymNumKeeps ==
  ASSUME NEW arch, NEW n \in Nat, Is64(arch) \/ n < Word24 PROVE SymNum(arch, n) = n
<1>1. Word24 \in Nat
  BY BoundsAssumption
<1>2. CASE Is64(arch)
  BY <1>2 DEF SymNum
<1>3. CASE ~Is64(arch)
  BY <1>1, <1>3 DEF SymNum
<1>4. QED
  BY <1>2, <1>3

\* What a linker must find in entry e of relocation r.
EntryReaches(e, r) ==
  /\ e.offset = r.offset
  /\ Fits(r.addend) => e.addend = r.addend
  /\ FewSymbols => Called(e.sym, r.symbol) /\ Target(Symtab[e.sym + 1], r.symbol)

LEMMA EntryFound ==
  ASSUME IInv, LInv, Answers, Made, InOrder, Bound, Deliver, FewBytes',
         NEW c \in DOMAIN sections, NEW m \in DOMAIN sections[c].relocs,
         NEW r, r = sections[c].relocs[m], NEW e, e = RelaEntry(r)
  PROVE  EntryReaches(e, r)'
<1>1. PICK s \in Nat : s = SymtabIdx
  BY IndexPlaces
<1>2. /\ pc = "write" /\ img'.arch = opts.arch /\ added' = sections
  <2>1. img' = Image /\ added' = sections
    BY <1>1, ImageHeaders
  <2>2. QED
    BY <2>1 DEF Deliver, Image
<1>3. r.addend \in Int /\ r.symbol \in DOMAIN symIndex
  <2>1. r \in Reloc
    BY PlaceType
  <2>2. RelocOK(r)
    BY <1>2 DEF Answers, Converted, Phase3
  <2>3. QED
    BY <2>1, <2>2 DEF Reloc, RelocOK
<1>4. PICK name : name = r.symbol
  OBVIOUS
<1>5. PICK x : x = symIndex[name]
  OBVIOUS
<1>6. /\ e.offset = r.offset /\ e.addend = Addend(opts.arch, r.addend)
      /\ e.sym = SymNum(opts.arch, x)
  BY <1>4, <1>5 DEF RelaEntry
<1>7. Fits(r.addend)' => e.addend = r.addend
  <2>1. Fits(r.addend)' => Is64(opts.arch) \/ r.addend \in (0 - Half32) .. (Half32 - 1)
    BY <1>2 DEF Fits, Is64
  <2>2. QED
    BY <1>3, <1>6, <2>1, AddendKeeps
<1>8. x \in Nat /\ x < Len(syms) /\ x + 1 \in DOMAIN syms /\ Called(x, name)'
  BY <1>3, <1>4, <1>5, NameCalled
<1>9. Symtab' = syms
  BY <1>1, SymbolBytes
<1>10. PICK y : y = syms[x + 1]
  OBVIOUS
<1>11. Target(y, name)'
  <2>1. BoundTo(y, name)
    BY <1>2, <1>3, <1>4, <1>5, <1>10 DEF Bound
  <2>2. FewHeaders' => \A n \in DOMAIN sections : Uint16(n) = n
    <3>1. \A n \in DOMAIN sections : n \in Nat /\ n <= s + 3
      <4>1. Len(sections) \in Nat /\ DOMAIN sections = 1 .. Len(sections) /\ Len(sections) < s
        BY <1>1, IndexPlaces, ImageTypes
      <4>2. QED
        BY <4>1
    <3>2. QED
      BY <1>1, <3>1, FewNumbers
  <2>3. QED
    BY <1>2, <2>1, <2>2, TargetReached
<1>12. ASSUME FewSymbols'
       PROVE  Called(e.sym, name)' /\ Target(Symtab[e.sym + 1], name)'
  <2>1. Is64(opts.arch) \/ Len(syms) <= Word24
    BY <1>2, <1>9, <1>12 DEF FewSymbols, Is64
  <2>2. Is64(opts.arch) \/ x < Word24
    <3>1. Len(syms) \in Nat /\ Word24 \in Nat
      BY BoundsAssumption DEF IInv, TypeOK
    <3>2. QED
      BY <1>8, <2>1, <3>1
  <2>3. e.sym = x
    BY <1>6, <1>8, <2>2, SymNumKeeps
  <2>4. Symtab'[e.sym + 1] = y
    BY <1>9, <1>10, <2>3
  <2>5. Target(Symtab[e.sym + 1], name)'
    BY <1>11, <2>4 DEF Target, SymbolFor
  <2>6. QED
    BY <1>8, <2>3, <2>5
<1>13. QED
  BY <1>4, <1>6, <1>7, <1>12 DEF EntryReaches


\* The relocations of an image the build delivers.
LEMMA DeliverBinds ==
  ASSUME IInv, LInv, Answers, Made, InOrder, Bound, Worked, Deliver PROVE RelocationsBind'
<1>1. PICK s \in Nat : s = SymtabIdx
  BY IndexPlaces
<1>2. added' = sections /\ OfType("SYMTAB")' = {s}
  BY <1>1, ImageHeaders, ImageTypes
<1>3. ASSUME FewBytes', NEW c \in DOMAIN sections, sections[c].relocs # << >>
      PROVE  \E n \in OfType("RELA")' :
               /\ {q \in OfType("RELA")' : Shdr(q)'.info = c} = {n}
               /\ Shdr(n)'.info = c /\ Shdr(n)'.link = s
               /\ Len(Contents(Shdr(n))') = Len(sections[c].relocs)
               /\ \A m \in DOMAIN Contents(Shdr(n))' :
                    EntryReaches(Contents(Shdr(n))[m], sections[c].relocs[m])'
  <2>1. PICK j \in DOMAIN relaWork : relaWork[j].content = c
    BY <1>3, RelaSet
  <2>2. PICK n \in Nat : n = Len(sections) + j
    BY IndexPlaces
  <2>3. {q \in OfType("RELA")' : Shdr(q)'.info = c} = {n}
    BY <2>1, <2>2, RelaSet
  <2>4. /\ n \in OfType("RELA")' /\ Shdr(n)'.info = c /\ Shdr(n)'.link = s
        /\ Contents(Shdr(n))' = relaWork[j].data
    BY <1>1, <1>3, <2>1, <2>2, RelaFound
  <2>5. DOMAIN relaWork[j].data = DOMAIN sections[c].relocs
        /\ Len(relaWork[j].data) = Len(sections[c].relocs)
    <3>1. Len(relaWork[j].data) = Len(sections[c].relocs)
      BY <2>1 DEF IInv, RelasSound
    <3>2. sections[c].relocs \in Seq(Reloc)
      BY PlaceType
    <3>3. relaWork[j].data \in Seq(RelaEntries)
      <4>1. relaWork[j] \in RelaSections
        BY DEF IInv, TypeOK
      <4>2. QED
        BY <4>1 DEF RelaSections
    <3>4. QED
      BY <3>1, <3>2, <3>3
  <2>6. \A m \in DOMAIN relaWork[j].data :
          relaWork[j].data[m] = RelaEntry(sections[c].relocs[m])
    BY <2>1 DEF Worked, Deliver, Phase3
  <2>7. ASSUME NEW m \in DOMAIN relaWork[j].data
        PROVE  EntryReaches(Contents(Shdr(n))[m], sections[c].relocs[m])'
    <3>1. m \in DOMAIN sections[c].relocs
      BY <2>5
    <3>2. PICK r, e : r = sections[c].relocs[m] /\ e = RelaEntry(r)
      OBVIOUS
    <3>3. EntryReaches(e, r)'
      BY <1>3, <3>1, <3>2, EntryFound
    <3>4. Contents(Shdr(n))'[m] = e /\ sections'[c].relocs[m] = r
      BY <2>4, <2>6, <3>2 DEF Deliver, Return, file
    <3>5. QED
      BY <3>3, <3>4 DEF EntryReaches, Called, Target, SymbolFor
  <2>8. QED
    BY <2>3, <2>4, <2>5, <2>7
<1>4. ASSUME NEW c \in DOMAIN sections, sections[c].relocs = << >>
      PROVE  {q \in OfType("RELA")' : Shdr(q)'.info = c} = {}
  BY <1>4, RelaSet
<1>5. UNCHANGED sections
  BY DEF Deliver, Return, file
<1>6. QED
  BY <1>2, <1>3, <1>4, <1>5 DEF RelocationsBind, EntryReaches

\* What a linker resolves depends on the image and its input alone.
LEMMA SameTargets ==
  ASSUME UNCHANGED last
  PROVE  /\ SymtabShdr' = SymtabShdr /\ Symtab' = Symtab /\ Strtab' = Strtab
         /\ FewSymbols' = FewSymbols
         /\ \A n, name : Called(n, name)' <=> Called(n, name)
         /\ \A e, r : EntryReaches(e, r)' <=> EntryReaches(e, r)
<1>1. /\ img' = img /\ added' = added /\ Indices' = Indices /\ FewHeaders' = FewHeaders
      /\ \A n : Shdr(n)' = Shdr(n)
      /\ \A n : Contents(Shdr(n))' = Contents(Shdr(n))
      /\ \A t : OfType(t)' = OfType(t)
  BY SameImage
<1>2. SymtabShdr' = SymtabShdr
  BY <1>1 DEF SymtabShdr, Shdr
<1>3. Symtab' = Symtab
  BY <1>1, <1>2 DEF Symtab, Contents, ChunksOf
<1>4. Strtab' = Strtab
  <2>1. Contents(Shdr(SymtabShdr.link))' = Contents(Shdr(SymtabShdr.link))
    BY <1>1, <1>2 DEF Contents, ChunksOf, Shdr
  <2>2. QED
    BY <1>1, <1>2, <2>1 DEF Strtab
<1>5. \A n, name : Called(n, name)' <=> Called(n, name)
  BY <1>3, <1>4 DEF Called
<1>6. \A p : SymAt(p)' = SymAt(p)
  BY <1>1 DEF SymAt
<1>7. \A name : PlacesOf(name)' = PlacesOf(name)
  <2>1. Places' = Places
    BY <1>1 DEF Places
  <2>2. \A p : Entered(p)' <=> Entered(p)
    BY <1>6 DEF Entered
  <2>3. QED
    BY <1>6, <2>1, <2>2 DEF PlacesOf
<1>8. \A name : Exported(name)' = Exported(name)
  BY <1>6, <1>7 DEF Exported
<1>11. FewSymbols' = FewSymbols
  BY <1>1, <1>3 DEF FewSymbols
<1>12. \A a : Fits(a)' <=> Fits(a)
  BY <1>1 DEF Fits
<1>13. ASSUME NEW e, NEW r PROVE EntryReaches(e, r)' <=> EntryReaches(e, r)
  <2>1. Target(Symtab[e.sym + 1], r.symbol)' <=> Target(Symtab[e.sym + 1], r.symbol)
    BY <1>1, <1>3, <1>7, <1>8 DEF Target, SymbolFor, SymAt
  <2>2. QED
    BY <1>5, <1>11, <1>12, <2>1 DEF EntryReaches
<1>14. QED
  BY <1>2, <1>3, <1>4, <1>5, <1>11, <1>13

LEMMA SameBinding == ASSUME UNCHANGED last, RelocationsBind PROVE RelocationsBind'
<1>1. /\ Built' = Built /\ FewBytes' = FewBytes /\ added' = added
      /\ \A n : Shdr(n)' = Shdr(n)
      /\ \A n : Contents(Shdr(n))' = Contents(Shdr(n))
      /\ \A t : OfType(t)' = OfType(t)
  BY SameImage
<1>2. \A e, r : EntryReaches(e, r)' <=> EntryReaches(e, r)
  BY SameTargets
<1>3. QED
  BY <1>1, <1>2 DEF RelocationsBind, EntryReaches

LEMMA InitTables == Init => Answers /\ Bound /\ Worked
BY InitAnswers DEF Init, Bound, Worked, Phase3

\* In every image that is short enough for its class, each section that has
\* relocations has exactly one RELA section, with an entry for each of them
\* in their order; and a linker that follows an entry's symbol index through
\* .symtab reaches the symbol the caller meant: the last exported definition
\* of the name, else the last local one, else an undefined symbol of that
\* name, while the index fits r_info.
THEOREM ReferencesBind == Spec => []RelocationsBind
<1>1. Init => RelocationsBind
  BY InitReader DEF RelocationsBind
<1>2. IInv /\ LInv /\ Answers /\ Made /\ InOrder /\ Bound /\ Worked /\ RelocationsBind
        /\ [Next]_vars => RelocationsBind'
  <2> SUFFICES ASSUME IInv, LInv, Answers, Made, InOrder, Bound, Worked, RelocationsBind,
                      [Next]_vars
               PROVE  RelocationsBind'
    OBVIOUS
  <2>1. CASE Deliver
    BY <2>1, DeliverBinds
  <2>2. CASE ~Built'
    BY <2>2 DEF RelocationsBind
  <2>3. CASE UNCHANGED last
    BY <2>3, SameBinding
  <2>4. QED
    BY <2>1, <2>2, <2>3, OtherSteps
<1>3. QED
  BY Inductive, LayoutInductive, InitReader, InitTables, AnswersStep, MadeStep, InOrderStep,
     BoundStep, WorkedStep, <1>1, <1>2, PTL DEF Spec


-----------------------------------------------------------------------------
(***************************************************************************)
(* The COMDAT groups of the image.                                         *)
(***************************************************************************)
LEMMA FirstIn == ASSUME NEW S, S \subseteq Nat, S # {} PROVE First(S) \in S
<1>1. \E x \in S : \A y \in S : ~(<<y, x>> \in OpToRel(<, Nat))
  BY WFMin, NatLessThanWellFounded, Zenon
<1>2. PICK x \in S : \A y \in S : ~(<<y, x>> \in OpToRel(<, Nat))
  BY <1>1
<1>3. \A y \in S : x <= y
  <2> SUFFICES ASSUME NEW y \in S PROVE x <= y
    OBVIOUS
  <2>1. x \in Nat /\ y \in Nat
    BY <1>2
  <2>2. ~(y < x)
    BY <1>2, <2>1, Zenon DEF OpToRel
  <2>3. QED
    BY <2>1, <2>2
<1>4. QED
  BY <1>3, Zenon DEF First

\* The symbol that signs the group of section c, and the entry its name
\* stands for: not a local one, for an exported symbol wins over a local one.
LEMMA Signed ==
  ASSUME IInv, Answers, Bound, pc = "write", NEW c \in DOMAIN sections, sections[c].linkOnce
  PROVE  \E f \in DOMAIN sections[c].symbols, name \in DOMAIN symIndex :
           /\ f = First(Signatures(sections[c])) /\ name = sections[c].symbols[f].name
           /\ syms[symIndex[name] + 1].bind # "LOCAL"
<1>1. sections[c].symbols \in Seq(Symbol)
  BY PlaceType
<1>2. PICK x \in DOMAIN sections[c].symbols : sections[c].symbols[x].binding # "Local"
  BY DEF Answers, Grouped, Exports
<1>3. sections[c].symbols[x].name \in DOMAIN symIndex
  BY <1>2 DEF Answers, NamesIn, Label, Passes
<1>4. x \in Signatures(sections[c]) /\ Signatures(sections[c]) \subseteq Nat
  BY <1>1, <1>2, <1>3 DEF Signatures
<1>5. PICK f : f = First(Signatures(sections[c])) /\ f \in Signatures(sections[c])
  BY <1>4, FirstIn
<1>6. /\ f \in DOMAIN sections[c].symbols /\ sections[c].symbols[f].binding # "Local"
      /\ sections[c].symbols[f].name \in DOMAIN symIndex
  BY <1>5 DEF Signatures
<1>7. PICK name \in DOMAIN symIndex : name = sections[c].symbols[f].name
  BY <1>6
<1>8. PICK e : e = syms[symIndex[name] + 1]
  OBVIOUS
<1>9. BoundTo(e, name)
  BY <1>8 DEF Bound
<1>10. CASE \E n \in DOMAIN sections : \E m \in DOMAIN sections[n].symbols : Winner(e, name, n, m)
  <2>1. PICK n \in DOMAIN sections : \E m \in DOMAIN sections[n].symbols : Winner(e, name, n, m)
    BY <1>10
  <2>2. PICK m \in DOMAIN sections[n].symbols : Winner(e, name, n, m)
    BY <2>1
  <2>3. Gives(name, c, f) /\ Passed(c, f) /\ ~IsLocal(c, f)
    BY <1>6, <1>7 DEF Gives, Label, SymOf, Passed, Passes, IsLocal
  <2>4. Wins(n, m, c, f)
    BY <1>6, <2>2, <2>3 DEF Winner
  <2>5. ~IsLocal(n, m)
    BY <2>3, <2>4 DEF Wins
  <2>6. SymOf(n, m).binding \in Bindings
    <3>1. sections[n].symbols \in Seq(Symbol)
      BY PlaceType
    <3>2. sections[n].symbols[m] \in Symbol
      BY <3>1
    <3>3. QED
      BY <3>2 DEF SymOf, Symbol
  <2>7. e.bind = SymBind[SymOf(n, m).binding]
    BY <2>2 DEF Winner, EntryFor
  <2>8. e.bind # "LOCAL"
    BY <2>5, <2>6, <2>7 DEF IsLocal, Bindings, SymBind
  <2>9. QED
    BY <1>5, <1>6, <1>7, <1>8, <2>8
<1>11. CASE name \notin DefinedNames(sections) /\ e.shndx = 0 /\ e.bind = "GLOBAL"
  BY <1>5, <1>6, <1>7, <1>8, <1>11
<1>12. QED
  BY <1>9, <1>10, <1>11 DEF BoundTo

LEMMA PairJoin ==
  ASSUME NEW a, NEW b
  PROVE  /\ DOMAIN (<<a>> \o <<b>>) = {1, 2} /\ Len(<<a>> \o <<b>>) = 2
         /\ (<<a>> \o <<b>>)[1] = a /\ (<<a>> \o <<b>>)[2] = b
<1>1. PICK S : a \in S /\ b \in S
  <2>1. a \in {a, b} /\ b \in {a, b}
    OBVIOUS
  <2>2. QED
    BY <2>1
<1>2. <<a>> \in Seq(S) /\ <<b>> \in Seq(S) /\ Len(<<a>>) = 1 /\ Len(<<b>>) = 1
  BY <1>1
<1>3. PICK p \in Seq(S), q \in Seq(S) : p = <<a>> /\ q = <<b>>
  BY <1>2
<1>4. p \o q \in Seq(S) /\ Len(p \o q) = 2 /\ (p \o q)[1] = p[1] /\ (p \o q)[2] = q[1]
  BY <1>2, <1>3
<1>5. DOMAIN (p \o q) = {1, 2}
  BY <1>4
<1>6. QED
  BY <1>3, <1>4, <1>5

\* The members of the group of section c, with the sections the image has.
LEMMA MembersFound ==
  ASSUME IInv, LInv, Made, InOrder, Worked, Deliver, NEW c \in DOMAIN sections,
         NEW R, R = {m \in OfType("RELA")' : Shdr(m)'.info = c}
  PROVE  /\ Members(c) # << >> /\ Members(c)[1] = c
         /\ {Members(c)[m] : m \in DOMAIN Members(c)} = {c} \cup R
         /\ Len(Members(c)) = 1 + Cardinality(R) /\ Len(Members(c)) \in {1, 2}
<1>1. CASE sections[c].relocs = << >>
  <2>1. R = {} /\ ~(\E j \in DOMAIN relaWork : relaWork[j].content = c)
    BY <1>1, RelaSet
  <2>2. Members(c) = <<c>>
    BY <2>1 DEF Members
  <2>3. Cardinality(R) = 0
    BY <2>1, FS_EmptySet
  <2>4. DOMAIN Members(c) = {1}
    BY <2>2
  <2>5. QED
    BY <2>1, <2>2, <2>3, <2>4
<1>2. CASE sections[c].relocs # << >>
  <2>1. PICK j \in DOMAIN relaWork : relaWork[j].content = c
    BY <1>2, RelaSet
  <2>2. PICK n : n = Len(sections) + j
    OBVIOUS
  <2>3. R = {n} /\ \A q \in DOMAIN relaWork : relaWork[q].content = c => q = j
    BY <2>1, <2>2, RelaSet
  <2>4. (CHOOSE q \in DOMAIN relaWork : relaWork[q].content = c) = j
    BY <2>1, <2>3
  <2>5. Members(c) = <<c>> \o <<n>>
    <3>1. \E q \in DOMAIN relaWork : relaWork[q].content = c
      BY <2>1
    <3>2. Members(c) =
            <<c>> \o <<Len(sections) + (CHOOSE q \in DOMAIN relaWork : relaWork[q].content = c)>>
      BY <3>1 DEF Members
    <3>3. QED
      BY <2>2, <2>4, <3>2
  <2>6. Cardinality(R) = 1
    BY <2>3, FS_Singleton
  <2>7. DOMAIN Members(c) = {1, 2} /\ Members(c)[1] = c /\ Members(c)[2] = n /\ Len(Members(c)) = 2
    BY <2>5, PairJoin
  <2>8. Members(c) # << >>
    BY <2>7
  <2>9. QED
    BY <2>3, <2>6, <2>7, <2>8
<1>3. QED
  BY <1>1, <1>2

\* The group of section c in the image.
LEMMA GroupFound ==
  ASSUME IInv, LInv, Answers, Made, InOrder, Bound, Worked, Deliver, FewBytes',
         NEW s \in Nat, s = SymtabIdx, NEW c \in DOMAIN sections, sections[c].linkOnce
  PROVE  \E n \in OfType("GROUP")' :
           /\ Contents(Shdr(n))' = Members(c) /\ Shdr(n)'.link = s
           /\ \E f \in DOMAIN sections[c].symbols :
                /\ Shdr(n)'.info + 1 \in DOMAIN syms /\ syms[Shdr(n)'.info + 1].bind # "LOCAL"
                /\ Called(Shdr(n).info, sections[c].symbols[f].name)'
<1>1. PICK b \in Nat, g \in Nat, t \in Nat : b = Base /\ g = GroupCount /\ s = b + g + t /\ b >= 1
  <2>1. Base \in Nat /\ Base >= 1
    BY IndexPlaces DEF Base
  <2>2. GroupCount \in Nat /\ StackCount \in Nat /\ s = Base + GroupCount + StackCount
    BY IndexPlaces
  <2>3. QED
    BY <2>1, <2>2
<1>2. PICK d \in Nat : d = Cardinality(Groups(c)) /\ d < g /\ GroupOf(d) = c
  BY <1>1, GroupPlace DEF IInv
<1>3. PICK n \in Nat : n = b + d
  BY <1>1, <1>2
<1>4. n \in 1 .. s + 2 /\ Base <= n /\ n < b + g /\ n - Base = d
  BY <1>1, <1>2, <1>3
<1>5. n \in OfType("GROUP")'
  BY <1>1, <1>4, ImageTypes
<1>6. Meant(n) = GroupDesc(c)
  <2>1. ~(n <= Len(sections)) /\ ~(n < Base) /\ n < Base + GroupCount
    <3>1. Len(sections) \in Nat /\ Len(sections) < Base /\ Base \in Nat
      BY IndexPlaces DEF Base
    <3>2. QED
      BY <1>1, <1>4, <3>1
  <2>2. QED
    BY <1>2, <1>4, <2>1 DEF Meant
<1>7. PICK f \in DOMAIN sections[c].symbols, name \in DOMAIN symIndex :
        /\ f = First(Signatures(sections[c])) /\ name = sections[c].symbols[f].name
        /\ syms[symIndex[name] + 1].bind # "LOCAL"
  BY Signed DEF Deliver
<1>8. /\ Meant(n).type = "GROUP" /\ Meant(n).link = s /\ Meant(n).data = Members(c)
      /\ Meant(n).size = 4 * (1 + Len(Members(c)))
      /\ Meant(n).info = symIndex[name]
  BY <1>6, <1>7 DEF GroupDesc, NullDesc
<1>9. Meant(n).size > 0
  <2>1. Len(Members(c)) \in {1, 2}
    BY MembersFound
  <2>2. QED
    BY <1>8, <2>1
<1>10. Contents(Shdr(n))' = Members(c)
  BY <1>4, <1>8, <1>9, ShdrBytes
<1>11. PICK x : x = symIndex[name]
  OBVIOUS
<1>12. Shdr(n)'.link = s /\ Shdr(n)'.info = x
  BY <1>4, <1>8, <1>11, ShdrFields
<1>13. x + 1 \in DOMAIN syms /\ Called(x, name)'
  BY <1>11, NameCalled
<1>14. Called(Shdr(n).info, name)'
  BY <1>12, <1>13 DEF Called
<1>15. (sections[c].symbols[f].name)' = name
  BY <1>7 DEF Deliver, Return, file
<1>16. Called(Shdr(n).info, sections[c].symbols[f].name)'
  BY <1>14, <1>15 DEF Called
<1>17. QED
  BY <1>5, <1>7, <1>10, <1>11, <1>12, <1>13, <1>16


\* The groups of an image the build delivers.
LEMMA DeliverGroups ==
  ASSUME IInv, LInv, Answers, Made, InOrder, Bound, Worked, Deliver PROVE GroupsSound'
<1>1. PICK s \in Nat : s = SymtabIdx
  BY IndexPlaces
<1>2. added' = sections /\ OfType("SYMTAB")' = {s} /\ UNCHANGED sections
  BY <1>1, ImageHeaders, ImageTypes DEF Deliver, Return, file
<1>3. Cardinality(OfType("GROUP")') = Cardinality({c \in DOMAIN sections : sections[c].linkOnce})
  <2>1. PICK b \in Nat, g \in Nat, t \in Nat : b = Base /\ g = GroupCount /\ s = b + g + t /\ b >= 1
    <3>1. Base \in Nat /\ Base >= 1
      BY IndexPlaces DEF Base
    <3>2. GroupCount \in Nat /\ StackCount \in Nat /\ s = Base + GroupCount + StackCount
      BY <1>1, IndexPlaces
    <3>3. QED
      BY <3>1, <3>2
  <2>2. OfType("GROUP")' = {n \in 1 .. s + 2 : b <= n /\ n < b + g}
    BY <1>1, <2>1, ImageTypes
  <2>3. {n \in 1 .. s + 2 : b <= n /\ n < b + g} = b .. b + g - 1
    BY <2>1
  <2>4. Cardinality(b .. b + g - 1) = g
    <3>1. PICK u \in Int : u = b + g - 1
      BY <2>1
    <3>2. Cardinality(b .. u) = IF b > u THEN 0 ELSE u - b + 1
      BY FS_Interval
    <3>3. QED
      BY <2>1, <3>1, <3>2
  <2>5. QED
    BY <2>1, <2>2, <2>3, <2>4 DEF GroupCount
<1>4. ASSUME FewBytes', NEW c \in DOMAIN sections, sections[c].linkOnce
      PROVE  \E n \in OfType("GROUP")' :
               /\ Contents(Shdr(n))' # << >> /\ Contents(Shdr(n))'[1] = c
               /\ {Contents(Shdr(n))'[m] : m \in DOMAIN Contents(Shdr(n))'}
                    = {c} \cup {m \in OfType("RELA")' : Shdr(m)'.info = c}
               /\ Len(Contents(Shdr(n))')
                    = 1 + Cardinality({m \in OfType("RELA")' : Shdr(m)'.info = c})
               /\ OfType("SYMTAB")' = {Shdr(n)'.link}
               /\ Shdr(n)'.info + 1 \in DOMAIN Symtab'
               /\ Symtab'[Shdr(n)'.info + 1].bind # "LOCAL"
               /\ \E m \in DOMAIN added'[c].symbols :
                    Called(Shdr(n).info, added[c].symbols[m].name)'
  <2>1. PICK n \in OfType("GROUP")' :
           /\ Contents(Shdr(n))' = Members(c) /\ Shdr(n)'.link = s
           /\ \E f \in DOMAIN sections[c].symbols :
                /\ Shdr(n)'.info + 1 \in DOMAIN syms /\ syms[Shdr(n)'.info + 1].bind # "LOCAL"
                /\ Called(Shdr(n).info, sections[c].symbols[f].name)'
    BY <1>1, <1>4, GroupFound
  <2>2. Symtab' = syms
    BY <1>1, <1>4, SymbolBytes
  <2>3. PICK R : R = {m \in OfType("RELA")' : Shdr(m)'.info = c}
    OBVIOUS
  <2>4. PICK ms : ms = Members(c) /\ Contents(Shdr(n))' = ms
    BY <2>1
  <2>5. /\ ms # << >> /\ ms[1] = c /\ Len(ms) = 1 + Cardinality(R)
    BY <2>3, <2>4, MembersFound
  <2>6. {Contents(Shdr(n))'[m] : m \in DOMAIN Contents(Shdr(n))'}
          = {c} \cup {m \in OfType("RELA")' : Shdr(m)'.info = c}
    <3>1. {Members(c)[m] : m \in DOMAIN Members(c)} = {c} \cup R
      BY <2>3, MembersFound
    <3>2. {Contents(Shdr(n))'[m] : m \in DOMAIN Contents(Shdr(n))'}
            = {Members(c)[m] : m \in DOMAIN Members(c)}
      BY <2>1
    <3>3. QED
      BY <2>3, <3>1, <3>2
  <2>7. Len(Contents(Shdr(n))') = 1 + Cardinality({m \in OfType("RELA")' : Shdr(m)'.info = c})
    BY <2>3, <2>4, <2>5
  <2>8. PICK f \in DOMAIN sections[c].symbols :
          Called(Shdr(n).info, sections[c].symbols[f].name)'
    BY <2>1
  <2>9. Called(Shdr(n).info, added[c].symbols[f].name)' /\ f \in DOMAIN added'[c].symbols
    BY <1>2, <2>8 DEF Called
  <2>10. QED
    BY <1>2, <2>1, <2>2, <2>4, <2>5, <2>6, <2>7, <2>9
<1>5. QED
  BY <1>2, <1>3, <1>4 DEF GroupsSound

LEMMA SameGroups == ASSUME UNCHANGED last, GroupsSound PROVE GroupsSound'
<1>1. /\ Built' = Built /\ FewBytes' = FewBytes /\ added' = added
      /\ \A n : Shdr(n)' = Shdr(n)
      /\ \A n : Contents(Shdr(n))' = Contents(Shdr(n))
      /\ \A t : OfType(t)' = OfType(t)
  BY SameImage
<1>2. Symtab' = Symtab /\ \A n, name : Called(n, name)' <=> Called(n, name)
  BY SameTargets
<1>3. ASSUME Built, FewBytes, NEW c \in DOMAIN added, added[c].linkOnce
      PROVE  \E n \in OfType("GROUP")' :
               /\ Contents(Shdr(n))' # << >> /\ Contents(Shdr(n))'[1] = c
               /\ {Contents(Shdr(n))'[m] : m \in DOMAIN Contents(Shdr(n))'}
                    = {c} \cup {m \in OfType("RELA")' : Shdr(m)'.info = c}
               /\ Len(Contents(Shdr(n))')
                    = 1 + Cardinality({m \in OfType("RELA")' : Shdr(m)'.info = c})
               /\ OfType("SYMTAB")' = {Shdr(n)'.link}
               /\ Shdr(n)'.info + 1 \in DOMAIN Symtab'
               /\ Symtab'[Shdr(n)'.info + 1].bind # "LOCAL"
               /\ \E m \in DOMAIN added[c].symbols :
                    Called(Shdr(n).info, added[c].symbols[m].name)'
  <2>1. PICK n \in OfType("GROUP") :
          /\ Contents(Shdr(n)) # << >> /\ Contents(Shdr(n))[1] = c
          /\ {Contents(Shdr(n))[m] : m \in DOMAIN Contents(Shdr(n))}
               = {c} \cup {m \in OfType("RELA") : Shdr(m).info = c}
          /\ Len(Contents(Shdr(n)))
               = 1 + Cardinality({m \in OfType("RELA") : Shdr(m).info = c})
          /\ OfType("SYMTAB") = {Shdr(n).link}
          /\ Shdr(n).info + 1 \in DOMAIN Symtab
          /\ Symtab[Shdr(n).info + 1].bind # "LOCAL"
          /\ \E m \in DOMAIN added[c].symbols :
               Called(Shdr(n).info, added[c].symbols[m].name)
    BY <1>3 DEF GroupsSound
  <2>2. Contents(Shdr(n))' = Contents(Shdr(n)) /\ Shdr(n)' = Shdr(n)
    BY <1>1
  <2>3. {m \in OfType("RELA")' : Shdr(m)'.info = c} = {m \in OfType("RELA") : Shdr(m).info = c}
    BY <1>1
  <2>4. {Contents(Shdr(n))'[m] : m \in DOMAIN Contents(Shdr(n))'}
          = {Contents(Shdr(n))[m] : m \in DOMAIN Contents(Shdr(n))}
    BY <2>2
  <2>5. \E m \in DOMAIN added[c].symbols :
               Called(Shdr(n).info, added[c].symbols[m].name)'
    BY <1>1, <1>2, <2>1, <2>2 DEF Called
  <2>6. QED
    BY <1>1, <1>2, <2>1, <2>2, <2>3, <2>4, <2>5
<1>4. ASSUME Built, FewBytes
      PROVE  Cardinality(OfType("GROUP")') = Cardinality({c \in DOMAIN added' : added'[c].linkOnce})
  BY <1>1, <1>4 DEF GroupsSound
<1>5. QED
  BY <1>1, <1>3, <1>4 DEF GroupsSound

\* In every image that is short enough for its class there is exactly one
\* COMDAT group for each FlagLinkOnce section: it holds that section and its
\* RELA section when it has one, and is signed by a symbol that is not local,
\* with a name the section gives.
THEOREM GroupsHold == Spec => []GroupsSound
<1>1. Init => GroupsSound
  BY InitReader DEF GroupsSound
<1>2. IInv /\ LInv /\ Answers /\ Made /\ InOrder /\ Bound /\ Worked /\ GroupsSound
        /\ [Next]_vars => GroupsSound'
  <2> SUFFICES ASSUME IInv, LInv, Answers, Made, InOrder, Bound, Worked, GroupsSound,
                      [Next]_vars
               PROVE  GroupsSound'
    OBVIOUS
  <2>1. CASE Deliver
    BY <2>1, DeliverGroups
  <2>2. CASE ~Built'
    BY <2>2 DEF GroupsSound
  <2>3. CASE UNCHANGED last
    BY <2>3, SameGroups
  <2>4. QED
    BY <2>1, <2>2, <2>3, OtherSteps
<1>3. QED
  BY Inductive, LayoutInductive, InitReader, InitTables, AnswersStep, MadeStep, InOrderStep,
     BoundStep, WorkedStep, <1>1, <1>2, PTL DEF Spec

-----------------------------------------------------------------------------
(***************************************************************************)
(* The symbol table is complete: behind the null symbol and the section    *)
(* symbols there is one entry for each place the passes have entered, then *)
(* one for each undefined name entered so far, in increasing order.        *)
(***************************************************************************)
AllPlaces == UNION {{c} \X DOMAIN sections[c].symbols : c \in DOMAIN sections}

\* The places entered so far, the entries up to the last of them, and the
\* undefined names entered so far.
Entries == {p \in AllPlaces : ~Label(p[1], p[2]) /\ Passed(p[1], p[2])}
Mid     == 1 + Len(sections) + Cardinality(Entries)
Externs == ExternalSymbols(sections) \cap DOMAIN symIndex

HeadsIn ==
  /\ Len(syms) > 0 /\ syms[1] = NullSym
  /\ \A c \in DOMAIN sections : c + 1 \in DOMAIN syms /\ syms[c + 1] = SectionSym(c)

HasEntry(name, a, b) ==
  \E n \in DOMAIN syms : ReadsAs(strtab.data, syms[n].name, name) /\ EntryFor(syms[n], a, b)

EntriesIn(E, mid) ==
  /\ mid <= Len(syms)
  /\ \A p \in E : HasEntry(SymOf(p[1], p[2]).name, p[1], p[2])
  /\ \A n \in DOMAIN syms :
       1 + Len(sections) < n /\ n <= mid => \E p \in E : syms[n].shndx = Uint16(p[1])

ExternsIn(X, mid) ==
  /\ \A n \in DOMAIN syms :
       n > mid => syms[n].shndx = 0 /\ \E name \in X : symIndex[name] + 1 = n
  /\ \A name \in X : mid <= symIndex[name]
  /\ \A a, b \in X : Rank(a) < Rank(b) => symIndex[a] < symIndex[b]

Tabled ==
  pc # "idle" =>
    /\ HeadsIn
    /\ IsFiniteSet(Entries) /\ EntriesIn(Entries, Mid)
    /\ ExternsIn(Externs, Mid)
    /\ pc \in Passes => Externs = {}
    /\ pc = "externs" => \A a \in Externs, b \in Undefined : Rank(a) < Rank(b)


LEMMA AnyPlace ==
  /\ \A p \in AllPlaces :
       p = <<p[1], p[2]>> /\ p[1] \in DOMAIN sections /\ p[2] \in DOMAIN sections[p[1]].symbols
  /\ \A a \in DOMAIN sections : \A b \in DOMAIN sections[a].symbols :
       <<a, b>> \in AllPlaces /\ <<a, b>>[1] = a /\ <<a, b>>[2] = b
<1>1. ASSUME NEW p \in AllPlaces
      PROVE  /\ p = <<p[1], p[2]>> /\ p[1] \in DOMAIN sections
             /\ p[2] \in DOMAIN sections[p[1]].symbols
  <2>1. PICK c \in DOMAIN sections : p \in {c} \X DOMAIN sections[c].symbols
    BY DEF AllPlaces
  <2>2. p = <<p[1], p[2]>> /\ p[1] = c /\ p[2] \in DOMAIN sections[c].symbols
    BY <2>1
  <2>3. QED
    BY <2>2
<1>2. ASSUME NEW a \in DOMAIN sections, NEW b \in DOMAIN sections[a].symbols
      PROVE  <<a, b>> \in AllPlaces /\ <<a, b>>[1] = a /\ <<a, b>>[2] = b
  <2>1. <<a, b>> \in {a} \X DOMAIN sections[a].symbols
    OBVIOUS
  <2>2. QED
    BY <2>1 DEF AllPlaces
<1>3. QED
  BY <1>1, <1>2

\* An entry is one of a place that a pass has come by.
LEMMA EntryPlace ==
  ASSUME NEW p \in Entries
  PROVE  /\ p = <<p[1], p[2]>> /\ p[1] \in DOMAIN sections
         /\ p[2] \in DOMAIN sections[p[1]].symbols
         /\ ~Label(p[1], p[2]) /\ Passed(p[1], p[2])
BY AnyPlace DEF Entries

LEMMA EntriesKeep ==
  ASSUME UNCHANGED sections,
         \A a \in DOMAIN sections : \A b \in DOMAIN sections[a].symbols :
           ~Label(a, b) => (Passed(a, b)' <=> Passed(a, b))
  PROVE  Entries' = Entries
<1>1. AllPlaces' = AllPlaces
  BY DEF AllPlaces
<1>2. \A a, b : Label(a, b)' <=> Label(a, b)
  BY DEF Label
<1>3. ASSUME NEW p \in AllPlaces
      PROVE  ~Label(p[1], p[2])' /\ Passed(p[1], p[2])' <=> ~Label(p[1], p[2]) /\ Passed(p[1], p[2])
  BY <1>2, AnyPlace
<1>4. QED
  BY <1>1, <1>3 DEF Entries

\* DefineSymbol enters a place that was not entered before.
LEMMA EntriesGrow ==
  ASSUME IInv, DefineSymbol
  PROVE  Entries' = Entries \cup {<<i, k>>} /\ <<i, k>> \notin Entries
<1>1. /\ pc \in Passes /\ pc' = pc /\ UNCHANGED sections
      /\ i \in DOMAIN sections /\ k \in DOMAIN sections[i].symbols
  BY AtPlace
<1>2. PICK n, m : n \in DOMAIN sections /\ m \in DOMAIN sections[n].symbols /\ n = i /\ m = k
  BY <1>1
<1>3. Wanted(SymOf(n, m))
  BY <1>2 DEF DefineSymbol, SymOf
<1>4. /\ ~Label(n, m) /\ (IsLocal(n, m) <=> pc = "locals")
      /\ pc = "globals" \/ IsLocal(n, m)
  BY <1>1, <1>3 DEF Wanted, Label, IsLocal, SymOf, Passes
<1>5. Passed(n, m)'
  BY <1>2, <1>4, PassOne
<1>6. ~Passed(n, m)
  <2>1. n \in Nat /\ m \in Nat
    BY <1>2, PlaceType
  <2>2. ~(n < i) /\ ~(m < k)
    BY <1>2, <2>1
  <2>3. QED
    BY <1>1, <1>4, <2>2 DEF Passed, Seen, Passes, IsLocal, SymOf
<1>7. /\ AllPlaces' = AllPlaces
      /\ \A a, b : Label(a, b)' <=> Label(a, b)
  BY <1>1 DEF Label, AllPlaces
<1>8. ASSUME NEW p \in Entries' PROVE p \in Entries \cup {<<n, m>>}
  <2>1. p \in AllPlaces /\ ~Label(p[1], p[2]) /\ Passed(p[1], p[2])'
    BY <1>7 DEF Entries
  <2>2. PICK a, b : /\ a = p[1] /\ b = p[2] /\ p = <<a, b>>
                    /\ a \in DOMAIN sections /\ b \in DOMAIN sections[a].symbols
    BY <2>1, AnyPlace
  <2>3. CASE a = i /\ b = k
    BY <1>2, <2>2, <2>3
  <2>4. CASE ~(a = i /\ b = k)
    <3>1. Passed(a, b)
      BY <2>1, <2>2, <2>4, PassOne
    <3>2. QED
      BY <2>1, <2>2, <3>1 DEF Entries
  <2>5. QED
    BY <2>3, <2>4
<1>9. ASSUME NEW p \in Entries PROVE p \in Entries' /\ p # <<n, m>>
  <2>1. p \in AllPlaces /\ ~Label(p[1], p[2]) /\ Passed(p[1], p[2])
    BY DEF Entries
  <2>2. PICK a, b : /\ a = p[1] /\ b = p[2] /\ p = <<a, b>>
                    /\ a \in DOMAIN sections /\ b \in DOMAIN sections[a].symbols
    BY <2>1, AnyPlace
  <2>3. ~(a = n /\ b = m)
    BY <1>6, <2>1, <2>2
  <2>4. Passed(a, b)'
    BY <1>2, <2>1, <2>2, <2>3, PassOne
  <2>5. ~Label(p[1], p[2])' /\ Passed(p[1], p[2])' /\ p \in AllPlaces'
    BY <1>7, <2>1, <2>2, <2>4
  <2>6. QED
    BY <2>2, <2>3, <2>5 DEF Entries
<1>10. <<n, m>> \in Entries'
  <2>1. PICK p : p = <<n, m>> /\ p[1] = n /\ p[2] = m /\ p \in AllPlaces
    BY <1>2, AnyPlace
  <2>2. ~Label(p[1], p[2])' /\ Passed(p[1], p[2])' /\ p \in AllPlaces'
    BY <1>4, <1>5, <1>7, <2>1
  <2>3. QED
    BY <2>1, <2>2 DEF Entries
<1>11. QED
  BY <1>2, <1>8, <1>9, <1>10


\* The tables stay right while they stay what they are.
LEMMA KeepTabled ==
  ASSUME Tabled, pc # "idle", UNCHANGED <<sections, strtab, symIndex, syms>>,
         Entries' = Entries, pc' \in Passes => pc \in Passes,
         pc' = "externs" => pc \in Passes \cup {"externs"}
  PROVE  Tabled'
<1>1. /\ HeadsIn /\ IsFiniteSet(Entries) /\ EntriesIn(Entries, Mid)
      /\ ExternsIn(Externs, Mid)
      /\ pc \in Passes => Externs = {}
      /\ pc = "externs" => \A a \in Externs, b \in Undefined : Rank(a) < Rank(b)
  BY DEF Tabled
<1>2. /\ Mid' = Mid /\ Externs' = Externs /\ Undefined' = Undefined
  BY DEF Mid, Externs, Undefined
<1>3. HeadsIn'
  BY <1>1 DEF HeadsIn
<1>4. \A a, b, name : HasEntry(name, a, b)' <=> HasEntry(name, a, b)
  BY DEF HasEntry, EntryFor, SymOf
<1>5. EntriesIn(Entries, Mid)'
  <2>1. PICK E, mid : E = Entries /\ mid = Mid
    OBVIOUS
  <2>2. EntriesIn(E, mid)'
    BY <1>1, <1>4, <2>1 DEF EntriesIn, SymOf
  <2>3. QED
    BY <1>2, <2>1, <2>2 DEF EntriesIn
<1>6. ExternsIn(Externs, Mid)'
  <2>1. PICK X, mid : X = Externs /\ mid = Mid
    OBVIOUS
  <2>2. ExternsIn(X, mid)'
    BY <1>1, <2>1 DEF ExternsIn
  <2>3. QED
    BY <1>2, <2>1, <2>2 DEF ExternsIn
<1>7. /\ pc' \in Passes => Externs' = {}
      /\ pc' = "externs" => \A a \in Externs', b \in Undefined' : Rank(a) < Rank(b)
  BY <1>1, <1>2
<1>8. IsFiniteSet(Entries)'
  BY <1>1
<1>9. QED
  BY <1>3, <1>5, <1>6, <1>7, <1>8 DEF Tabled

LEMMA WriteToTabled == ASSUME IInv, Answers, WriteTo PROVE Tabled'
<1>1. /\ pc' = "locals" /\ i = 1 /\ k = 1
      /\ UNCHANGED <<i, k, sections, strtab, symIndex>>
      /\ syms' = <<NullSym>> \o [n \in 1 .. Len(sections) |-> SectionSym(n)]
  BY DEF WriteTo, Answers, file
<1>2. Entries' = {}
  <2> SUFFICES ASSUME NEW p \in Entries' PROVE FALSE
    OBVIOUS
  <2>1. AllPlaces' = AllPlaces
    BY <1>1 DEF AllPlaces
  <2>2. p \in AllPlaces /\ Passed(p[1], p[2])'
    BY <2>1 DEF Entries
  <2>3. PICK a, b : /\ a = p[1] /\ b = p[2]
                    /\ a \in DOMAIN sections /\ b \in DOMAIN sections[a].symbols
    BY <2>2, AnyPlace
  <2>4. ~(a < 1) /\ ~(b < 1)
    BY <2>3, PlaceType
  <2>5. ~Passed(a, b)'
    BY <1>1, <2>4 DEF Passed, Seen, Passes
  <2>6. QED
    BY <2>2, <2>3, <2>5
<1>3. Externs' = {}
  BY <1>1 DEF Externs, EmptyMap, IInv, Shape, WriteTo
<1>4. Len(sections) \in Nat /\ DOMAIN sections = 1 .. Len(sections)
  BY DEF IInv, TypeOK
<1>5. /\ Len(syms') = 1 + Len(sections) /\ DOMAIN syms' = 1 .. 1 + Len(sections)
      /\ syms'[1] = NullSym
      /\ \A c \in 1 .. Len(sections) : syms'[c + 1] = SectionSym(c)
  <2> DEFINE tail == [n \in 1 .. Len(sections) |-> SectionSym(n)]
  <2>1. tail \in Seq({SectionSym(n) : n \in 1 .. Len(sections)}) /\ Len(tail) = Len(sections)
    BY <1>4
  <2>2. <<NullSym>> \in Seq({NullSym}) /\ Len(<<NullSym>>) = 1 /\ <<NullSym>>[1] = NullSym
    OBVIOUS
  <2>3. \A c \in 1 .. Len(sections) : tail[c] = SectionSym(c)
    OBVIOUS
  <2> HIDE DEF tail
  <2>4. /\ Len(<<NullSym>> \o tail) = 1 + Len(sections)
        /\ DOMAIN (<<NullSym>> \o tail) = 1 .. 1 + Len(sections)
        /\ (<<NullSym>> \o tail)[1] = NullSym
        /\ \A c \in 1 .. Len(sections) : (<<NullSym>> \o tail)[c + 1] = tail[c]
    BY <1>4, <2>1, <2>2
  <2>5. syms' = <<NullSym>> \o tail
    BY <1>1 DEF tail
  <2>6. QED
    BY <2>3, <2>4, <2>5
<1>6. IsFiniteSet(Entries') /\ Mid' = 1 + Len(sections)
  <2>1. IsFiniteSet({}) /\ Cardinality({}) = 0
    BY FS_EmptySet
  <2>2. QED
    BY <1>1, <1>2, <1>4, <2>1 DEF Mid
<1>7. HeadsIn'
  BY <1>1, <1>4, <1>5 DEF HeadsIn
<1>8. EntriesIn(Entries, Mid)'
  BY <1>1, <1>2, <1>4, <1>5, <1>6 DEF EntriesIn
<1>9. ExternsIn(Externs, Mid)'
  BY <1>1, <1>3, <1>4, <1>5, <1>6 DEF ExternsIn
<1>10. QED
  BY <1>1, <1>3, <1>6, <1>7, <1>8, <1>9 DEF Tabled, Passes

\* What an entry added at the end leaves alone.
LEMMA EnterKeeps ==
  ASSUME IInv, HeadsIn, UNCHANGED sections, NEW name \in Name, NEW e,
         syms' = Append(syms, e), strtab' = Intern(strtab, name)
  PROVE  /\ HeadsIn'
         /\ Len(syms) \in Nat /\ Len(syms') = Len(syms) + 1
         /\ DOMAIN syms = 1 .. Len(syms) /\ DOMAIN syms' = 1 .. Len(syms) + 1
         /\ \A n \in 1 .. Len(syms) : syms'[n] = syms[n]
         /\ syms'[Len(syms) + 1] = e
         /\ ReadsAs(strtab'.data, OffsetOf(strtab, name), name)
         /\ \A a, b : EntryFor(e, a, b)' <=> EntryFor(e, a, b)
         /\ \A other \in Name : \A a, b : HasEntry(other, a, b) => HasEntry(other, a, b)'
<1>1. syms \in Seq(SymEntry) /\ Len(syms) \in Nat
  BY DEF IInv, TypeOK
<1>2. /\ Len(syms') = Len(syms) + 1
      /\ DOMAIN syms = 1 .. Len(syms) /\ DOMAIN syms' = 1 .. Len(syms) + 1
      /\ \A n \in 1 .. Len(syms) : syms'[n] = syms[n]
      /\ syms'[Len(syms) + 1] = e
  BY <1>1
<1>3. HeadsIn'
  BY <1>1, <1>2 DEF HeadsIn
<1>4. /\ StrTabOK(strtab')
      /\ Extends(strtab'.data, strtab.data)
      /\ ReadsAs(strtab'.data, OffsetOf(strtab, name), name)
  BY InternLemma DEF IInv, TypeOK
<1>5. strtab.data \in Seq(Char \cup {NUL}) /\ strtab'.data \in Seq(Char \cup {NUL})
  BY <1>4 DEF IInv, TypeOK, StrTabOK, Consistent
<1>6. \A x, a, b : EntryFor(x, a, b)' <=> EntryFor(x, a, b)
  BY DEF EntryFor, SymOf
<1>7. ASSUME NEW other \in Name, NEW a, NEW b, HasEntry(other, a, b)
      PROVE  HasEntry(other, a, b)'
  <2>1. PICK n \in DOMAIN syms :
          ReadsAs(strtab.data, syms[n].name, other) /\ EntryFor(syms[n], a, b)
    BY <1>7 DEF HasEntry
  <2>2. n \in DOMAIN syms' /\ syms'[n] = syms[n]
    BY <1>1, <1>2
  <2>3. syms[n].name \in Nat
    <3>1. syms[n] \in SymEntry
      BY <1>1, <1>2
    <3>2. QED
      BY <3>1 DEF SymEntry
  <2>4. ReadsAs(strtab'.data, syms[n].name, other)
    BY <1>4, <1>5, <2>1, <2>3, ReadsAsExtends
  <2>5. PICK x : x = syms[n]
    OBVIOUS
  <2>6. EntryFor(x, a, b)'
    BY <1>6, <2>1, <2>5
  <2>7. EntryFor(syms[n], a, b)'
    BY <2>2, <2>5, <2>6 DEF EntryFor
  <2>8. QED
    BY <2>2, <2>4, <2>7 DEF HasEntry
<1>8. QED
  BY <1>1, <1>2, <1>3, <1>4, <1>6, <1>7


\* sort.Strings puts the undefined names of any file in one order.
LEMMA Ranked ==
  ASSUME IInv
  PROVE  \A a, b \in ExternalSymbols(sections) :
           a \in Name /\ Rank(a) \in Nat /\ (Rank(a) = Rank(b) => a = b)
<1>1. ASSUME NEW name \in ExternalSymbols(sections)
      PROVE  name \in Name /\ name \in UNION {ReferencedNames(<<s>>) : s \in Sections}
  <2>1. PICK n \in DOMAIN sections : \E m \in DOMAIN sections[n].relocs :
          name = sections[n].relocs[m].symbol
    BY DEF ExternalSymbols, ReferencedNames
  <2>2. PICK m \in DOMAIN sections[n].relocs : name = sections[n].relocs[m].symbol
    BY <2>1
  <2>3. sections[n].relocs \in Seq(Reloc)
    BY PlaceType
  <2>4. sections[n].relocs[m] \in Reloc
    BY <2>3
  <2>5. name \in Name
    BY <2>2, <2>4 DEF Reloc
  <2>6. PICK s \in Sections : s = sections[n]
    BY DEF IInv, TypeOK
  <2>7. name \in ReferencedNames(<<s>>)
    <3>1. DOMAIN <<s>> = {1} /\ <<s>>[1] = s
      OBVIOUS
    <3>2. name \in {<<s>>[1].relocs[q].symbol : q \in DOMAIN <<s>>[1].relocs}
      BY <2>2, <2>6, <3>1
    <3>3. QED
      BY <3>1, <3>2 DEF ReferencedNames
  <2>8. QED
    BY <2>5, <2>7
<1>2. QED
  BY <1>1, RankAssumption

\* A pass enters one more place: the new entry is the last, for the passes
\* run before any undefined name is entered.
LEMMA DefineTabled == ASSUME IInv, Tabled, DefineSymbol PROVE Tabled'
<1>1. /\ pc \in Passes /\ pc' = pc /\ UNCHANGED sections /\ pc # "idle" /\ pc # "externs"
      /\ i \in DOMAIN sections /\ k \in DOMAIN sections[i].symbols
  BY AtPlace DEF Passes
<1>2. PICK n, m : n \in DOMAIN sections /\ m \in DOMAIN sections[n].symbols /\ n = i /\ m = k
  BY <1>1
<1>3. PICK name, e :
        /\ name = SymOf(n, m).name /\ EntryFor(e, n, m) /\ e.name = OffsetOf(strtab, name)
        /\ symIndex' = Put(symIndex, name, Len(syms)) /\ syms' = Append(syms, e)
        /\ strtab' = Intern(strtab, name)
  BY <1>2 DEF DefineSymbol, EnterSymbol, NewEntry, EntryFor, SymOf
<1>4. \A a \in DOMAIN sections : \A b \in DOMAIN sections[a].symbols : SymOf(a, b).name \in Name
  <2> SUFFICES ASSUME NEW a \in DOMAIN sections, NEW b \in DOMAIN sections[a].symbols
               PROVE  SymOf(a, b).name \in Name
    OBVIOUS
  <2>1. sections[a].symbols \in Seq(Symbol)
    BY PlaceType
  <2>2. sections[a].symbols[b] \in Symbol
    BY <2>1
  <2>3. QED
    BY <2>2 DEF Symbol, SymOf
<1>5. PICK E, mid : E = Entries /\ mid = Mid
  OBVIOUS
<1>6. /\ HeadsIn /\ IsFiniteSet(E) /\ EntriesIn(E, mid) /\ ExternsIn({}, mid) /\ Externs = {}
  BY <1>1, <1>5 DEF Tabled
<1>7. /\ HeadsIn'
      /\ Len(syms) \in Nat /\ Len(syms') = Len(syms) + 1
      /\ DOMAIN syms = 1 .. Len(syms) /\ DOMAIN syms' = 1 .. Len(syms) + 1
      /\ \A q \in 1 .. Len(syms) : syms'[q] = syms[q]
      /\ syms'[Len(syms) + 1] = e
      /\ ReadsAs(strtab'.data, OffsetOf(strtab, name), name)
      /\ EntryFor(e, n, m)' <=> EntryFor(e, n, m)
      /\ \A other \in Name : \A a, b : HasEntry(other, a, b) => HasEntry(other, a, b)'
  BY <1>1, <1>2, <1>3, <1>4, <1>6, EnterKeeps
<1>8. mid \in Nat /\ mid = Len(syms)
  <2>1. Cardinality(E) \in Nat /\ Len(sections) \in Nat
    BY <1>6, FS_CardinalityType DEF IInv, TypeOK
  <2>2. mid \in Nat
    BY <1>5, <2>1 DEF Mid
  <2>3. mid <= Len(syms)
    BY <1>6 DEF EntriesIn
  <2>4. \A q \in 1 .. Len(syms) : ~(q > mid)
    BY <1>6, <1>7 DEF ExternsIn
  <2>5. QED
    BY <1>7, <2>2, <2>3, <2>4
<1>9. /\ Entries' = E \cup {<<n, m>>} /\ IsFiniteSet(Entries') /\ Mid' = mid + 1
  <2>1. Entries' = E \cup {<<n, m>>} /\ <<n, m>> \notin E
    BY <1>2, <1>5, EntriesGrow
  <2>2. /\ IsFiniteSet(E \cup {<<n, m>>})
        /\ Cardinality(E \cup {<<n, m>>}) = Cardinality(E) + 1
    BY <1>6, <2>1, FS_AddElement
  <2>3. Cardinality(E) \in Nat /\ Len(sections) \in Nat
    BY <1>6, FS_CardinalityType DEF IInv, TypeOK
  <2>4. QED
    BY <1>1, <1>5, <2>1, <2>2, <2>3 DEF Mid
<1>10. Externs' = {}
  <2>1. name \in DefinedNames(sections)
    BY <1>2, <1>3 DEF DefinedNames, SymOf
  <2>2. DOMAIN symIndex' = DOMAIN symIndex \cup {name}
    BY <1>3 DEF Put
  <2>3. QED
    BY <1>1, <1>6, <2>1, <2>2 DEF Externs, ExternalSymbols
<1>11. HasEntry(name, n, m)'
  <2>1. Len(syms) + 1 \in DOMAIN syms' /\ EntryFor(e, n, m)'
    BY <1>3, <1>7
  <2>2. PICK q \in DOMAIN syms' : q = Len(syms) + 1
    BY <2>1
  <2>3. ReadsAs(strtab'.data, syms'[q].name, name) /\ EntryFor(syms[q], n, m)'
    BY <1>3, <1>7, <2>1, <2>2 DEF EntryFor
  <2>4. QED
    BY <2>3 DEF HasEntry
<1>12. ASSUME NEW p \in E \cup {<<n, m>>}
       PROVE  HasEntry(SymOf(p[1], p[2]).name, p[1], p[2])'
  <2>1. PICK a, b : a = p[1] /\ b = p[2]
    OBVIOUS
  <2>2. CASE p \in E
    <3>1. SymOf(a, b).name \in Name /\ HasEntry(SymOf(a, b).name, a, b)
      BY <1>4, <1>5, <1>6, <2>1, <2>2, EntryPlace DEF EntriesIn
    <3>2. PICK other : other = SymOf(a, b).name
      OBVIOUS
    <3>3. HasEntry(other, a, b)'
      BY <1>7, <3>1, <3>2
    <3>4. SymOf(a, b)' = SymOf(a, b)
      BY <1>1 DEF SymOf
    <3>5. QED
      BY <2>1, <3>2, <3>3, <3>4 DEF HasEntry, EntryFor
  <2>3. CASE p = <<n, m>>
    <3>1. a = n /\ b = m
      BY <2>1, <2>3
    <3>2. SymOf(n, m)' = SymOf(n, m)
      BY <1>1 DEF SymOf
    <3>3. QED
      BY <1>3, <1>11, <2>1, <3>1, <3>2 DEF HasEntry, EntryFor
  <2>4. QED
    BY <2>2, <2>3
<1>13. ASSUME NEW q \in DOMAIN syms', 1 + Len(sections) < q, q <= mid + 1
       PROVE  \E p \in E \cup {<<n, m>>} : syms'[q].shndx = Uint16(p[1])
  <2>1. CASE q <= mid
    <3>1. q \in DOMAIN syms /\ syms'[q] = syms[q]
      BY <1>7, <1>8, <1>13, <2>1
    <3>2. \E p \in E : syms[q].shndx = Uint16(p[1])
      BY <1>6, <1>13, <2>1, <3>1 DEF EntriesIn
    <3>3. QED
      BY <3>1, <3>2
  <2>2. CASE ~(q <= mid)
    <3>1. q = Len(syms) + 1
      BY <1>7, <1>8, <1>13, <2>2
    <3>2. syms'[q].shndx = Uint16(n)
      BY <1>3, <1>7, <3>1 DEF EntryFor
    <3>3. <<n, m>>[1] = n /\ <<n, m>> \in E \cup {<<n, m>>}
      OBVIOUS
    <3>4. QED
      BY <3>2, <3>3
  <2>3. QED
    BY <2>1, <2>2
<1>14. EntriesIn(Entries, Mid)'
  BY <1>1, <1>7, <1>8, <1>9, <1>12, <1>13 DEF EntriesIn
<1>15. ExternsIn(Externs, Mid)'
  BY <1>7, <1>8, <1>9, <1>10 DEF ExternsIn
<1>16. QED
  BY <1>1, <1>7, <1>9, <1>10, <1>14, <1>15 DEF Tabled


\* The least of the names left joins those entered, all of which it follows.
LEMMA ExternTabled == ASSUME IInv, Tabled, ExternSymbol PROVE Tabled'
<1>1. pc = "externs" /\ pc' = pc /\ UNCHANGED sections
  BY DEF ExternSymbol, file
<1>2. PICK name, e :
        /\ name \in Undefined /\ \A other \in Undefined : Rank(name) <= Rank(other)
        /\ e.shndx = 0 /\ strtab' = Intern(strtab, name)
        /\ symIndex' = Put(symIndex, name, Len(syms)) /\ syms' = Append(syms, e)
  BY DEF ExternSymbol, EnterSymbol, NewEntry
<1>3. PICK E, mid, X : E = Entries /\ mid = Mid /\ X = Externs
  OBVIOUS
<1>4. /\ HeadsIn /\ IsFiniteSet(E) /\ EntriesIn(E, mid) /\ ExternsIn(X, mid)
      /\ \A a \in X, b \in Undefined : Rank(a) < Rank(b)
  BY <1>1, <1>3 DEF Tabled
<1>5. \A a, b \in X \cup Undefined :
        a \in Name /\ Rank(a) \in Nat /\ (Rank(a) = Rank(b) => a = b)
  BY <1>3, Ranked DEF Externs, Undefined
<1>6. /\ HeadsIn'
      /\ Len(syms) \in Nat /\ Len(syms') = Len(syms) + 1
      /\ DOMAIN syms = 1 .. Len(syms) /\ DOMAIN syms' = 1 .. Len(syms) + 1
      /\ \A q \in 1 .. Len(syms) : syms'[q] = syms[q]
      /\ syms'[Len(syms) + 1] = e
      /\ \A other \in Name : \A a, b : HasEntry(other, a, b) => HasEntry(other, a, b)'
  BY <1>1, <1>2, <1>4, <1>5, EnterKeeps
<1>7. Entries' = E /\ Mid' = mid
  <2>1. \A a, b : Passed(a, b)' <=> Passed(a, b)
    BY <1>1 DEF Passed, Passes
  <2>2. Entries' = Entries
    BY <1>1, <2>1, EntriesKeep
  <2>3. QED
    BY <1>1, <1>3, <2>2 DEF Mid
<1>8. mid \in Nat /\ mid <= Len(syms)
  <2>1. Cardinality(E) \in Nat /\ Len(sections) \in Nat
    BY <1>4, FS_CardinalityType DEF IInv, TypeOK
  <2>2. mid \in Nat
    BY <1>3, <2>1 DEF Mid
  <2>3. QED
    BY <1>4, <2>2 DEF EntriesIn
<1>9. /\ name \notin DOMAIN symIndex /\ DOMAIN symIndex' = DOMAIN symIndex \cup {name}
      /\ symIndex'[name] = Len(syms)
      /\ \A a \in DOMAIN symIndex : symIndex'[a] = symIndex[a]
  <2>1. name \notin DOMAIN symIndex
    BY <1>2 DEF Undefined
  <2>2. QED
    BY <1>2, <2>1 DEF Put
<1>10. Externs' = X \cup {name} /\ Undefined' = Undefined \ {name}
  <2>1. name \in ExternalSymbols(sections)
    BY <1>2 DEF Undefined
  <2>2. QED
    BY <1>1, <1>3, <1>9, <2>1 DEF Externs, Undefined
<1>11. \A a \in X : a \in DOMAIN symIndex /\ symIndex[a] \in Nat /\ symIndex[a] < Len(syms)
  BY <1>3 DEF Externs, IInv, IndexSound
<1>12. ASSUME NEW p \in E PROVE HasEntry(SymOf(p[1], p[2]).name, p[1], p[2])'
  <2>1. PICK a, b : a = p[1] /\ b = p[2]
    OBVIOUS
  <2>2. a \in DOMAIN sections /\ b \in DOMAIN sections[a].symbols
    BY <1>3, <2>1, EntryPlace
  <2>3. sections[a].symbols \in Seq(Symbol)
    BY <2>2, PlaceType
  <2>4. sections[a].symbols[b] \in Symbol
    BY <2>2, <2>3
  <2>5. PICK other \in Name : other = SymOf(a, b).name
    BY <2>4 DEF Symbol, SymOf
  <2>6. HasEntry(other, a, b)
    BY <1>4, <2>1, <2>5 DEF EntriesIn
  <2>7. HasEntry(other, a, b)'
    BY <1>6, <2>6
  <2>8. SymOf(a, b)' = SymOf(a, b)
    BY <1>1 DEF SymOf
  <2>9. QED
    BY <2>1, <2>5, <2>7, <2>8 DEF HasEntry, EntryFor
<1>13. ASSUME NEW q \in DOMAIN syms', 1 + Len(sections) < q, q <= mid
       PROVE  \E p \in E : syms'[q].shndx = Uint16(p[1])
  <2>1. q \in DOMAIN syms /\ syms'[q] = syms[q]
    BY <1>6, <1>8, <1>13
  <2>2. QED
    BY <1>4, <1>13, <2>1 DEF EntriesIn
<1>14. EntriesIn(Entries, Mid)'
  BY <1>1, <1>6, <1>7, <1>8, <1>12, <1>13 DEF EntriesIn
<1>15. ASSUME NEW q \in DOMAIN syms', q > mid
       PROVE  syms'[q].shndx = 0 /\ \E a \in X \cup {name} : symIndex'[a] + 1 = q
  <2>1. CASE q <= Len(syms)
    <3>1. q \in DOMAIN syms /\ syms'[q] = syms[q]
      BY <1>6, <2>1
    <3>2. PICK a \in X : symIndex[a] + 1 = q
      BY <1>4, <1>15, <3>1 DEF ExternsIn
    <3>3. syms[q].shndx = 0
      BY <1>4, <1>15, <3>1 DEF ExternsIn
    <3>4. QED
      BY <1>9, <1>11, <3>1, <3>2, <3>3
  <2>2. CASE ~(q <= Len(syms))
    <3>1. q = Len(syms) + 1
      BY <1>6, <2>2
    <3>2. QED
      BY <1>2, <1>6, <1>9, <3>1
  <2>3. QED
    BY <2>1, <2>2
<1>16. \A a \in X \cup {name} : mid <= symIndex'[a]
  BY <1>4, <1>8, <1>9, <1>11 DEF ExternsIn
<1>17. ASSUME NEW a \in X \cup {name}, NEW b \in X \cup {name}, Rank(a) < Rank(b)
       PROVE  symIndex'[a] < symIndex'[b]
  <2>1. Rank(a) \in Nat /\ Rank(b) \in Nat
    BY <1>2, <1>5
  <2>2. a # b
    BY <1>17, <2>1
  <2>3. CASE a \in X /\ b \in X
    <3>1. symIndex[a] < symIndex[b]
      BY <1>4, <1>17, <2>3 DEF ExternsIn
    <3>2. QED
      BY <1>9, <1>11, <2>3, <3>1
  <2>4. CASE a \in X /\ b = name
    BY <1>9, <1>11, <2>4
  <2>5. CASE a = name /\ b \in X
    <3>1. Rank(b) < Rank(a)
      BY <1>2, <1>4, <2>5
    <3>2. QED
      BY <1>17, <2>1, <3>1
  <2>6. QED
    BY <2>2, <2>3, <2>4, <2>5
<1>18. ExternsIn(Externs, Mid)'
  BY <1>7, <1>10, <1>15, <1>16, <1>17 DEF ExternsIn
<1>19. ASSUME NEW a \in X \cup {name}, NEW b \in Undefined \ {name} PROVE Rank(a) < Rank(b)
  <2>1. CASE a \in X
    BY <1>4, <2>1
  <2>2. CASE a = name
    <3>1. Rank(a) <= Rank(b) /\ Rank(a) # Rank(b)
      BY <1>2, <1>5, <2>2
    <3>2. Rank(a) \in Nat /\ Rank(b) \in Nat
      BY <1>2, <1>5, <2>2
    <3>3. QED
      BY <3>1, <3>2
  <2>3. QED
    BY <2>1, <2>2
<1>20. QED
  BY <1>1, <1>4, <1>6, <1>7, <1>10, <1>14, <1>18, <1>19 DEF Tabled, Passes

LEMMA TabledStep == IInv /\ Answers /\ Tabled /\ [Next]_vars => Tabled'
<1> SUFFICES ASSUME IInv, Answers, Tabled, [Next]_vars PROVE Tabled'
  OBVIOUS
<1>1. CASE pc' = "idle"
  BY <1>1 DEF Tabled
<1>2. CASE WriteTo
  BY <1>2, WriteToTabled
<1>3. CASE DefineSymbol
  BY <1>3, DefineTabled
<1>4. CASE ExternSymbol
  BY <1>4, ExternTabled
<1>5. CASE SkipSymbol \/ SectionSymbolsDone \/ LocalsDone \/ GlobalsDone
  <2>1. /\ pc \in Passes /\ pc # "idle" /\ UNCHANGED <<sections, strtab, symIndex, syms>>
        /\ \A a \in DOMAIN sections : \A b \in DOMAIN sections[a].symbols :
             ~Label(a, b) => (Passed(a, b)' <=> Passed(a, b))
    BY <1>5, PassedKeeps
  <2>2. Entries' = Entries
    BY <2>1, EntriesKeep
  <2>3. QED
    BY <2>1, <2>2, KeepTabled
<1>6. CASE /\ pc \notin Passes \cup {"idle"} /\ pc' \notin Passes \cup {"externs"}
           /\ UNCHANGED <<sections, strtab, symIndex, syms>>
  <2>1. \A a, b : Passed(a, b)' <=> Passed(a, b)
    BY <1>6 DEF Passed
  <2>2. Entries' = Entries
    BY <1>6, <2>1, EntriesKeep
  <2>3. QED
    BY <1>6, <2>2, KeepTabled
<1>7. CASE UNCHANGED vars
  <2>1. UNCHANGED <<pc, i, k, sections, strtab, symIndex, syms>>
    BY <1>7 DEF vars, tables, file
  <2>2. \A a, b : Passed(a, b)' <=> Passed(a, b)
    BY <2>1 DEF Passed, Seen
  <2>3. Entries' = Entries
    BY <2>1, <2>2, EntriesKeep
  <2>4. CASE pc # "idle"
    BY <2>1, <2>3, <2>4, KeepTabled
  <2>5. QED
    BY <1>1, <2>1, <2>4
<1>8. QED
  BY <1>1, <1>2, <1>3, <1>4, <1>5, <1>6, <1>7, TableSteps


\* When the image is delivered, the entries before Mid are not undefined and
\* those from there on are the undefined names.
LEMMA TableDone ==
  ASSUME IInv, LInv, Answers, Made, Tabled, Deliver, FewHeaders'
  PROVE  /\ {n \in DOMAIN syms : syms[n].bind = "LOCAL"} = 1 .. firstGlobal
         /\ {n \in DOMAIN syms : n > 1 /\ syms[n].shndx = 0} = Mid + 1 .. Len(syms)
         /\ Mid \in Nat /\ Mid <= Len(syms) /\ Mid >= 1 /\ Len(syms) \in Nat
         /\ \A c \in DOMAIN sections : Uint16(c) = c
         /\ HeadsIn /\ EntriesIn(Entries, Mid) /\ ExternsIn(Externs, Mid)
         /\ Externs = ExternalSymbols(sections)
<1>1. pc = "write"
  BY DEF Deliver
<1>2. /\ HeadsIn /\ IsFiniteSet(Entries) /\ EntriesIn(Entries, Mid) /\ ExternsIn(Externs, Mid)
  BY <1>1 DEF Tabled
<1>3. /\ Len(syms) \in Nat /\ DOMAIN syms = 1 .. Len(syms) /\ firstGlobal \in Nat
      /\ Len(sections) \in Nat /\ DOMAIN sections = 1 .. Len(sections)
  BY DEF IInv, TypeOK
<1>4. Mid \in Nat /\ Mid <= Len(syms) /\ Mid >= 1 + Len(sections)
  <2>1. Cardinality(Entries) \in Nat
    BY <1>2, FS_CardinalityType
  <2>2. Mid \in Nat /\ Mid >= 1 + Len(sections)
    BY <1>3, <2>1 DEF Mid
  <2>3. QED
    BY <1>2, <2>2 DEF EntriesIn
<1>5. \A c \in DOMAIN sections : Uint16(c) = c
  <2>1. PICK s \in Nat : s = SymtabIdx
    BY IndexPlaces
  <2>2. Len(sections) < s /\ \A n \in Nat : n <= s + 3 => Uint16(n) = n
    BY <2>1, FewNumbers, ImageTypes
  <2>3. QED
    BY <1>3, <2>2
<1>6. {n \in DOMAIN syms : syms[n].bind = "LOCAL"} = 1 .. firstGlobal
  <2>1. firstGlobal <= Len(syms)
    BY <1>1 DEF IInv, Shape
  <2>2. \A n \in DOMAIN syms : syms[n].bind = "LOCAL" <=> n <= firstGlobal
    BY <1>1 DEF IInv, LocalsFirst
  <2>3. QED
    BY <1>3, <2>1, <2>2
<1>7. ASSUME NEW n \in DOMAIN syms, n > 1, n <= Mid PROVE syms[n].shndx # 0
  <2>1. CASE n <= 1 + Len(sections)
    <3>1. PICK c \in DOMAIN sections : c + 1 = n
      <4>1. n - 1 \in DOMAIN sections /\ (n - 1) + 1 = n
        BY <1>3, <1>7, <2>1
      <4>2. QED
        BY <4>1
    <3>2. syms[n] = SectionSym(c) /\ c # 0 /\ Uint16(c) = c
      BY <1>2, <1>3, <1>5, <3>1 DEF HeadsIn
    <3>3. SectionSym(c).shndx = c
      BY <3>2 DEF SectionSym, NullSym
    <3>4. QED
      BY <3>2, <3>3
  <2>2. CASE ~(n <= 1 + Len(sections))
    <3>1. PICK p \in Entries : syms[n].shndx = Uint16(p[1])
      BY <1>2, <1>3, <1>7, <2>2 DEF EntriesIn
    <3>2. p[1] \in DOMAIN sections
      BY EntryPlace
    <3>3. Uint16(p[1]) # 0
      BY <1>3, <1>5, <3>2
    <3>4. QED
      BY <3>1, <3>3
  <2>3. QED
    BY <2>1, <2>2
<1>8. \A n \in DOMAIN syms : n > Mid => syms[n].shndx = 0
  BY <1>2 DEF ExternsIn
<1>9. {n \in DOMAIN syms : n > 1 /\ syms[n].shndx = 0} = Mid + 1 .. Len(syms)
  <2>1. PICK mid \in Nat : mid = Mid /\ mid >= 1
    BY <1>3, <1>4
  <2>2. \A n \in 1 .. Len(syms) : n > 1 /\ syms[n].shndx = 0 <=> n >= mid + 1
    BY <1>3, <1>7, <1>8, <2>1
  <2>3. \A n : n \in mid + 1 .. Len(syms) <=> n \in 1 .. Len(syms) /\ n >= mid + 1
    BY <1>3, <2>1
  <2>4. QED
    BY <1>3, <2>1, <2>2, <2>3
<1>10. Externs = ExternalSymbols(sections)
  BY <1>1 DEF Externs, Answers, NamesIn, Phase3
<1>11. Mid >= 1
  BY <1>3, <1>4
<1>12. QED
  BY <1>2, <1>3, <1>4, <1>5, <1>6, <1>9, <1>10, <1>11

\* Each undefined entry has an undefined name, each name one entry, and the
\* entries follow the order of the names.
LEMMA OrderFound ==
  ASSUME IInv, NEW mid \in Nat, NEW X, X = ExternalSymbols(sections), Externs = X,
         ExternsIn(X, mid)
  PROVE  \E order \in [mid + 1 .. Len(syms) -> X] :
           /\ \A n \in mid + 1 .. Len(syms) :
                order[n] \in DOMAIN symIndex /\ symIndex[order[n]] = n - 1
           /\ \A name \in X : \E n \in mid + 1 .. Len(syms) : order[n] = name
           /\ \A n, m \in mid + 1 .. Len(syms) : n < m => Rank(order[n]) < Rank(order[m])
<1>1. Len(syms) \in Nat /\ DOMAIN syms = 1 .. Len(syms)
  BY DEF IInv, TypeOK
<1>2. \A a \in X : /\ a \in DOMAIN symIndex /\ symIndex[a] \in Nat
                   /\ mid <= symIndex[a] /\ symIndex[a] < Len(syms)
  BY DEF Externs, ExternsIn, IInv, IndexSound
<1>3. \A a, b \in X : Rank(a) \in Nat /\ (Rank(a) = Rank(b) => a = b)
  BY Ranked
<1>4. \A a, b \in X : symIndex[a] < symIndex[b] => Rank(a) < Rank(b)
  <2> SUFFICES ASSUME NEW a \in X, NEW b \in X, symIndex[a] < symIndex[b]
               PROVE  Rank(a) < Rank(b)
    OBVIOUS
  <2>1. ~(Rank(b) < Rank(a))
    <3>1. ~(symIndex[b] < symIndex[a])
      BY <1>2
    <3>2. QED
      BY <3>1 DEF ExternsIn
  <2>2. a # b
    BY <1>2
  <2>3. QED
    BY <1>3, <2>1, <2>2
<1>5. \A a, b \in X : symIndex[a] = symIndex[b] => a = b
  <2> SUFFICES ASSUME NEW a \in X, NEW b \in X, symIndex[a] = symIndex[b], a # b PROVE FALSE
    OBVIOUS
  <2>1. Rank(a) < Rank(b) \/ Rank(b) < Rank(a)
    BY <1>3
  <2>2. symIndex[a] < symIndex[b] \/ symIndex[b] < symIndex[a]
    BY <2>1 DEF ExternsIn
  <2>3. QED
    BY <1>2, <2>2
<1>6. \A n \in mid + 1 .. Len(syms) : \E name \in X : symIndex[name] + 1 = n
  <2>1. \A n \in mid + 1 .. Len(syms) : n \in DOMAIN syms /\ n > mid
    BY <1>1
  <2>2. QED
    BY <2>1 DEF ExternsIn
<1> DEFINE order == [n \in mid + 1 .. Len(syms) |-> CHOOSE name \in X : symIndex[name] + 1 = n]
<1>7. \A n \in mid + 1 .. Len(syms) : order[n] \in X /\ symIndex[order[n]] + 1 = n
  BY <1>6
<1>8. order \in [mid + 1 .. Len(syms) -> X]
  BY <1>7
<1> HIDE DEF order
<1>9. \A n \in mid + 1 .. Len(syms) : order[n] \in DOMAIN symIndex /\ symIndex[order[n]] = n - 1
  BY <1>1, <1>2, <1>7
<1>10. \A name \in X : \E n \in mid + 1 .. Len(syms) : order[n] = name
  <2> SUFFICES ASSUME NEW name \in X PROVE \E n \in mid + 1 .. Len(syms) : order[n] = name
    OBVIOUS
  <2>1. PICK n \in mid + 1 .. Len(syms) : n = symIndex[name] + 1
    BY <1>1, <1>2
  <2>2. order[n] \in X /\ symIndex[order[n]] + 1 = symIndex[name] + 1
    BY <1>7, <2>1
  <2>3. symIndex[order[n]] = symIndex[name]
    BY <1>2, <2>2
  <2>4. QED
    BY <1>5, <2>2, <2>3
<1>11. \A n, m \in mid + 1 .. Len(syms) : n < m => Rank(order[n]) < Rank(order[m])
  <2> SUFFICES ASSUME NEW n \in mid + 1 .. Len(syms), NEW m \in mid + 1 .. Len(syms), n < m
               PROVE  Rank(order[n]) < Rank(order[m])
    OBVIOUS
  <2>1. symIndex[order[n]] < symIndex[order[m]]
    BY <1>1, <1>9
  <2>2. QED
    BY <1>4, <1>7, <2>1
<1>12. QED
  BY <1>8, <1>9, <1>10, <1>11


\* The image of a call that succeeds satisfies SymbolTableComplete.
LEMMA DeliverSymbols ==
  ASSUME IInv, LInv, Answers, Made, InOrder, Tabled, Deliver, FewHeaders', FewBytes'
  PROVE  SymbolTableComplete'
<1>1. PICK s \in Nat : s = SymtabIdx
  BY IndexPlaces
<1>2. /\ added' = sections /\ Symtab' = syms /\ Strtab' = strtab.data
      /\ SymtabShdr'.info = firstGlobal
  <2>1. added' = sections /\ SymtabShdr' = Shdr(s)' /\ Symtab' = syms /\ Strtab' = strtab.data
    BY <1>1, ImageHeaders, SymbolBytes
  <2>2. Shdr(s)'.info = Meant(s).info
    <3>1. s \in 1 .. s + 2
      BY <1>1, ImageTypes
    <3>2. QED
      BY <1>1, <3>1, ShdrFields
  <2>3. Meant(s).info = firstGlobal
    BY <1>1, MeantSymtab DEF SymtabDesc, NullDesc
  <2>4. QED
    BY <2>1, <2>2, <2>3
<1>3. PICK mid, X, U :
        /\ mid = Mid /\ X = ExternalSymbols(sections)
        /\ U = {n \in DOMAIN syms : n > 1 /\ syms[n].shndx = 0}
  OBVIOUS
<1>4. /\ {n \in DOMAIN syms : syms[n].bind = "LOCAL"} = 1 .. firstGlobal
      /\ U = mid + 1 .. Len(syms)
      /\ mid \in Nat /\ mid <= Len(syms) /\ Len(syms) \in Nat
      /\ \A c \in DOMAIN sections : Uint16(c) = c
      /\ HeadsIn /\ EntriesIn(Entries, mid) /\ ExternsIn(X, mid) /\ Externs = X
  BY <1>3, TableDone
<1>5. UndefinedNames(added)' = X
  BY <1>2, <1>3 DEF UndefinedNames, ExternalSymbols
<1>6. {p \in Places' : Entered(p)'} = Entries
  <2>1. Places' = AllPlaces
    BY <1>2 DEF Places, AllPlaces
  <2>2. \A p : Entered(p)' <=> ~Label(p[1], p[2])
    BY <1>2 DEF Entered, SymAt, Label
  <2>3. \A a, b : Passed(a, b)
    BY DEF Passed, Deliver, Passes
  <2>4. QED
    BY <2>1, <2>2, <2>3 DEF Entries
<1>7. ASSUME NEW n \in DOMAIN syms, NEW name, ReadsAs(strtab.data, syms[n].name, name)
      PROVE  Called(n - 1, name)'
  <2>1. (n - 1) + 1 = n
    BY DEF IInv, TypeOK
  <2>2. QED
    BY <1>2, <1>7, <2>1 DEF Called
<1>8. ASSUME NEW p \in Entries
      PROVE  \E n \in DOMAIN syms :
               Called(n - 1, SymAt(p).name)' /\ SymbolFor(Symtab[n], SymAt(p), p[1])'
  <2>1. PICK a, b : /\ a = p[1] /\ b = p[2] /\ a \in DOMAIN sections
                    /\ HasEntry(SymOf(a, b).name, a, b)
    BY <1>4, EntryPlace DEF EntriesIn
  <2>2. PICK n \in DOMAIN syms :
          ReadsAs(strtab.data, syms[n].name, SymOf(a, b).name) /\ EntryFor(syms[n], a, b)
    BY <2>1 DEF HasEntry
  <2>3. PICK name : name = SymOf(a, b).name
    OBVIOUS
  <2>4. SymAt(p)' = SymOf(a, b)
    BY <1>2, <2>1 DEF SymAt, SymOf
  <2>5. Called(n - 1, name)'
    BY <1>7, <2>2, <2>3
  <2>6. Called(n - 1, SymAt(p).name)'
    BY <2>3, <2>4, <2>5 DEF Called
  <2>7. SymbolFor(Symtab[n], SymAt(p), p[1])'
    BY <1>2, <1>4, <2>1, <2>2, <2>4 DEF SymbolFor, EntryFor
  <2>8. QED
    BY <2>6, <2>7
<1>9. Len(syms) = 1 + Len(sections) + Cardinality(Entries) + Cardinality(U)
  <2>1. Cardinality(U) = Len(syms) - mid
    <3>1. PICK a \in Int, b \in Int : a = mid + 1 /\ b = Len(syms)
      BY <1>4
    <3>2. Cardinality(a .. b) = IF a > b THEN 0 ELSE b - a + 1
      BY FS_Interval
    <3>3. (IF a > b THEN 0 ELSE b - a + 1) = Len(syms) - mid
      BY <1>4, <3>1
    <3>4. QED
      BY <1>4, <3>1, <3>2, <3>3
  <2>2. mid = 1 + Len(sections) + Cardinality(Entries)
    BY <1>3 DEF Mid
  <2>3. QED
    BY <1>4, <2>1, <2>2
<1>10. PICK order \in [U -> X] :
         /\ \A n \in U : order[n] \in DOMAIN symIndex /\ symIndex[order[n]] = n - 1
         /\ \A name \in X : \E n \in U : order[n] = name
         /\ \A n, m \in U : n < m => Rank(order[n]) < Rank(order[m])
  <2>1. Externs = X /\ ExternsIn(X, mid) /\ mid \in Nat /\ U = mid + 1 .. Len(syms)
    BY <1>4
  <2>2. \E order \in [mid + 1 .. Len(syms) -> X] :
          /\ \A n \in mid + 1 .. Len(syms) :
               order[n] \in DOMAIN symIndex /\ symIndex[order[n]] = n - 1
          /\ \A name \in X : \E n \in mid + 1 .. Len(syms) : order[n] = name
          /\ \A n, m \in mid + 1 .. Len(syms) : n < m => Rank(order[n]) < Rank(order[m])
    BY <1>3, <2>1, OrderFound
  <2>3. QED
    BY <2>1, <2>2
<1>11. ASSUME NEW n \in U PROVE Called(n - 1, order[n])'
  <2>1. PICK name \in DOMAIN symIndex : name = order[n] /\ symIndex[name] = n - 1
    BY <1>10
  <2>2. n \in DOMAIN syms /\ (n - 1) + 1 = n
    BY <1>3 DEF IInv, TypeOK
  <2>3. ReadsAs(strtab.data, syms[n].name, name)
    BY <2>1, <2>2 DEF IInv, IndexSound
  <2>4. Called(n - 1, name)'
    BY <1>7, <2>2, <2>3
  <2>5. QED
    BY <2>1, <2>4
<1>12. /\ syms[1] = NullSym /\ \A c \in DOMAIN sections : syms[c + 1] = SectionSym(c)
  BY <1>4 DEF HeadsIn
<1>13. UNCHANGED sections /\ \A c : SectionSym(c)' = SectionSym(c) /\ NullSym' = NullSym
  BY DEF Deliver, Return, file
<1>14. \E f \in [U -> X] :
         /\ \A name \in X : \E n \in U : f[n] = name
         /\ \A n \in U : Called(n - 1, f[n])'
         /\ \A n, m \in U : n < m => Rank(f[n]) < Rank(f[m])
  BY <1>10, <1>11
<1>15. {n \in DOMAIN Symtab : Symtab[n].bind = "LOCAL"}' = 1 .. SymtabShdr'.info
  BY <1>2, <1>4
<1>16. {n \in DOMAIN Symtab : n > 1 /\ Symtab[n].shndx = 0}' = U
  BY <1>2, <1>3
<1>17. Symtab'[1] = NullSym' /\ \A c \in DOMAIN added' : Symtab'[c + 1] = SectionSym(c)'
  BY <1>2, <1>12, <1>13
<1>18. Len(Symtab)' = 1 + Len(added)' + Cardinality({p \in Places : Entered(p)})'
                       + Cardinality({n \in DOMAIN Symtab : n > 1 /\ Symtab[n].shndx = 0})'
  BY <1>2, <1>6, <1>9, <1>16
<1>19. \A p \in Places' : Entered(p)' =>
         \E n \in DOMAIN Symtab' :
           Called(n - 1, SymAt(p).name)' /\ SymbolFor(Symtab[n], SymAt(p), p[1])'
  BY <1>2, <1>6, <1>8
<1>20. QED
  BY <1>5, <1>14, <1>15, <1>16, <1>17, <1>18, <1>19 DEF SymbolTableComplete

LEMMA SameSymbols == ASSUME UNCHANGED last, SymbolTableComplete PROVE SymbolTableComplete'
<1>1. /\ Built' = Built /\ FewBytes' = FewBytes /\ FewHeaders' = FewHeaders /\ added' = added
  BY SameImage
<1>2. /\ SymtabShdr' = SymtabShdr /\ Symtab' = Symtab
      /\ \A n, name : Called(n, name)' <=> Called(n, name)
  BY SameTargets
<1>3. \A p : SymAt(p)' = SymAt(p) /\ (Entered(p)' <=> Entered(p))
  BY <1>1 DEF SymAt, Entered
<1>4. Places' = Places
  BY <1>1 DEF Places
<1>5. {p \in Places : Entered(p)}' = {p \in Places : Entered(p)}
  BY <1>3, <1>4
<1>6. UndefinedNames(added)' = UndefinedNames(added)
  BY <1>1 DEF UndefinedNames
<1>7. \A c : SectionSym(c)' = SectionSym(c) /\ NullSym' = NullSym
  OBVIOUS
<1>8. CASE Built /\ FewHeaders /\ FewBytes
  <2>1. PICK U, X :
          U = {n \in DOMAIN Symtab : n > 1 /\ Symtab[n].shndx = 0} /\ X = UndefinedNames(added)
    OBVIOUS
  <2>2. /\ {n \in DOMAIN Symtab : Symtab[n].bind = "LOCAL"} = 1 .. SymtabShdr.info
        /\ Symtab[1] = NullSym
        /\ \A c \in DOMAIN added : Symtab[c + 1] = SectionSym(c)
        /\ Len(Symtab) = 1 + Len(added) + Cardinality({p \in Places : Entered(p)}) + Cardinality(U)
    BY <1>8, <2>1 DEF SymbolTableComplete
  <2>3. \A p \in Places : Entered(p) =>
          \E n \in DOMAIN Symtab :
            Called(n - 1, SymAt(p).name) /\ SymbolFor(Symtab[n], SymAt(p), p[1])
    BY <1>8 DEF SymbolTableComplete
  <2>4. \E f \in [U -> X] :
          /\ \A name \in X : \E n \in U : f[n] = name
          /\ \A n \in U : Called(n - 1, f[n])
          /\ \A n, m \in U : n < m => Rank(f[n]) < Rank(f[m])
    BY <1>8, <2>1 DEF SymbolTableComplete
  <2>5. U = {n \in DOMAIN Symtab : n > 1 /\ Symtab[n].shndx = 0}' /\ X = UndefinedNames(added)'
    BY <1>2, <1>6, <2>1
  <2>6. /\ {n \in DOMAIN Symtab : Symtab[n].bind = "LOCAL"}' = 1 .. SymtabShdr'.info
        /\ Symtab'[1] = NullSym'
        /\ \A c \in DOMAIN added' : Symtab'[c + 1] = SectionSym(c)'
    BY <1>1, <1>2, <1>7, <2>2
  <2>7. Len(Symtab)' = 1 + Len(added)' + Cardinality({p \in Places : Entered(p)})'
                         + Cardinality({n \in DOMAIN Symtab : n > 1 /\ Symtab[n].shndx = 0})'
    BY <1>1, <1>2, <1>5, <2>2, <2>5
  <2>8. ASSUME NEW p \in Places, Entered(p)
        PROVE  \E n \in DOMAIN Symtab' :
                 Called(n - 1, SymAt(p).name)' /\ SymbolFor(Symtab[n], SymAt(p), p[1])'
    <3>1. PICK n \in DOMAIN Symtab :
            Called(n - 1, SymAt(p).name) /\ SymbolFor(Symtab[n], SymAt(p), p[1])
      BY <2>3, <2>8
    <3>2. Called(n - 1, SymAt(p).name)'
      BY <1>2, <1>3, <3>1 DEF Called
    <3>3. SymbolFor(Symtab[n], SymAt(p), p[1])'
      BY <1>1, <1>2, <1>3, <3>1 DEF SymbolFor
    <3>4. QED
      BY <1>2, <3>2, <3>3
  <2>9. \E f \in [U -> X] :
          /\ \A name \in X : \E n \in U : f[n] = name
          /\ \A n \in U : Called(n - 1, f[n])'
          /\ \A n, m \in U : n < m => Rank(f[n]) < Rank(f[m])
    <3>1. PICK f \in [U -> X] :
            /\ \A name \in X : \E n \in U : f[n] = name
            /\ \A n \in U : Called(n - 1, f[n])
            /\ \A n, m \in U : n < m => Rank(f[n]) < Rank(f[m])
      BY <2>4
    <3>2. \A n \in U : Called(n - 1, f[n])'
      BY <1>2, <3>1
    <3>3. QED
      BY <3>1, <3>2
  <2>10. \A p \in Places' : Entered(p)' =>
           \E n \in DOMAIN Symtab' :
             Called(n - 1, SymAt(p).name)' /\ SymbolFor(Symtab[n], SymAt(p), p[1])'
    BY <1>3, <1>4, <2>8
  <2>11. QED
    BY <2>5, <2>6, <2>7, <2>9, <2>10 DEF SymbolTableComplete
<1>9. CASE ~(Built /\ FewHeaders /\ FewBytes)
  BY <1>1, <1>9 DEF SymbolTableComplete
<1>10. QED
  BY <1>8, <1>9

\* In every image that is short enough, .symtab holds the null symbol, one
\* symbol per section, one for each definition a pass enters and one for each
\* undefined name, in increasing order, and nothing else; and sh_info is the
\* first of them that is not local.
THEOREM SymbolsComplete == Spec => []SymbolTableComplete
<1>1. Init => SymbolTableComplete /\ Tabled
  BY InitReader DEF SymbolTableComplete, Tabled, Init
<1>2. IInv /\ LInv /\ Answers /\ Made /\ InOrder /\ Tabled /\ SymbolTableComplete
        /\ [Next]_vars => SymbolTableComplete'
  <2> SUFFICES ASSUME IInv, LInv, Answers, Made, InOrder, Tabled, SymbolTableComplete,
                      [Next]_vars
               PROVE  SymbolTableComplete'
    OBVIOUS
  <2>1. CASE Deliver
    <3>1. CASE FewHeaders' /\ FewBytes'
      BY <2>1, <3>1, DeliverSymbols
    <3>2. CASE ~(FewHeaders' /\ FewBytes')
      BY <3>2 DEF SymbolTableComplete
    <3>3. QED
      BY <3>1, <3>2
  <2>2. CASE ~Built'
    BY <2>2 DEF SymbolTableComplete
  <2>3. CASE UNCHANGED last
    BY <2>3, SameSymbols
  <2>4. QED
    BY <2>1, <2>2, <2>3, OtherSteps
<1>3. QED
  BY Inductive, LayoutInductive, InitReader, InitTables, AnswersStep, MadeStep, InOrderStep,
     TabledStep, <1>1, <1>2, PTL DEF Spec

=============================================================================
