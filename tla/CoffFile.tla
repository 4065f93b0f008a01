------------------------------ MODULE CoffFile ------------------------------
(***************************************************************************)
(* coff.File: sections are collected, then Serialize or WriteTo builds a   *)
(* COFF relocatable object in memory and hands it over in one piece.       *)
(*                                                                         *)
(* Three things set COFF apart from ELF.  The symbol table is an array of  *)
(* slots, some of them auxiliary records of the symbol in front, and an    *)
(* index counts slots.  A name of more than eight bytes is an offset in a  *)
(* string table that starts with its own four-byte size.  Addends are      *)
(* written into a copy of the Code.  Slot n is slots[n + 1]; section       *)
(* numbers count from 1, as sequences do.                                  *)
(***************************************************************************)
EXTENDS Objects, StrTab, Buffer, FiniteSets

CONSTANTS
  Targets,      \* the Arch values of the Targets given to NewFile
  Sections,     \* the sections a caller may add
  Within(_),    \* bound: the lists of sections one File may hold
  MaxCalls(_),  \* bound: Serialize / WriteTo calls on a File with these sections
  Subsystems,   \* the values SetSubsystem is called with
  Rank(_),      \* position of a name in the order of sort.Strings
  LongNames,    \* the names of more than eight bytes
  Half32,       \* 2^31, scaled down: an int32 holds -Half32 .. Half32 - 1
  Word16,       \* 2^16, scaled down: a uint16 holds 0 .. Word16 - 1
  Slash         \* 10^7, scaled down: an offset from Slash on takes more digits
                \* than "/" leaves in a header's name field

ASSUME SectionsAssumption ==
  /\ Targets \subseteq Archs
  /\ Sections \subseteq Section

ASSUME WidthAssumption ==
  Half32 \in Nat \ {0} /\ Word16 \in Nat \ {0} /\ Slash \in Nat \ {0}

ASSUME LongNamesAssumption ==
  /\ LongNames \subseteq Name /\ NoName \notin LongNames
  /\ <<".drectve">> \notin LongNames

ASSUME AlignAssumption ==
  \A s \in Sections : s.align = 0 \/ PowerOfTwo(s.align)

ASSUME RankAssumption ==
  \A n, m \in UNION {ReferencedNames(<<s>>) : s \in Sections} :
    Rank(n) \in Nat /\ (Rank(n) = Rank(m) => n = m)

-----------------------------------------------------------------------------
(***************************************************************************)
(* Conversions.                                                            *)
(***************************************************************************)
Uint16(n) == n % Word16
Uint32(n) == n % (2 * Half32)
Int16(n) == ((n + Word16 \div 2) % Word16) - Word16 \div 2
Int32(n) == ((n + Half32) % (2 * Half32)) - Half32

\* NewFile: every other architecture counts as AMD64.
Machine(arch) == IF arch = "ARM64" THEN arch ELSE "AMD64"

RelocTable ==
  [AMD64 |-> [Abs64 |-> 1, Abs32 |-> 2, PCRel32 |-> 4, PLT32 |-> 4, IAT |-> 3,
              Addr32NB |-> 3, TLSIE |-> 11],
   ARM64 |-> [Abs64 |-> 14, Abs32 |-> 1, PCRel26 |-> 3, PLT32 |-> 3, IAT |-> 2,
              Addr32NB |-> 2, TLSIE |-> 8]]

Supported(arch, kind) == kind \in DOMAIN RelocTable[Machine(arch)]
RelocType(arch, kind) == RelocTable[Machine(arch)][kind]

\* relocAddendSize is asked about a number that means one thing on AMD64 and
\* another on ARM64.
FieldWidth(type) == IF type \in {1, 14} THEN 8 ELSE 4

FixedName ==
  [Text |-> ".text", Data |-> ".data", ROData |-> ".rdata", BSS |-> ".bss",
   Unwind |-> ".pdata", InitArray |-> ".CRT$XCU", FiniArray |-> ".CRT$XTZ",
   Unknown |-> ".data"]

BaseName(s) ==
  CASE s.kind = "Custom" -> s.custom
    [] s.kind = "TLS"    -> IF s.size > 0 THEN <<".tls">> ELSE <<".tls$ZZZ">>
    [] OTHER             -> <<FixedName[s.kind]>>

ASSUME CoffNamesAssumption ==
  {FixedName[k] : k \in DOMAIN FixedName} \cup {".tls", ".tls$ZZZ", ".drectve"} \subseteq Char

\* A COMDAT section goes by the name of its first global symbol, if that has
\* one.
SectionName(s) ==
  LET gs == {m \in DOMAIN s.symbols : s.symbols[m].binding = "Global"}
  IN  IF s.linkOnce /\ gs # {} /\ s.symbols[Min(gs)].name # NoName
      THEN s.symbols[Min(gs)].name
      ELSE BaseName(s)

EffectiveAlign(s) ==
  IF s.align > 0 THEN s.align
  ELSE CASE s.kind = "Text"   -> 16
         [] s.kind = "Unwind" -> 4
         [] s.kind = "Custom" -> 1
         [] OTHER             -> 8

IsDrectve(s) == s.kind = "Custom" /\ s.custom = <<".drectve">>

\* Characteristics: the alignment is that of the section, up to 8192.
SectionChars(s) ==
  IF IsDrectve(s) THEN [content |-> "INFO", comdat |-> FALSE, align |-> 1]
  ELSE [content |-> CASE NoBits(s) -> "UNINIT" [] s.kind = "Text" -> "CODE"
                      [] OTHER -> "INIT",
        comdat |-> s.linkOnce,
        align |-> Min({EffectiveAlign(s), 8192})]

\* The string table has no sentinel: its first string is at offset 0.
NewTable == [data |-> << >>, offsets |-> EmptyMap]

InternLong(t, name) == IF name \in LongNames THEN Intern(t, name) ELSE t

\* A defect: the size prefix of the string table is forgotten.
NameFieldBare(t, name) ==
  IF name \in LongNames THEN [inline |-> NoName, at |-> OffsetOf(t, name)]
  ELSE [inline |-> name, at |-> 0]

\* encodeSymName: eight bytes, or four zero bytes and an offset from the start
\* of the string table, its size prefix included.
NameField(t, name) ==
  IF name \in LongNames THEN [inline |-> NoName, at |-> 4 + OffsetOf(t, name)]
  ELSE [inline |-> name, at |-> 0]

\* setSectionName: "/" and the leading digits of the offset that fit.
HeaderName(t, name) ==
  LET f    == NameField(t, name)
      fits == {d \in {1, 10, 100, 1000} : f.at \div d < Slash}
  IN  [f EXCEPT !.at = @ \div Min(fits)]

-----------------------------------------------------------------------------
VARIABLES
  opts,        \* the File's options: arch, subsystem
  sections,    \* the File's sections
  pc,          \* the loop the build is in, "idle" between calls
  i, k,        \* its cursors: a section, a symbol of it
  directives,  \* the text of .drectve
  work,        \* the build's sections: the File's and .drectve
  strtab,      \* the string table
  symIdx,      \* the map from a name to its slot index
  slots,       \* the symbol table
  recs,        \* the relocation records of the sections converted so far
  lay,         \* the places of the sections laid out so far
  pos,         \* the layout's position, in the end the symbol table's
  out,         \* the output buffer: its length and the data written to it
  last,        \* the last call that returned: its input and its outcome
  calls        \* calls so far, for MaxCalls

file   == <<opts, sections>>
names  == <<strtab, symIdx>>
layout == <<lay, pos, out>>
vars   == <<file, pc, i, k, directives, work, names, slots, recs, layout, last, calls>>

Input == [opts |-> opts, sections |-> sections]
NoCall == [status |-> "none"]

Init ==
  /\ opts \in [arch : Targets, subsystem : {"console"}]
  /\ sections = << >>
  /\ pc = "idle" /\ i = 1 /\ k = 1
  /\ directives = << >> /\ work = << >>
  /\ strtab = NewTable /\ symIdx = EmptyMap /\ slots = << >>
  /\ recs = << >> /\ lay = << >> /\ pos = 0 /\ out = EmptyOut
  /\ last = NoCall /\ calls = 0

-----------------------------------------------------------------------------
(***************************************************************************)
(* The caller's operations.                                                *)
(***************************************************************************)
AddSection(s) ==
  /\ pc = "idle" /\ Within(Append(sections, s))
  /\ sections' = Append(sections, s)
  /\ UNCHANGED <<opts, pc, i, k, directives, work, names, slots, recs, layout,
                 last, calls>>

SetSubsystem(v) ==
  /\ pc = "idle"
  /\ opts' = [opts EXCEPT !.subsystem = v]
  /\ UNCHANGED <<sections, pc, i, k, directives, work, names, slots, recs, layout,
                 last, calls>>

\* Serialize is WriteTo into a bytes.Buffer.
WriteTo ==
  /\ pc = "idle" /\ calls < MaxCalls(sections)
  /\ pc' = "exports"
  /\ calls' = calls + 1
  /\ UNCHANGED <<file, i, k, directives, work, names, slots, recs, layout, last>>

\* The call returns this outcome; the locals of the build are garbage.
Return(outcome) ==
  /\ last' = outcome
  /\ pc' = "idle" /\ i' = 1 /\ k' = 1
  /\ directives' = << >> /\ work' = << >>
  /\ strtab' = NewTable /\ symIdx' = EmptyMap /\ slots' = << >>
  /\ recs' = << >> /\ lay' = << >> /\ pos' = 0 /\ out' = EmptyOut
  /\ UNCHANGED <<file, calls>>

Fail(why) ==
  Return([status |-> "failed", input |-> Input, error |-> why, written |-> "none"])

Goto(phase) == pc' = phase /\ i' = 1 /\ k' = 1
NextSection == i' = i + 1 /\ k' = 1 /\ UNCHANGED pc

-----------------------------------------------------------------------------
(***************************************************************************)
(* Phase 1: the list of sections, .drectve last if a symbol is exported.   *)
(***************************************************************************)
ScanSymbol ==
  /\ pc = "exports" /\ i <= Len(sections) /\ k <= Len(sections[i].symbols)
  /\ LET sym == sections[i].symbols[k]
     IN  directives' = IF sym.dllExport THEN directives \o <<"/EXPORT:">> \o sym.name
                       ELSE directives
  /\ k' = k + 1
  /\ UNCHANGED <<file, pc, i, work, names, slots, recs, layout, last, calls>>

ScanNextSection ==
  /\ pc = "exports" /\ i <= Len(sections) /\ k > Len(sections[i].symbols)
  /\ NextSection
  /\ UNCHANGED <<file, directives, work, names, slots, recs, layout, last, calls>>

Drectve ==
  [kind |-> "Custom", custom |-> <<".drectve">>, align |-> 1,
   size |-> Len(directives), vsize |-> 0, symbols |-> << >>, relocs |-> << >>,
   linkOnce |-> FALSE]

\* A defect: the synthetic section is added to the File.
ScanDoneKept ==
  /\ pc = "exports" /\ i > Len(sections)
  /\ work' = IF directives = << >> THEN sections ELSE Append(sections, Drectve)
  /\ sections' = work'
  /\ Goto("check")
  /\ UNCHANGED <<opts, directives, names, slots, recs, layout, last, calls>>

ScanDone ==
  /\ pc = "exports" /\ i > Len(sections)
  /\ work' = IF directives = << >> THEN sections ELSE Append(sections, Drectve)
  /\ Goto("check")
  /\ UNCHANGED <<file, directives, names, slots, recs, layout, last, calls>>

Unnamed(s) == s.kind = "Custom" /\ s.custom = NoName

TooManySections ==
  /\ pc = "check" /\ Len(work) >= Word16
  /\ Fail("sections")

UnnamedSection ==
  /\ pc = "check" /\ Len(work) < Word16
  /\ \E n \in DOMAIN work : Unnamed(work[n])
  /\ Fail("name")

Accept ==
  /\ pc = "check" /\ Len(work) < Word16
  /\ \A n \in DOMAIN work : ~Unnamed(work[n])
  /\ Goto("names")
  /\ UNCHANGED <<file, directives, work, names, slots, recs, layout, last, calls>>

-----------------------------------------------------------------------------
(***************************************************************************)
(* Phase 3: the long names, before anything refers to one.                 *)
(***************************************************************************)
\* The k-th name of section s: its own, then those of its symbols.
NameAt(s, n) == IF n = 1 THEN SectionName(s) ELSE s.symbols[n - 1].name

InternName ==
  /\ pc = "names" /\ i <= Len(work) /\ k <= Len(work[i].symbols) + 1
  /\ strtab' = InternLong(strtab, NameAt(work[i], k))
  /\ k' = k + 1
  /\ UNCHANGED <<file, pc, i, directives, work, symIdx, slots, recs, layout, last, calls>>

InternNextSection ==
  /\ pc = "names" /\ i <= Len(work) /\ k > Len(work[i].symbols) + 1
  /\ NextSection
  /\ UNCHANGED <<file, directives, work, names, slots, recs, layout, last, calls>>

\* externalRefs; the empty name is not left out.
ExternalRefs(ss) == ReferencedNames(ss) \ DefinedNames(ss)

First(S) == {name \in S : \A other \in S : Rank(name) <= Rank(other)}

\* A defect: long names of undefined symbols enter in any order.
InternExternAny ==
  LET todo == (ExternalRefs(work) \cap LongNames) \ DOMAIN strtab.offsets
  IN  /\ pc = "names" /\ i > Len(work) /\ todo # {}
      /\ \E name \in todo : strtab' = Intern(strtab, name)
      /\ UNCHANGED <<file, pc, i, k, directives, work, symIdx, slots, recs, layout,
                     last, calls>>

InternExtern ==
  LET todo == (ExternalRefs(work) \cap LongNames) \ DOMAIN strtab.offsets
  IN  /\ pc = "names" /\ i > Len(work) /\ todo # {}
      /\ \E name \in First(todo) : strtab' = Intern(strtab, name)
      /\ UNCHANGED <<file, pc, i, k, directives, work, symIdx, slots, recs, layout,
                     last, calls>>

NamesDone ==
  /\ pc = "names" /\ i > Len(work)
  /\ ExternalRefs(work) \cap LongNames \subseteq DOMAIN strtab.offsets
  /\ Goto("headers")
  /\ UNCHANGED <<file, directives, work, names, slots, recs, layout, last, calls>>

-----------------------------------------------------------------------------
(***************************************************************************)
(* Phase 4: the symbol table.                                              *)
(***************************************************************************)
Slot(name, value, section, type, class, aux) ==
  [name |-> NameField(strtab, name), value |-> value, section |-> section,
   type |-> type, class |-> class, aux |-> aux]

RawSize(s) == IF NoBits(s) THEN 0 ELSE Uint32(s.size)

\* An auxiliary record overlays a slot with other fields.
AuxSlot(s) == [class |-> "AUX", size |-> RawSize(s), relocs |-> Uint16(Len(s.relocs))]

SectionSymbol ==
  /\ pc = "headers" /\ i <= Len(work)
  /\ LET s == work[i]
         n == IF s.linkOnce THEN 1 ELSE 0
     IN  /\ slots' = slots \o <<Slot(SectionName(s), 0, Int16(i), "NULL", "STATIC", n)>>
                           \o (IF s.linkOnce THEN <<AuxSlot(s)>> ELSE << >>)
         /\ strtab' = InternLong(strtab, SectionName(s))
  /\ i' = i + 1
  /\ UNCHANGED <<file, pc, k, directives, work, symIdx, recs, layout, last, calls>>

SectionSymbolsDone ==
  /\ pc = "headers" /\ i > Len(work)
  /\ Goto("symbols")
  /\ UNCHANGED <<file, directives, work, names, slots, recs, layout, last, calls>>

\* A defect: the index counts symbols, not slots.
EnterSymbolCount(name, value, section, type, class) ==
  /\ slots' = Append(slots, Slot(name, value, section, type, class, 0))
  /\ symIdx' = Put(symIdx, name, Cardinality({n \in DOMAIN slots : slots[n].class # "AUX"}))
  /\ strtab' = InternLong(strtab, name)

\* A defect: the index is taken behind the new slot.
EnterSymbolLate(name, value, section, type, class) ==
  /\ slots' = Append(slots, Slot(name, value, section, type, class, 0))
  /\ symIdx' = Put(symIdx, name, Len(slots'))
  /\ strtab' = InternLong(strtab, name)

\* A new slot, which the name now stands for.
EnterSymbol(name, value, section, type, class) ==
  /\ slots' = Append(slots, Slot(name, value, section, type, class, 0))
  /\ symIdx' = Put(symIdx, name, Len(slots))
  /\ strtab' = InternLong(strtab, name)

Class(binding) == IF binding = "Local" THEN "STATIC" ELSE "EXTERNAL"
Type(kind) == IF kind = "Func" THEN "FUNC" ELSE "NULL"

DefineSymbol ==
  /\ pc = "symbols" /\ i <= Len(work) /\ k <= Len(work[i].symbols)
  /\ LET sym == work[i].symbols[k]
     IN  EnterSymbol(sym.name, sym.offset, Int16(i), Type(sym.kind), Class(sym.binding))
  /\ k' = k + 1
  /\ UNCHANGED <<file, pc, i, directives, work, recs, layout, last, calls>>

DefineNextSection ==
  /\ pc = "symbols" /\ i <= Len(work) /\ k > Len(work[i].symbols)
  /\ NextSection
  /\ UNCHANGED <<file, directives, work, names, slots, recs, layout, last, calls>>

UndefinedSymbol ==
  LET todo == ExternalRefs(work) \ DOMAIN symIdx
  IN  /\ pc = "symbols" /\ i > Len(work) /\ todo # {}
      /\ \E name \in First(todo) : EnterSymbol(name, 0, 0, "NULL", "EXTERNAL")
      /\ UNCHANGED <<file, pc, i, k, directives, work, recs, layout, last, calls>>

SymbolsDone ==
  /\ pc = "symbols" /\ i > Len(work) /\ ExternalRefs(work) \subseteq DOMAIN symIdx
  /\ Goto("relocs")
  /\ UNCHANGED <<file, directives, work, names, slots, recs, layout, last, calls>>

-----------------------------------------------------------------------------
(***************************************************************************)
(* Phases 5 and 6: the relocation records, the places of the sections.     *)
(***************************************************************************)
RelocOK(r) == r.symbol \in DOMAIN symIdx /\ Supported(opts.arch, r.kind)

Record(r) ==
  [offset |-> r.offset, sym |-> symIdx[r.symbol], type |-> RelocType(opts.arch, r.kind)]

ConvertSection ==
  /\ pc = "relocs" /\ i <= Len(work)
  /\ LET rs == work[i].relocs
     IN  /\ \A m \in DOMAIN rs : RelocOK(rs[m])
         /\ recs' = Append(recs, [m \in DOMAIN rs |-> Record(rs[m])])
  /\ i' = i + 1
  /\ UNCHANGED <<file, pc, k, directives, work, names, slots, layout, last, calls>>

RelocFails ==
  /\ pc = "relocs" /\ i <= Len(work)
  /\ \E m \in DOMAIN work[i].relocs : ~RelocOK(work[i].relocs[m])
  /\ Fail("relocation")

RelocsDone ==
  /\ pc = "relocs" /\ i > Len(work)
  /\ Goto("layout")
  /\ pos' = 20 + 40 * Len(work)
  /\ UNCHANGED <<file, directives, work, names, slots, recs, lay, out, last, calls>>

\* The code's positions are uint32.  Here they are whole numbers, cut where they
\* are stored and where padTo compares them: adding to a position and rounding
\* it up to a power of two commute with the cut.
NoPlace == [raw |-> 0, relocs |-> 0, count |-> 0]

\* A section without bytes takes no place, and neither do its relocations.
SkipSection ==
  /\ pc = "layout" /\ i <= Len(work) /\ NoBits(work[i])
  /\ lay' = Append(lay, NoPlace)
  /\ i' = i + 1
  /\ UNCHANGED <<file, pc, k, directives, work, names, slots, recs, pos, out, last, calls>>

\* A defect: the position does not move past the relocation records.
PlaceSectionNoRecords ==
  LET at  == AlignUp(pos, EffectiveAlign(work[i]))
      end == at + work[i].size
      n   == Len(recs[i])
  IN  /\ pc = "layout" /\ i <= Len(work) /\ ~NoBits(work[i]) /\ n < Word16
      /\ lay' = Append(lay, [raw |-> at, relocs |-> IF n > 0 THEN end ELSE 0, count |-> n])
      /\ pos' = end
      /\ i' = i + 1
      /\ UNCHANGED <<file, pc, k, directives, work, names, slots, recs, out, last, calls>>

PlaceSection ==
  LET at  == AlignUp(pos, EffectiveAlign(work[i]))
      end == at + work[i].size
      n   == Len(recs[i])
  IN  /\ pc = "layout" /\ i <= Len(work) /\ ~NoBits(work[i]) /\ n < Word16
      /\ lay' = Append(lay, [raw |-> at, relocs |-> IF n > 0 THEN end ELSE 0, count |-> n])
      /\ pos' = end + 10 * n
      /\ i' = i + 1
      /\ UNCHANGED <<file, pc, k, directives, work, names, slots, recs, out, last, calls>>

\* A defect: the section is left without its relocations instead.
TooManyRelocsSilent ==
  /\ pc = "layout" /\ i <= Len(work) /\ ~NoBits(work[i]) /\ Len(recs[i]) >= Word16
  /\ lay' = Append(lay, NoPlace)
  /\ i' = i + 1
  /\ UNCHANGED <<file, pc, k, directives, work, names, slots, recs, pos, out, last, calls>>

TooManyRelocs ==
  /\ pc = "layout" /\ i <= Len(work) /\ ~NoBits(work[i]) /\ Len(recs[i]) >= Word16
  /\ Fail("relocations")

LayoutDone ==
  /\ pc = "layout" /\ i > Len(work)
  /\ Goto("write")
  /\ out' = [EmptyOut EXCEPT !.len = 20 + 40 * Len(work)]
  /\ UNCHANGED <<file, directives, work, names, slots, recs, lay, pos, last, calls>>

-----------------------------------------------------------------------------
(***************************************************************************)
(* Phase 7: the bytes.                                                     *)
(***************************************************************************)
Code(n) ==
  IF n > Len(sections) THEN directives
  ELSE [b \in 1 .. work[n].size |-> <<"code", n, b>>]

\* A defect: the four bytes behind the field are not counted on AMD64.
FieldNoBump(n, m) ==
  LET r == work[n].relocs[m]
      w == FieldWidth(recs[n][m].type)
  IN  [offset |-> r.offset, width |-> w,
       value |-> IF w = 8 THEN r.addend ELSE Int32(r.addend)]

\* What goes into the bytes of relocation m: REL32 of AMD64 is relative to the
\* end of its field, the caller's addend to the start.
Field(n, m) ==
  LET r == work[n].relocs[m]
      w == FieldWidth(recs[n][m].type)
      a == IF Machine(opts.arch) = "AMD64" /\ recs[n][m].type = 4 THEN r.addend + 4
           ELSE r.addend
  IN  [offset |-> r.offset, width |-> w, value |-> IF w = 8 THEN a ELSE Int32(a)]

\* Where padTo, which compares the low 32 bits of the length, stops if it has
\* anything to do.
Reach(len, target) == len - Uint32(len) + Uint32(target)

PatchedCode(n) == Patch(Code(n), [m \in DOMAIN recs[n] |-> Field(n, m)])

WriteSection ==
  /\ pc = "write" /\ i <= Len(work)
  /\ LET raw == Emit(out, Reach(out.len, lay[i].raw), work[i].size, PatchedCode(i))
     IN  out' = IF NoBits(work[i]) THEN out
                ELSE IF recs[i] = << >> THEN raw
                ELSE Emit(raw, 0, 10 * Len(recs[i]), recs[i])
  /\ i' = i + 1
  /\ UNCHANGED <<file, pc, k, directives, work, names, slots, recs, lay, pos, last, calls>>

Header(n) ==
  [name |-> HeaderName(strtab, SectionName(work[n])), chars |-> SectionChars(work[n]),
   size |-> Uint32(IF NoBits(work[n]) THEN VirtualSize(work[n]) ELSE work[n].size),
   raw |-> Uint32(lay[n].raw), relocs |-> Uint32(lay[n].relocs),
   count |-> Uint16(lay[n].count)]

\* The symbol table is padded to its place, the string table follows it.
Tables ==
  LET syms == Emit(out, Reach(out.len, pos), 18 * Len(slots), slots)
  IN  Emit(syms, 0, 4 + Len(strtab.data), strtab.data)

\* extent is not in the file: the position that symtab is the low 32 bits of.
Image ==
  [machine |-> Machine(opts.arch), count |-> Uint16(Len(work)), symtab |-> Uint32(pos),
   nsyms |-> Len(slots), shdrs |-> [n \in DOMAIN work |-> Header(n)],
   chunks |-> Tables.chunks, extent |-> pos]

\* One Write, of which the writer takes all, a part or nothing.
Deliver ==
  /\ pc = "write" /\ i > Len(work)
  /\ \E written \in {"none", "some", "all"} :
       Return([status |-> "built", input |-> Input, image |-> Image, written |-> written])

-----------------------------------------------------------------------------
Caller ==
  \/ \E s \in Sections : AddSection(s)
  \/ \E v \in Subsystems : SetSubsystem(v)
  \/ WriteTo

Build ==
  \/ ScanSymbol \/ ScanNextSection \/ ScanDone
  \/ TooManySections \/ UnnamedSection \/ Accept
  \/ InternName \/ InternNextSection \/ InternExtern \/ NamesDone
  \/ SectionSymbol \/ SectionSymbolsDone
  \/ DefineSymbol \/ DefineNextSection \/ UndefinedSymbol \/ SymbolsDone
  \/ ConvertSection \/ RelocFails \/ RelocsDone
  \/ SkipSection \/ PlaceSection \/ TooManyRelocs \/ LayoutDone
  \/ WriteSection \/ Deliver

Next == Caller \/ Build

\* The build is sequential code that waits for nothing.
Spec == Init /\ [][Next]_vars /\ WF_vars(Build)

-----------------------------------------------------------------------------
Phases == {"idle", "exports", "check", "names", "headers", "symbols", "relocs",
           "layout", "write"}

NameFields == [inline : Name, at : Nat]

Slots ==
  [name : NameFields, value : Nat, section : Int, type : {"NULL", "FUNC"},
   class : {"STATIC", "EXTERNAL"}, aux : {0, 1}]
  \cup [class : {"AUX"}, size : Nat, relocs : Nat]

Records == [offset : Nat, sym : Nat, type : Nat]

Places == [raw : Nat, relocs : Nat, count : Nat]

TypeOK ==
  /\ opts \in [arch : Targets, subsystem : Subsystems \cup {"console"}]
  /\ sections \in Seq(Sections)
  /\ pc \in Phases
  /\ i \in Nat \ {0} /\ k \in Nat \ {0}
  /\ work \in Seq(Section)
  /\ directives \in Seq(Char \cup {"/EXPORT:"})
  /\ Consistent(strtab)
  /\ lay \in Seq(Places)
  /\ DOMAIN symIdx \subseteq Name
  /\ slots \in Seq(Slots)
  /\ recs \in Seq(Seq(Records))
  /\ pos \in Nat /\ out.len \in Nat

\* A stored name is read as the name it was stored for: in the field itself,
\* or in the string table behind its size prefix.
NameReads(f, data, name) ==
  \/ name \notin LongNames /\ f.inline = name /\ f.at = 0
  \/ f.inline = NoName /\ f.at >= 4 /\ ReadsAs(data, f.at - 4, name)

\* The name map never points at an auxiliary record, and never lies: the slot
\* it holds for a name is behind the section symbols and carries that name
\* (symIdx in build); every record converted so far names its symbol through
\* that slot, and belongs to the relocation with its number.
Carries(n, name) ==
  /\ n + 1 \in DOMAIN slots
  /\ slots[n + 1].class # "AUX"
  /\ NameReads(slots[n + 1].name, strtab.data, name)

SlotsSound ==
  /\ \A name \in DOMAIN symIdx :
       symIdx[name] \in Nat /\ Len(work) <= symIdx[name] /\ Carries(symIdx[name], name)
  /\ \A c \in DOMAIN recs :
       /\ c \in DOMAIN work
       /\ Len(recs[c]) = Len(work[c].relocs)
       /\ \A m \in DOMAIN recs[c] :
            /\ recs[c][m].offset = work[c].relocs[m].offset
            /\ Carries(recs[c][m].sym, work[c].relocs[m].symbol)
=============================================================================
