------------------------------ MODULE ElfFile ------------------------------
(***************************************************************************)
(* elf.File: sections and options are collected, then Serialize or WriteTo *)
(* builds an ELF relocatable object in memory (build64 or build32: the     *)
(* same algorithm over two classes of structure sizes) and hands it over   *)
(* in one piece.  One action stands for one iteration of a loop of the     *)
(* build, so that every intermediate table is a state.                     *)
(*                                                                         *)
(* ELF indices and offsets count from 0, TLA+ sequences from 1: symbol     *)
(* index n is syms[n + 1], section index n is descs[n + 1].                *)
(***************************************************************************)
EXTENDS Objects, StrTab, Buffer, FiniteSets

CONSTANTS
  Targets,       \* the Arch values of the Targets given to NewFile
  Sections,      \* the sections a caller may add
  Within(_),     \* bound: the lists of sections one File may hold
  MaxCalls(_),   \* bound: Serialize / WriteTo calls on a File with these sections
  Tuned(_),      \* bound: the lists of sections with which options are changed
  OSABIs,        \* the values SetOSABI is called with
  Switch,        \* the values EnableDWARF is called with
  Rank(_),       \* position of a name in the order of sort.Strings
  Half32,        \* 2^31, scaled down: an int32 holds -Half32 .. Half32 - 1
  Word16,        \* 2^16, scaled down: a uint16 holds 0 .. Word16 - 1
  Word24         \* 2^24, scaled down: what rinfo32 leaves of a symbol index

ASSUME SectionsAssumption == Sections \subseteq Section

ASSUME AlignAssumption ==
  \A s \in Sections : s.align = 0 \/ PowerOfTwo(s.align)

ASSUME RankAssumption ==
  \A n, m \in UNION {ReferencedNames(<<s>>) : s \in Sections} :
    Rank(n) \in Nat /\ (Rank(n) = Rank(m) => n = m)

ASSUME BoundsAssumption ==
  /\ Targets \subseteq Archs
  /\ Half32 \in Nat \ {0} /\ Word16 \in Nat \ {0} /\ Word24 \in Nat \ {0}

-----------------------------------------------------------------------------
(***************************************************************************)
(* Structure sizes and conversions.                                        *)
(***************************************************************************)
Class64 == [ehdr |-> 64, sym |-> 24, rela |-> 24, word |-> 8]
Class32 == [ehdr |-> 52, sym |-> 16, rela |-> 12, word |-> 4]

Is64(arch) == arch # "X86"

Class(arch) == IF Is64(arch) THEN Class64 ELSE Class32

Uint16(n) == n % Word16
Uint32(n) == n % (2 * Half32)
Int32(n) == ((n + Half32) % (2 * Half32)) - Half32

\* A size or an offset, an addend: as wide as the class stores them.
Size(arch, n) == IF Is64(arch) THEN n ELSE Uint32(n)
Addend(arch, n) == IF Is64(arch) THEN n ELSE Int32(n)

\* The native relocation types of each e_machine; a kind that is not in the
\* machine's table is an error.
RelocTable ==
  [AMD64   |-> [Abs64 |-> 1, Abs32 |-> 10, PCRel32 |-> 2, PLT32 |-> 4,
                GOTLoad |-> 9, TLSGD |-> 19, TLSIE |-> 22, TLSLE |-> 23],
   ARM64   |-> [Abs64 |-> 257, Abs32 |-> 258, PCRel26 |-> 283,
                ADRPage21 |-> 275, AddOff12 |-> 277, GOTPage21 |-> 311,
                GOTOff12 |-> 312, TLSGD |-> 513, TLSIE |-> 541, TLSLE |-> 554],
   X86     |-> [Abs32 |-> 1, PCRel32 |-> 2, GOTLoad |-> 3],
   RISCV64 |-> [Abs64 |-> 2, Abs32 |-> 1, RISCVCall |-> 19, RISCVHI20 |-> 26,
                RISCVLO12I |-> 27, RISCVLO12S |-> 28, TLSGD |-> 22,
                TLSIE |-> 21, TLSLE |-> 29]]

Supported(arch, kind) == kind \in DOMAIN RelocTable[arch]

\* The symbol index r_info holds, and the r_type next to it: rinfo32 shifts
\* the one out of the word from 2^24 on and keeps eight bits of the other.
SymNum(arch, n) == IF Is64(arch) THEN n ELSE n % Word24

RelocType(arch, kind) ==
  IF Is64(arch) THEN RelocTable[arch][kind] ELSE RelocTable[arch][kind] % 256

\* st_type and st_bind.
SymType == [Func |-> "FUNC", Data |-> "OBJECT", Section |-> "SECTION"]
SymBind == [Local |-> "LOCAL", Global |-> "GLOBAL", Weak |-> "WEAK"]

FixedName ==
  [Text |-> ".text", Data |-> ".data", ROData |-> ".rodata", BSS |-> ".bss",
   Unwind |-> ".eh_frame", InitArray |-> ".init_array",
   FiniArray |-> ".fini_array", Unknown |-> ".unknown"]

SectionName(s) ==
  CASE s.kind = "Custom" -> s.custom
    [] s.kind = "TLS"    -> IF s.size > 0 THEN <<".tdata">> ELSE <<".tbss">>
    [] OTHER             -> <<FixedName[s.kind]>>

RelaName(s) == <<".rela">> \o SectionName(s)

TailNames == {<<".group">>, <<".note.GNU-stack">>, <<".symtab">>,
              <<".strtab">>, <<".shstrtab">>}

\* The fixed names are strings over Char too.
ASSUME FixedNamesAssumption ==
  /\ {FixedName[k] : k \in DOMAIN FixedName} \subseteq Char
  /\ {".tdata", ".tbss", ".rela"} \subseteq Char
  /\ TailNames \subseteq Name

\* The alignment of a section that does not ask for one.  A section of
\* unknown kind keeps the zero value, as its type and its data do.
DefaultAlign(arch, s) ==
  CASE s.kind = "Text"    -> 16
    [] s.kind = "Unknown" -> 0
    [] OTHER              -> Class(arch).word

ContentType(s) ==
  CASE NoBits(s)            -> "NOBITS"
    [] s.kind = "Unknown"   -> "NULL"
    [] s.kind = "InitArray" -> "INIT_ARRAY"
    [] s.kind = "FiniArray" -> "FINI_ARRAY"
    [] OTHER                -> "PROGBITS"

-----------------------------------------------------------------------------
(***************************************************************************)
(* The state: the File, then the local variables of the build.             *)
(***************************************************************************)
VARIABLES
  opts,         \* the File's options: arch, osabi, dwarf, gnuStack
  sections,     \* the File's sections
  pc,           \* the loop the build is in, "idle" between calls
  i, k,         \* its cursors: a section or a descriptor, an item of it
  strtab,       \* .strtab
  symIndex,     \* the map from a name to its symbol index
  syms,         \* the symbol table
  firstGlobal,  \* sh_info of .symtab
  relas,        \* the RELA entries of the section being converted
  relaWork,     \* the finished RELA sections
  shstrtab,     \* .shstrtab
  descs,        \* the section descriptors, the NULL one first
  pos,          \* the layout's position, in the end e_shoff
  out,          \* the output buffer: its length and the data written to it
  last,         \* the last call that returned: its input and its outcome
  calls         \* calls so far, for MaxCalls

file   == <<opts, sections>>
tables == <<strtab, symIndex, syms, firstGlobal>>
relocs == <<relas, relaWork>>
layout == <<shstrtab, descs, pos, out>>
vars   == <<file, pc, i, k, tables, relocs, layout, last, calls>>

Input == [opts |-> opts, sections |-> sections]

\* No call has returned yet.
NoCall == [status |-> "none"]

NullSym == [name |-> 0, bind |-> "LOCAL", type |-> "NOTYPE", shndx |-> 0,
            value |-> 0]

SectionSym(n) == [NullSym EXCEPT !.type = "SECTION", !.shndx = Uint16(n)]

NullDesc == [name |-> NoName, type |-> "NULL", link |-> 0, info |-> 0,
             align |-> 0, size |-> 0, noSize |-> 0, data |-> << >>, off |-> 0]


Init ==
  /\ opts \in [arch : Targets, osabi : {0}, dwarf : {FALSE}, gnuStack : {TRUE}]
  /\ sections = << >>
  /\ pc = "idle"
  /\ i = 1 /\ k = 1
  /\ strtab = NewStrTab /\ symIndex = EmptyMap
  /\ syms = << >> /\ firstGlobal = 0
  /\ relas = << >> /\ relaWork = << >>
  /\ shstrtab = NewStrTab /\ descs = << >>
  /\ pos = 0 /\ out = EmptyOut
  /\ last = NoCall
  /\ calls = 0

-----------------------------------------------------------------------------
(***************************************************************************)
(* The operations of File that only record what they are given.            *)
(***************************************************************************)
locals == <<i, k, tables, relocs, layout>>

AddSection(s) ==
  /\ pc = "idle" /\ Within(Append(sections, s))
  /\ sections' = Append(sections, s)
  /\ UNCHANGED <<opts, pc, locals, last, calls>>

SetOption(o) ==
  /\ pc = "idle" /\ (o # opts => Tuned(sections))
  /\ opts' = o
  /\ UNCHANGED <<sections, pc, locals, last, calls>>

SetOSABI(v)        == SetOption([opts EXCEPT !.osabi = v])
EnableDWARF(on)    == SetOption([opts EXCEPT !.dwarf = on])
EnableGNUStack(on) == SetOption([opts EXCEPT !.gnuStack = on])

\* WriteTo(w) starts to build; Serialize is WriteTo into a bytes.Buffer.  The
\* symbol table starts with the null symbol and one symbol per section.
WriteTo ==
  /\ pc = "idle" /\ calls < MaxCalls(sections)
  /\ pc' = "locals"
  /\ calls' = calls + 1
  /\ syms' = <<NullSym>> \o [n \in 1 .. Len(sections) |-> SectionSym(n)]
  /\ UNCHANGED <<file, i, k, strtab, symIndex, firstGlobal, relocs, layout, last>>

\* The call returns this outcome; the locals of the build are garbage.
Return(outcome) ==
  /\ last' = outcome
  /\ pc' = "idle"
  /\ i' = 1 /\ k' = 1
  /\ strtab' = NewStrTab /\ symIndex' = EmptyMap
  /\ syms' = << >> /\ firstGlobal' = 0
  /\ relas' = << >> /\ relaWork' = << >>
  /\ shstrtab' = NewStrTab /\ descs' = << >>
  /\ pos' = 0 /\ out' = EmptyOut
  /\ UNCHANGED <<file, calls>>

Fail(why) ==
  Return([status |-> "failed", input |-> Input, error |-> why, written |-> "none"])

-----------------------------------------------------------------------------
(***************************************************************************)
(* Phase 1: the symbol table.  Two passes over all symbols of all sections *)
(* put the local ones first, then the undefined names follow.              *)
(***************************************************************************)
Goto(phase) == pc' = phase /\ i' = 1 /\ k' = 1

NextSection == i' = i + 1 /\ k' = 1 /\ UNCHANGED pc

AtSymbol == i <= Len(sections) /\ k <= Len(sections[i].symbols)

\* A defect: the second pass enters the local symbols again.
WantedAgain(sym) ==
  \/ pc = "locals" /\ sym.binding = "Local" /\ sym.kind # "Section"
  \/ pc = "globals"

\* The symbols a pass enters: a local label of kind SymSection is in neither.
Wanted(sym) ==
  \/ pc = "locals" /\ sym.binding = "Local" /\ sym.kind # "Section"
  \/ pc = "globals" /\ sym.binding # "Local"

NewEntry(name, bind, type, shndx, value) ==
  [name |-> OffsetOf(strtab, name), bind |-> bind, type |-> type,
   shndx |-> shndx, value |-> value]

\* A defect: the index is taken after the entry was appended.
EnterSymbolLate(name, bind, type, shndx, value) ==
  /\ syms' = Append(syms, NewEntry(name, bind, type, shndx, value))
  /\ strtab' = Intern(strtab, name)
  /\ symIndex' = Put(symIndex, name, Len(syms) + 1)

\* A defect: the first definition of a name keeps it.
EnterSymbolFirstWins(name, bind, type, shndx, value) ==
  /\ syms' = Append(syms, NewEntry(name, bind, type, shndx, value))
  /\ strtab' = Intern(strtab, name)
  /\ symIndex' = IF name \in DOMAIN symIndex THEN symIndex
                 ELSE Put(symIndex, name, Len(syms))

\* A new symbol table entry, which the name now stands for.
EnterSymbol(name, bind, type, shndx, value) ==
  /\ syms' = Append(syms, NewEntry(name, bind, type, shndx, value))
  /\ strtab' = Intern(strtab, name)
  /\ symIndex' = Put(symIndex, name, Len(syms))

DefineSymbol ==
  /\ pc \in {"locals", "globals"} /\ AtSymbol
  /\ LET sym == sections[i].symbols[k]
     IN  /\ Wanted(sym)
         /\ EnterSymbol(sym.name, SymBind[sym.binding], SymType[sym.kind],
                        Uint16(i), sym.offset)
  /\ k' = k + 1
  /\ UNCHANGED <<file, pc, i, firstGlobal, relocs, layout, last, calls>>

SkipSymbol ==
  /\ pc \in {"locals", "globals"} /\ AtSymbol
  /\ ~Wanted(sections[i].symbols[k])
  /\ k' = k + 1
  /\ UNCHANGED <<file, pc, i, tables, relocs, layout, last, calls>>

SectionSymbolsDone ==
  /\ pc \in {"locals", "globals"}
  /\ i <= Len(sections) /\ k > Len(sections[i].symbols)
  /\ NextSection
  /\ UNCHANGED <<file, tables, relocs, layout, last, calls>>

LocalsDone ==
  /\ pc = "locals" /\ i > Len(sections)
  /\ firstGlobal' = Len(syms)
  /\ Goto("globals")
  /\ UNCHANGED <<file, strtab, symIndex, syms, relocs, layout, last, calls>>

GlobalsDone ==
  /\ pc = "globals" /\ i > Len(sections)
  /\ Goto("externs")
  /\ UNCHANGED <<file, tables, relocs, layout, last, calls>>

\* A defect: section labels do not count as definitions of their names.
ExternalSymbolsLabels(ss) ==
  ReferencedNames(ss) \ ({NoName} \cup
    UNION {{ss[n].symbols[m].name : m \in {l \in DOMAIN ss[n].symbols :
              ss[n].symbols[l].kind # "Section"}} : n \in DOMAIN ss})

\* externalSymbols, and those of them the loop has still to enter.
ExternalSymbols(ss) == ReferencedNames(ss) \ (DefinedNames(ss) \cup {NoName})
Undefined == ExternalSymbols(sections) \ DOMAIN symIndex

\* A defect: the names come in the order of Go's map iteration, any order.
ExternSymbolUnsorted ==
  /\ pc = "externs"
  /\ \E name \in Undefined : EnterSymbol(name, "GLOBAL", "NOTYPE", 0, 0)
  /\ UNCHANGED <<file, pc, i, k, firstGlobal, relocs, layout, last, calls>>

ExternSymbol ==
  /\ pc = "externs"
  /\ \E name \in Undefined :
       /\ \A other \in Undefined : Rank(name) <= Rank(other)
       /\ EnterSymbol(name, "GLOBAL", "NOTYPE", 0, 0)
  /\ UNCHANGED <<file, pc, i, k, firstGlobal, relocs, layout, last, calls>>

ExternsDone ==
  /\ pc = "externs" /\ Undefined = {}
  /\ Goto("relocs")
  /\ UNCHANGED <<file, tables, relocs, layout, last, calls>>

-----------------------------------------------------------------------------
(***************************************************************************)
(* Phase 2: the RELA data of the sections that have relocations.           *)
(***************************************************************************)
AtReloc == i <= Len(sections) /\ k <= Len(sections[i].relocs)

RelocOK(r) == r.symbol \in DOMAIN symIndex /\ Supported(opts.arch, r.kind)

RelaEntry(r) ==
  [offset |-> r.offset, sym |-> SymNum(opts.arch, symIndex[r.symbol]),
   type |-> RelocType(opts.arch, r.kind), addend |-> Addend(opts.arch, r.addend)]

ConvertReloc ==
  /\ pc = "relocs" /\ AtReloc
  /\ RelocOK(sections[i].relocs[k])
  /\ relas' = Append(relas, RelaEntry(sections[i].relocs[k]))
  /\ k' = k + 1
  /\ UNCHANGED <<file, pc, i, tables, relaWork, layout, last, calls>>

RelocFails ==
  /\ pc = "relocs" /\ AtReloc
  /\ ~RelocOK(sections[i].relocs[k])
  /\ Fail("relocation")

\* A defect: one buffer serves all sections and is never reset.
SectionRelocsDoneKept ==
  /\ pc = "relocs"
  /\ i <= Len(sections) /\ k > Len(sections[i].relocs)
  /\ relaWork' = IF sections[i].relocs = << >> THEN relaWork
                 ELSE Append(relaWork, [content |-> i, data |-> relas])
  /\ NextSection
  /\ UNCHANGED <<file, tables, relas, layout, last, calls>>

SectionRelocsDone ==
  /\ pc = "relocs"
  /\ i <= Len(sections) /\ k > Len(sections[i].relocs)
  /\ relaWork' = IF sections[i].relocs = << >> THEN relaWork
                 ELSE Append(relaWork, [content |-> i, data |-> relas])
  /\ relas' = << >>
  /\ NextSection
  /\ UNCHANGED <<file, tables, layout, last, calls>>

RelocsDone ==
  /\ pc = "relocs" /\ i > Len(sections)
  /\ Goto("content")
  /\ shstrtab' = Intern(NewStrTab, NoName)
  /\ descs' = <<NullDesc>>
  /\ UNCHANGED <<file, tables, relocs, pos, out, last, calls>>

-----------------------------------------------------------------------------
(***************************************************************************)
(* Phase 3: the section descriptors.  Section indices are computed from    *)
(* counts before the descriptors they refer to exist.                      *)
(***************************************************************************)
GroupCount == Cardinality({n \in DOMAIN sections : sections[n].linkOnce})

\* A defect: the index of .symtab does not count .note.GNU-stack.
SymtabIdxNoStack == 1 + Len(sections) + Len(relaWork) + GroupCount

SymtabIdx ==
  1 + Len(sections) + Len(relaWork) + GroupCount + (IF opts.gnuStack THEN 1 ELSE 0)
StrtabIdx   == SymtabIdx + 1
ShstrtabIdx == SymtabIdx + 2

AddDesc(d) ==
  /\ shstrtab' = Intern(shstrtab, d.name)
  /\ descs' = Append(descs, d)

\* Section n's Code is represented by n itself; a section without file bytes
\* has no data.
ContentDesc(n) ==
  LET s     == sections[n]
      bytes == IF NoBits(s) \/ s.kind = "Unknown" THEN 0 ELSE s.size
  IN  [NullDesc EXCEPT
         !.name   = SectionName(s),
         !.type   = ContentType(s),
         !.align  = IF s.align > 0 THEN s.align ELSE DefaultAlign(opts.arch, s),
         !.size   = bytes,
         !.data   = IF bytes = 0 THEN << >> ELSE <<n>>,
         !.noSize = IF NoBits(s) THEN VirtualSize(s) ELSE 0]

RelaDesc(rw) ==
  [NullDesc EXCEPT
     !.name  = RelaName(sections[rw.content]),
     !.type  = "RELA",
     !.align = Class(opts.arch).word,
     !.link  = SymtabIdx,
     !.info  = rw.content,
     !.size  = Class(opts.arch).rela * Len(rw.data),
     !.data  = rw.data]

\* comdatSig: the positions of the symbols that can sign section s's group;
\* the first one does.
Signatures(s) ==
  {n \in DOMAIN s.symbols :
     s.symbols[n].binding # "Local" /\ s.symbols[n].name \in DOMAIN symIndex}

First(S) == CHOOSE n \in S : \A m \in S : n <= m

\* A defect: every section is taken to have a RELA section.
MembersByContent(n) ==
  <<n>> \o (IF \E j \in DOMAIN relaWork : relaWork[j].content = n
            THEN <<Len(sections) + n>> ELSE << >>)

\* buildGroupData: the content section and its RELA section, if it has one.
Members(n) ==
  <<n>> \o (IF \E j \in DOMAIN relaWork : relaWork[j].content = n
            THEN <<Len(sections) + (CHOOSE j \in DOMAIN relaWork :
                                      relaWork[j].content = n)>>
            ELSE << >>)

GroupDesc(n) ==
  LET s == sections[n]
  IN  [NullDesc EXCEPT
         !.name  = <<".group">>,
         !.type  = "GROUP",
         !.align = 4,
         !.link  = SymtabIdx,
         !.info  = symIndex[s.symbols[First(Signatures(s))].name],
         !.size  = 4 * (1 + Len(Members(n))),
         !.data  = Members(n)]

ContentSection ==
  /\ pc = "content" /\ i <= Len(sections)
  /\ AddDesc(ContentDesc(i))
  /\ i' = i + 1
  /\ UNCHANGED <<file, pc, k, tables, relocs, pos, out, last, calls>>

ContentDone ==
  /\ pc = "content" /\ i > Len(sections)
  /\ Goto("rela")
  /\ UNCHANGED <<file, tables, relocs, layout, last, calls>>

RelaSection ==
  /\ pc = "rela" /\ i <= Len(relaWork)
  /\ AddDesc(RelaDesc(relaWork[i]))
  /\ i' = i + 1
  /\ UNCHANGED <<file, pc, k, tables, relocs, pos, out, last, calls>>

RelaDone ==
  /\ pc = "rela" /\ i > Len(relaWork)
  /\ Goto("group")
  /\ UNCHANGED <<file, tables, relocs, layout, last, calls>>

GroupSection ==
  /\ pc = "group" /\ i <= Len(sections)
  /\ sections[i].linkOnce /\ Signatures(sections[i]) # {}
  /\ AddDesc(GroupDesc(i))
  /\ i' = i + 1
  /\ UNCHANGED <<file, pc, k, tables, relocs, pos, out, last, calls>>

NoGroup ==
  /\ pc = "group" /\ i <= Len(sections)
  /\ ~sections[i].linkOnce
  /\ i' = i + 1
  /\ UNCHANGED <<file, pc, k, tables, relocs, layout, last, calls>>

\* A defect: a section nothing can sign is left out of its group silently.
GroupFailsSilently ==
  /\ pc = "group" /\ i <= Len(sections)
  /\ sections[i].linkOnce /\ Signatures(sections[i]) = {}
  /\ i' = i + 1
  /\ UNCHANGED <<file, pc, k, tables, relocs, layout, last, calls>>

GroupFails ==
  /\ pc = "group" /\ i <= Len(sections)
  /\ sections[i].linkOnce /\ Signatures(sections[i]) = {}
  /\ Fail("comdat")

\* The descriptors that end every file.  .shstrtab is captured after its own
\* name has been interned.
\* A defect: the table is frozen before it holds its own name.
TailShstrtabEarly ==
  LET t == IF opts.gnuStack THEN Intern(shstrtab, <<".note.GNU-stack">>) ELSE shstrtab
  IN  Intern(Intern(t, <<".symtab">>), <<".strtab">>)

TailShstrtab ==
  LET t == IF opts.gnuStack THEN Intern(shstrtab, <<".note.GNU-stack">>) ELSE shstrtab
  IN  Intern(Intern(Intern(t, <<".symtab">>), <<".strtab">>), <<".shstrtab">>)

StrDesc(name, data) ==
  [NullDesc EXCEPT !.name = name, !.type = "STRTAB", !.align = 1,
                   !.size = Len(data), !.data = data]

TailDescs ==
  (IF opts.gnuStack
   THEN <<[NullDesc EXCEPT !.name = <<".note.GNU-stack">>, !.type = "PROGBITS",
                           !.align = 1]>>
   ELSE << >>)
  \o <<[NullDesc EXCEPT
          !.name  = <<".symtab">>,
          !.type  = "SYMTAB",
          !.align = Class(opts.arch).word,
          !.link  = StrtabIdx,
          !.info  = firstGlobal,
          !.size  = Class(opts.arch).sym * Len(syms),
          !.data  = syms],
       StrDesc(<<".strtab">>, strtab.data),
       StrDesc(<<".shstrtab">>, TailShstrtab.data)>>

TailSections ==
  /\ pc = "group" /\ i > Len(sections)
  /\ shstrtab' = TailShstrtab
  /\ descs' = descs \o TailDescs
  /\ pos' = Class(opts.arch).ehdr
  /\ pc' = "layout" /\ i' = 2 /\ k' = 1
  /\ UNCHANGED <<file, tables, relocs, out, last, calls>>

-----------------------------------------------------------------------------
(***************************************************************************)
(* Phase 4: file offsets.                                                  *)
(***************************************************************************)
\* A NOBITS section takes an aligned offset and leaves the position there;
\* an empty section takes the position as it is.
PlaceOf(d) ==
  IF d.type # "NOBITS" /\ d.size = 0 THEN pos ELSE AlignUp(pos, d.align)

\* A defect: the padding in front of a section is not added to the position.
PlaceSectionNoGap ==
  /\ pc = "layout" /\ i <= Len(descs)
  /\ descs' = [descs EXCEPT ![i].off = PlaceOf(descs[i])]
  /\ pos' = pos + (IF descs[i].type = "NOBITS" THEN 0 ELSE descs[i].size)
  /\ i' = i + 1
  /\ UNCHANGED <<file, pc, k, tables, relocs, shstrtab, out, last, calls>>

PlaceSection ==
  /\ pc = "layout" /\ i <= Len(descs)
  /\ LET at == PlaceOf(descs[i])
     IN  /\ descs' = [descs EXCEPT ![i].off = at]
         /\ pos' = at + (IF descs[i].type = "NOBITS" THEN 0 ELSE descs[i].size)
  /\ i' = i + 1
  /\ UNCHANGED <<file, pc, k, tables, relocs, shstrtab, out, last, calls>>

LayoutDone ==
  /\ pc = "layout" /\ i > Len(descs)
  /\ pos' = AlignUp(pos, Class(opts.arch).word)
  /\ out' = [EmptyOut EXCEPT !.len = Class(opts.arch).ehdr]
  /\ pc' = "write" /\ i' = 2 /\ k' = 1
  /\ UNCHANGED <<file, tables, relocs, shstrtab, descs, last, calls>>

-----------------------------------------------------------------------------
(***************************************************************************)
(* Phase 5: the bytes.  padTo only ever lengthens the buffer: data whose   *)
(* offset has already been passed would land behind it.                    *)
(***************************************************************************)
HasBytes(d) == d.type # "NOBITS" /\ d.size > 0

WriteSection ==
  /\ pc = "write" /\ i <= Len(descs)
  /\ LET d  == descs[i]
         at == PadTo(out.len, d.off)
     IN  out' = IF HasBytes(d)
                THEN [len |-> at + d.size,
                      chunks |-> Append(out.chunks,
                                        [at |-> at, size |-> d.size, data |-> d.data])]
                ELSE out
  /\ i' = i + 1
  /\ UNCHANGED <<file, pc, k, tables, relocs, shstrtab, descs, pos, last, calls>>

\* A section header as it is stored.
Header(d) ==
  [name |-> Lookup(shstrtab, d.name), type |-> d.type, link |-> d.link,
   info |-> d.info, align |-> d.align, off |-> Size(opts.arch, d.off),
   size |-> Size(opts.arch, IF d.type = "NOBITS" THEN d.noSize ELSE d.size)]

Image ==
  [arch     |-> opts.arch,
   osabi    |-> opts.osabi,
   shoff    |-> Size(opts.arch, pos),
   shnum    |-> Uint16(Len(descs)),
   shstrndx |-> Uint16(ShstrtabIdx),
   chunks   |-> out.chunks,
   shdrs    |-> [n \in 1 .. Len(descs) |-> Header(descs[n])],
   shdrsAt  |-> PadTo(out.len, pos)]

\* The whole image goes to the caller's writer in one Write, which may take
\* all of it, a part or nothing.
Deliver ==
  /\ pc = "write" /\ i > Len(descs)
  /\ \E written \in {"none", "some", "all"} :
       Return([status |-> "built", input |-> Input, image |-> Image,
               written |-> written])

-----------------------------------------------------------------------------
Caller ==
  \/ \E s \in Sections : AddSection(s)
  \/ \E v \in OSABIs : SetOSABI(v)
  \/ \E on \in Switch : EnableDWARF(on)
  \/ \E on \in BOOLEAN : EnableGNUStack(on)
  \/ WriteTo

Build ==
  \/ DefineSymbol \/ SkipSymbol \/ SectionSymbolsDone \/ LocalsDone
  \/ GlobalsDone \/ ExternSymbol \/ ExternsDone
  \/ ConvertReloc \/ RelocFails \/ SectionRelocsDone \/ RelocsDone
  \/ ContentSection \/ ContentDone \/ RelaSection \/ RelaDone
  \/ GroupSection \/ NoGroup \/ GroupFails \/ TailSections
  \/ PlaceSection \/ LayoutDone \/ WriteSection \/ Deliver

Next == Caller \/ Build

\* A call that has started runs: the build is sequential code that waits for
\* nothing.
Spec == Init /\ [][Next]_vars /\ WF_vars(Build)

-----------------------------------------------------------------------------
(***************************************************************************)
(* Invariants of the tables while they are built.                          *)
(***************************************************************************)
Phases == {"idle", "locals", "globals", "externs", "relocs", "content", "rela",
           "group", "layout", "write"}

SymEntry ==
  [name : Nat, bind : {"LOCAL", "GLOBAL", "WEAK"},
   type : {"NOTYPE", "OBJECT", "FUNC", "SECTION"}, shndx : Nat, value : Nat]

RelaEntries == [offset : Nat, sym : Nat, type : Nat, addend : Int]

RelaSections == [content : Nat, data : Seq(RelaEntries)]

Options == [arch : Targets, osabi : OSABIs \cup {0}, dwarf : Switch \cup {FALSE},
            gnuStack : BOOLEAN]

TypeOK ==
  /\ opts \in Options
  /\ sections \in Seq(Sections)
  /\ pc \in Phases
  /\ i \in Nat \ {0} /\ k \in Nat \ {0}
  /\ StrTabOK(strtab) /\ StrTabOK(shstrtab)
  /\ DOMAIN symIndex \subseteq Name
  /\ syms \in Seq(SymEntry)
  /\ firstGlobal \in Nat
  /\ relas \in Seq(RelaEntries)
  /\ relaWork \in Seq(RelaSections)

\* The name map never dangles and never lies: the index it holds for a name
\* is that of an entry behind the section symbols whose st_name, read in
\* .strtab, is that name (symIndex in build64 and build32).
IndexSound ==
  \A n \in DOMAIN symIndex :
    /\ symIndex[n] \in Nat
    /\ Len(sections) < symIndex[n] /\ symIndex[n] < Len(syms)
    /\ ReadsAs(strtab.data, syms[symIndex[n] + 1].name, n)

\* Local symbols precede firstGlobal and no other symbol does, at every point
\* of the build from the moment firstGlobal is set: the System V rule for
\* sh_info of .symtab, which the two passes over the symbols establish.
LocalsFirst ==
  \A n \in DOMAIN syms :
    IF pc = "locals" THEN syms[n].bind = "LOCAL"
    ELSE syms[n].bind = "LOCAL" <=> n <= firstGlobal

\* Every RELA entry converted so far names, through the symbol table and
\* .strtab and up to what r_info can hold, the symbol its relocation asked
\* for, and is one of the section it is filed under: no entry is skipped,
\* repeated or moved to another section.
EntryOf(e, r) ==
  /\ e.offset = r.offset
  /\ \E n \in DOMAIN syms :
       /\ e.sym = SymNum(opts.arch, n - 1)
       /\ ReadsAs(strtab.data, syms[n].name, r.symbol)

RelasSound ==
  /\ \A j \in DOMAIN relaWork :
       LET c == relaWork[j].content
       IN  /\ c \in DOMAIN sections
           /\ Len(relaWork[j].data) = Len(sections[c].relocs)
           /\ \A m \in DOMAIN relaWork[j].data :
                EntryOf(relaWork[j].data[m], sections[c].relocs[m])
  /\ pc = "relocs" /\ i <= Len(sections) =>
       /\ Len(relas) = k - 1
       /\ \A m \in DOMAIN relas : EntryOf(relas[m], sections[i].relocs[m])

\* Every index computed from counts, before the descriptors existed, hits the
\* descriptor it is meant for once they all do: .symtab, the two string tables
\* with their final contents, each content section and each RELA section.
IndicesHit ==
  pc \in {"layout", "write"} =>
    /\ Len(descs) = ShstrtabIdx + 1
    /\ descs[SymtabIdx + 1].type = "SYMTAB" /\ descs[SymtabIdx + 1].link = StrtabIdx
    /\ descs[StrtabIdx + 1].type = "STRTAB" /\ descs[StrtabIdx + 1].data = strtab.data
    /\ descs[ShstrtabIdx + 1].type = "STRTAB"
    /\ descs[ShstrtabIdx + 1].data = shstrtab.data
    /\ \A c \in DOMAIN sections : descs[c + 1].type = ContentType(sections[c])
    /\ \A j \in DOMAIN relaWork :
         LET d == descs[Len(sections) + j + 1]
         IN  d.type = "RELA" /\ d.link = SymtabIdx /\ d.info = relaWork[j].content

\* Layout and serialisation agree although they compute positions separately:
\* placed sections follow one another without overlap behind the ELF header,
\* each aligned as it asks; every one written so far lies at the offset its
\* header records, and the buffer never passes the offset of one to come, so
\* that padTo always meets its target.
Placed == {n \in 2 .. Len(descs) : HasBytes(descs[n]) /\ (pc = "layout" => n < i)}

WrittenWhereLaidOut ==
  pc \in {"layout", "write"} =>
    /\ \A n \in Placed :
         /\ Class(opts.arch).ehdr <= descs[n].off
         /\ descs[n].off + descs[n].size <= pos
         /\ descs[n].align > 1 => descs[n].off % descs[n].align = 0
         /\ \A m \in Placed : m < n => descs[m].off + descs[m].size <= descs[n].off
    /\ pc = "write" =>
         /\ out.len <= pos
         /\ \A n \in Placed :
              IF n >= i THEN out.len <= descs[n].off
              ELSE \E c \in DOMAIN out.chunks :
                     /\ out.chunks[c].at = descs[n].off
                     /\ out.chunks[c].size = descs[n].size
                     /\ out.chunks[c].data = descs[n].data
=============================================================================
