----------------------------- MODULE MachoFile -----------------------------
(***************************************************************************)
(* macho.File: sections are collected, then Serialize or WriteTo builds a  *)
(* Mach-O object (MH_OBJECT) in memory and hands it over in one piece.     *)
(*                                                                         *)
(* A relocation names its target in one of two ways: by the index of a     *)
(* symbol (r_extern = 1), or, for a local symbol, by the ordinal of the    *)
(* section the symbol is in (r_extern = 0).  Which of the two, and which   *)
(* symbol, is decided by a map that later definitions overwrite.  Symbol n *)
(* is syms[n + 1]; ordinals count from 1, as sequences do.                 *)
(***************************************************************************)
EXTENDS Objects, StrTab, Buffer, FiniteSets

CONSTANTS
  Targets,     \* the Arch values of the Targets given to NewFile
  Sections,    \* the sections a caller may add
  Within(_),   \* bound: the lists of sections one File may hold
  MaxCalls(_), \* bound: Serialize / WriteTo calls on a File with these sections
  Versions,    \* the values SetMinOS is called with
  Switch,      \* the values EnableCodesignReserve is called with
  Rank(_),     \* position of a name in the order of sort.Strings
  Half32,      \* 2^31, scaled down: an int32 holds -Half32 .. Half32 - 1
  Word24,      \* 2^24, scaled down: what r_symbolnum can hold
  Byte,        \* 2^8, scaled down: what n_sect can hold
  NameRoom     \* 16, scaled down: what fits into a section's name field

ASSUME SectionsAssumption ==
  /\ Targets \subseteq Archs
  /\ Sections \subseteq Section
  /\ "none" \notin Versions /\ Switch \subseteq BOOLEAN

ASSUME WidthAssumption ==
  /\ Half32 \in Nat \ {0} /\ Word24 \in Nat \ {0} /\ Byte \in Nat \ {0}
  /\ NameRoom \in Nat

ASSUME PrefixAssumption == <<"_">> \in Name

ASSUME AlignAssumption ==
  \A s \in Sections : s.align = 0 \/ PowerOfTwo(s.align)

ASSUME RankAssumption ==
  \A n, m \in UNION {ReferencedNames(<<s>>) : s \in Sections} :
    Rank(n) \in Nat /\ (Rank(n) = Rank(m) => n = m)

-----------------------------------------------------------------------------
(***************************************************************************)
(* Conversions.                                                            *)
(***************************************************************************)
Uint8(n) == n % Byte
Uint32(n) == n % (2 * Half32)
Int32(n) == ((n + Half32) % (2 * Half32)) - Half32

\* NewFile: every other architecture counts as x86-64.
Machine(arch) == IF arch = "ARM64" THEN arch ELSE "AMD64"

Desc(type, width, pcrel) == [type |-> type, width |-> width, pcrel |-> pcrel]

RelocTable ==
  [AMD64 |-> [Abs64 |-> Desc(0, 8, FALSE), PCRel32 |-> Desc(2, 4, TRUE),
              GOTLoad |-> Desc(3, 4, TRUE), TLSGD |-> Desc(9, 4, TRUE)],
   ARM64 |-> [Abs64 |-> Desc(0, 8, FALSE), PCRel26 |-> Desc(2, 4, TRUE),
              ADRPage21 |-> Desc(3, 4, TRUE), AddOff12 |-> Desc(4, 4, FALSE),
              GOTPage21 |-> Desc(5, 4, TRUE), GOTOff12 |-> Desc(6, 4, FALSE),
              TLSGD |-> Desc(7, 4, TRUE)]]

Supported(arch, kind) == kind \in DOMAIN RelocTable[Machine(arch)]
RelocDesc(arch, kind) == RelocTable[Machine(arch)][kind]

\* arm64PageReloc: an instruction's field has no room for a section offset.
PageReloc(arch, desc) == Machine(arch) = "ARM64" /\ desc.type \in {3, 4}

FixedName ==
  [Text |-> <<"__TEXT", "__text">>, Data |-> <<"__DATA", "__data">>,
   ROData |-> <<"__TEXT", "__const">>, BSS |-> <<"__DATA", "__bss">>,
   Unwind |-> <<"__TEXT", "__unwind_info">>,
   InitArray |-> <<"__DATA", "__mod_init_func">>,
   FiniArray |-> <<"__DATA", "__mod_term_func">>]

\* The first comma of a custom name parts segment and section.
Commas(s) == {n \in DOMAIN s.custom : s.custom[n] = ","}

BadSection(s) == s.kind = "Unknown" \/ (s.kind = "Custom" /\ Commas(s) = {})

SegName(s) ==
  CASE s.kind = "Custom" -> SubSeq(s.custom, 1, Min(Commas(s)) - 1)
    [] s.kind = "TLS"    -> <<"__DATA">>
    [] OTHER             -> <<FixedName[s.kind][1]>>

SectName(s) ==
  CASE s.kind = "Custom" -> SubSeq(s.custom, Min(Commas(s)) + 1, Len(s.custom))
    [] s.kind = "TLS"    -> IF s.size > 0 THEN <<"__thread_data">> ELSE <<"__thread_bss">>
    [] OTHER             -> <<FixedName[s.kind][2]>>

EffectiveAlign(s) ==
  IF s.align > 0 THEN s.align
  ELSE CASE s.kind = "Text"   -> 16
         [] s.kind = "Unwind" -> 4
         [] s.kind = "Custom" -> 1
         [] OTHER             -> 8

Log2(v) == Max({0} \cup {n \in 1 .. 31 : 2 ^ (n - 1) <= v \div 2})

\* copyPaddedName drops what the field cannot hold.
Padded(name) == SubSeq(name, 1, Min({Len(name), NameRoom}))

-----------------------------------------------------------------------------
VARIABLES
  opts,      \* the File's options: arch, minOS ("none" until SetMinOS), reserve
  sections,  \* the File's sections
  pc,        \* the loop the build is in, "idle" between calls
  i, k,      \* its cursors: a section, a symbol of it
  strtab,    \* the string table
  symDefs,   \* the map from a name to what a relocation needs to know of it
  syms,      \* the symbol table
  recs,      \* the relocation records of the sections converted so far
  lay,       \* the places of the sections laid out so far
  pos,       \* the layout's position, in the end the symbol table's
  out,       \* the output buffer: its length and the data written to it
  last,      \* the last call that returned: its input and its outcome
  calls      \* calls so far, for MaxCalls

file   == <<opts, sections>>
tables == <<strtab, symDefs, syms>>
layout == <<lay, pos, out>>
vars   == <<file, pc, i, k, tables, recs, layout, last, calls>>

Input == [opts |-> opts, sections |-> sections]
NoCall == [status |-> "none"]

NullSym == [strx |-> 0, type |-> "NULL", sect |-> 0, weak |-> FALSE, value |-> 0]

Init ==
  /\ opts \in [arch : Targets, minOS : {"none"}, reserve : {FALSE}]
  /\ sections = << >>
  /\ pc = "idle" /\ i = 1 /\ k = 1
  /\ strtab = NewStrTab /\ symDefs = EmptyMap /\ syms = <<NullSym>>
  /\ recs = << >> /\ lay = << >> /\ pos = 0 /\ out = EmptyOut
  /\ last = NoCall /\ calls = 0

-----------------------------------------------------------------------------
(***************************************************************************)
(* The caller's operations.                                                *)
(***************************************************************************)
AddSection(s) ==
  /\ pc = "idle" /\ Within(Append(sections, s))
  /\ sections' = Append(sections, s)
  /\ UNCHANGED <<opts, pc, i, k, tables, recs, layout, last, calls>>

SetOption(o) ==
  /\ pc = "idle"
  /\ opts' = o
  /\ UNCHANGED <<sections, pc, i, k, tables, recs, layout, last, calls>>

\* SetMinOS says "Call before the first AddSection" and works at any time.
SetMinOS(v) == SetOption([opts EXCEPT !.minOS = v])
EnableCodesignReserve(on) == SetOption([opts EXCEPT !.reserve = on])

\* Serialize is WriteTo into a bytes.Buffer.
WriteTo ==
  /\ pc = "idle" /\ calls < MaxCalls(sections)
  /\ pc' = "check"
  /\ calls' = calls + 1
  /\ UNCHANGED <<file, i, k, tables, recs, layout, last>>

\* The call returns this outcome; the locals of the build are garbage.
Return(outcome) ==
  /\ last' = outcome
  /\ pc' = "idle" /\ i' = 1 /\ k' = 1
  /\ strtab' = NewStrTab /\ symDefs' = EmptyMap /\ syms' = <<NullSym>>
  /\ recs' = << >> /\ lay' = << >> /\ pos' = 0 /\ out' = EmptyOut
  /\ UNCHANGED <<file, calls>>

Fail(why) ==
  Return([status |-> "failed", input |-> Input, error |-> why, written |-> "none"])

Goto(phase) == pc' = phase /\ i' = 1 /\ k' = 1
NextSection == i' = i + 1 /\ k' = 1 /\ UNCHANGED pc

-----------------------------------------------------------------------------
(***************************************************************************)
(* Phases 1 and 2: every kind of relocation, then every section has an     *)
(* encoding; phase 3 starts with one symbol per section.                   *)
(***************************************************************************)
KindsOK ==
  \A n \in DOMAIN sections : \A m \in DOMAIN sections[n].relocs :
    Supported(opts.arch, sections[n].relocs[m].kind)

KindFails ==
  /\ pc = "check" /\ ~KindsOK
  /\ Fail("kind")

SectionFails ==
  /\ pc = "check" /\ KindsOK
  /\ \E n \in DOMAIN sections : BadSection(sections[n])
  /\ Fail("section")

SectionSym(n) ==
  [strx |-> 0, type |-> "SECT", sect |-> Uint8(n), weak |-> FALSE, value |-> 0]

SectionSymbols ==
  /\ pc = "check" /\ KindsOK
  /\ \A n \in DOMAIN sections : ~BadSection(sections[n])
  /\ syms' = syms \o [n \in 1 .. Len(sections) |-> SectionSym(n)]
  /\ Goto("locals")
  /\ UNCHANGED <<file, strtab, symDefs, recs, layout, last, calls>>

-----------------------------------------------------------------------------
(***************************************************************************)
(* Phase 3: local symbols, then global and weak ones, then undefined ones. *)
(***************************************************************************)
Mangled(name) == <<"_">> \o name

Sym(name, type, sect, weak, value) ==
  [strx |-> OffsetOf(strtab, Mangled(name)), type |-> type, sect |-> sect,
   weak |-> weak, value |-> value]

\* A defect: the index is taken behind the new symbol.
EnterLate(name, sym, section, local) ==
  /\ syms' = Append(syms, sym)
  /\ symDefs' = Put(symDefs, name, [index |-> Len(syms'), section |-> section, local |-> local])
  /\ strtab' = Intern(strtab, Mangled(name))

\* A defect: the first definition of a name keeps it.
EnterFirstWins(name, sym, section, local) ==
  /\ syms' = Append(syms, sym)
  /\ symDefs' = IF name \in DOMAIN symDefs THEN symDefs
                ELSE Put(symDefs, name, [index |-> Len(syms), section |-> section, local |-> local])
  /\ strtab' = Intern(strtab, Mangled(name))

\* A new symbol, which the name now stands for.
Enter(name, sym, section, local) ==
  /\ syms' = Append(syms, sym)
  /\ symDefs' = Put(symDefs, name, [index |-> Len(syms), section |-> section, local |-> local])
  /\ strtab' = Intern(strtab, Mangled(name))

AtSymbol == pc \in {"locals", "globals"} /\ i <= Len(sections) /\ k <= Len(sections[i].symbols)

\* Neither pass takes a symbol without a name.
Wanted(sym) == sym.name # NoName /\ (sym.binding = "Local" <=> pc = "locals")

DefineSymbol ==
  /\ AtSymbol
  /\ LET sym   == sections[i].symbols[k]
         local == pc = "locals"
         weak  == ~local /\ (sym.binding = "Weak" \/ sections[i].linkOnce)
     IN  /\ Wanted(sym)
         /\ Enter(sym.name,
                  Sym(sym.name, IF local THEN "SECT" ELSE "EXT", Uint8(i), weak, sym.offset),
                  i, local)
  /\ k' = k + 1
  /\ UNCHANGED <<file, pc, i, recs, layout, last, calls>>

SkipSymbol ==
  /\ AtSymbol /\ ~Wanted(sections[i].symbols[k])
  /\ k' = k + 1
  /\ UNCHANGED <<file, pc, i, tables, recs, layout, last, calls>>

SymbolsNextSection ==
  /\ pc \in {"locals", "globals"} /\ i <= Len(sections) /\ k > Len(sections[i].symbols)
  /\ NextSection
  /\ UNCHANGED <<file, tables, recs, layout, last, calls>>

PassDone ==
  /\ pc \in {"locals", "globals"} /\ i > Len(sections)
  /\ Goto(IF pc = "locals" THEN "globals" ELSE "externs")
  /\ UNCHANGED <<file, tables, recs, layout, last, calls>>

\* externalSymbols: the empty name is neither defined nor referenced.
ExternalSymbols(ss) == ReferencedNames(ss) \ (DefinedNames(ss) \cup {NoName})

\* A defect: the map's keys are not sorted.
ExternSymbolAny ==
  LET todo == ExternalSymbols(sections) \ DOMAIN symDefs
  IN  /\ pc = "externs"
      /\ \E name \in todo : Enter(name, Sym(name, "UNDEF", 0, FALSE, 0), 0, FALSE)
      /\ UNCHANGED <<file, pc, i, k, recs, layout, last, calls>>

ExternSymbol ==
  LET todo == ExternalSymbols(sections) \ DOMAIN symDefs
  IN  /\ pc = "externs"
      /\ \E name \in todo :
           /\ \A other \in todo : Rank(name) <= Rank(other)
           /\ Enter(name, Sym(name, "UNDEF", 0, FALSE, 0), 0, FALSE)
      /\ UNCHANGED <<file, pc, i, k, recs, layout, last, calls>>

ExternsDone ==
  /\ pc = "externs" /\ ExternalSymbols(sections) \subseteq DOMAIN symDefs
  /\ Goto("relocs")
  /\ UNCHANGED <<file, tables, recs, layout, last, calls>>

-----------------------------------------------------------------------------
(***************************************************************************)
(* Phase 4: the relocation records, those of zero fill too.                *)
(***************************************************************************)
Record(r) ==
  LET desc   == RelocDesc(opts.arch, r.kind)
      def    == symDefs[r.symbol]
      extern == ~def.local \/ PageReloc(opts.arch, desc)
  IN  [address |-> r.offset, extern |-> extern,
       num     |-> (IF extern THEN def.index ELSE def.section) % Word24,
       type    |-> desc.type, width |-> desc.width, pcrel |-> desc.pcrel]

ConvertSection ==
  /\ pc = "relocs" /\ i <= Len(sections)
  /\ LET rs == sections[i].relocs
     IN  /\ \A m \in DOMAIN rs : rs[m].symbol \in DOMAIN symDefs
         /\ recs' = Append(recs, [m \in DOMAIN rs |-> Record(rs[m])])
  /\ i' = i + 1
  /\ UNCHANGED <<file, pc, k, tables, layout, last, calls>>

\* A defect: a section with such a relocation is left without records.
RelocFailsSilent ==
  /\ pc = "relocs" /\ i <= Len(sections)
  /\ \E m \in DOMAIN sections[i].relocs : sections[i].relocs[m].symbol \notin DOMAIN symDefs
  /\ recs' = Append(recs, << >>)
  /\ i' = i + 1
  /\ UNCHANGED <<file, pc, k, tables, layout, last, calls>>

\* Only the empty name can be missing.
RelocFails ==
  /\ pc = "relocs" /\ i <= Len(sections)
  /\ \E m \in DOMAIN sections[i].relocs : sections[i].relocs[m].symbol \notin DOMAIN symDefs
  /\ Fail("symbol")

-----------------------------------------------------------------------------
(***************************************************************************)
(* Phases 5 and 6: the size of the load commands, the sections' places.    *)
(***************************************************************************)
HasVersion == opts.minOS # "none"
SizeOfCmds == 72 + 80 * Len(sections) + (IF HasVersion THEN 24 ELSE 0) + 24
DataStart == 32 + SizeOfCmds

RelocsDone ==
  /\ pc = "relocs" /\ i > Len(sections)
  /\ Goto("layout")
  /\ pos' = DataStart
  /\ UNCHANGED <<file, tables, recs, lay, out, last, calls>>

\* The code's positions are uint32.  Here they are whole numbers, cut where they
\* are stored and where padTo compares them: adding to a position and rounding
\* it up to a power of two commute with the cut.
NoPlace == [offset |-> 0, reloff |-> 0, nreloc |-> 0]

\* Zero fill takes no place, and its records are dropped.
SkipSection ==
  /\ pc = "layout" /\ i <= Len(sections) /\ NoBits(sections[i])
  /\ lay' = Append(lay, NoPlace)
  /\ i' = i + 1
  /\ UNCHANGED <<file, pc, k, tables, recs, pos, out, last, calls>>

\* A defect: the position does not move past the relocation records.
PlaceSectionNoRecords ==
  LET at  == AlignUp(pos, EffectiveAlign(sections[i]))
      end == at + sections[i].size
      n   == Len(recs[i])
  IN  /\ pc = "layout" /\ i <= Len(sections) /\ ~NoBits(sections[i])
      /\ lay' = Append(lay, [offset |-> at, reloff |-> IF n > 0 THEN end ELSE 0, nreloc |-> n])
      /\ pos' = end
      /\ i' = i + 1
      /\ UNCHANGED <<file, pc, k, tables, recs, out, last, calls>>

PlaceSection ==
  LET at  == AlignUp(pos, EffectiveAlign(sections[i]))
      end == at + sections[i].size
      n   == Len(recs[i])
  IN  /\ pc = "layout" /\ i <= Len(sections) /\ ~NoBits(sections[i])
      /\ lay' = Append(lay, [offset |-> at, reloff |-> IF n > 0 THEN end ELSE 0, nreloc |-> n])
      /\ pos' = end + 8 * n
      /\ i' = i + 1
      /\ UNCHANGED <<file, pc, k, tables, recs, out, last, calls>>

\* symOff is the position reached; the headers are written first.
LayoutDone ==
  /\ pc = "layout" /\ i > Len(sections)
  /\ Goto("write")
  /\ out' = [EmptyOut EXCEPT !.len = DataStart]
  /\ UNCHANGED <<file, tables, recs, lay, pos, last, calls>>

-----------------------------------------------------------------------------
(***************************************************************************)
(* Phases 7 and 8: the bytes.                                              *)
(***************************************************************************)
\* What goes into the bytes of a relocation; nothing if its addend is 0.
Field(r) ==
  LET w == RelocDesc(opts.arch, r.kind).width
  IN  [offset |-> r.offset, width |-> IF r.addend = 0 THEN 0 ELSE w,
       value |-> IF w = 8 THEN r.addend ELSE Int32(r.addend)]

PatchedCode(n) ==
  LET rs == sections[n].relocs
  IN  Patch([b \in 1 .. sections[n].size |-> <<"code", n, b>>],
            [m \in DOMAIN rs |-> Field(rs[m])])

\* Where padTo, which compares the low 32 bits of the length, stops if it has
\* anything to do.
Reach(len, target) == len - Uint32(len) + Uint32(target)

WriteSection ==
  /\ pc = "write" /\ i <= Len(sections)
  /\ LET raw == Emit(out, Reach(out.len, lay[i].offset), sections[i].size, PatchedCode(i))
     IN  out' = IF NoBits(sections[i]) THEN out
                ELSE IF recs[i] = << >> THEN raw
                ELSE Emit(raw, 0, 8 * Len(recs[i]), recs[i])
  /\ i' = i + 1
  /\ UNCHANGED <<file, pc, k, tables, recs, lay, pos, last, calls>>

Header(n) ==
  LET s == sections[n]
  IN  [seg |-> Padded(SegName(s)), sect |-> Padded(SectName(s)),
       zerofill |-> NoBits(s), align |-> Log2(EffectiveAlign(s)),
       size |-> IF NoBits(s) THEN VirtualSize(s) ELSE Uint32(s.size),
       offset |-> Uint32(lay[n].offset), reloff |-> Uint32(lay[n].reloff),
       nreloc |-> Uint32(lay[n].nreloc)]

\* padTo(out, symOff), the symbols, padTo(out, strOff), the strings.
StrOff == pos + 16 * Len(syms)
Tables ==
  LET nlist == Emit(out, Reach(out.len, pos), 16 * Len(syms), syms)
  IN  Emit(nlist, Reach(nlist.len, StrOff), Len(strtab.data), strtab.data)

\* The segment command's vmsize counts every section, its filesize the bytes
\* of those that have some.
FileSize == MapThenSumSet(LAMBDA n : IF NoBits(sections[n]) THEN 0 ELSE Uint32(sections[n].size),
                          DOMAIN sections)
VMSize == FileSize + MapThenSumSet(LAMBDA n : IF NoBits(sections[n]) THEN VirtualSize(sections[n]) ELSE 0,
                                   DOMAIN sections)

\* extent is not in the file: the length that all that is stored is to lie in.
Image ==
  [machine |-> Machine(opts.arch), ncmds |-> IF HasVersion THEN 3 ELSE 2,
   sizeofcmds |-> Uint32(SizeOfCmds), version |-> opts.minOS,
   segment |-> [fileoff |-> Uint32(DataStart), filesize |-> FileSize, vmsize |-> VMSize],
   shdrs |-> [n \in DOMAIN sections |-> Header(n)],
   symoff |-> Uint32(pos), nsyms |-> Uint32(Len(syms)),
   stroff |-> Uint32(StrOff), strsize |-> Uint32(Len(strtab.data)),
   chunks |-> Tables.chunks, extent |-> StrOff + Len(strtab.data)]

\* One Write, of which the writer takes all, a part or nothing.
Deliver ==
  /\ pc = "write" /\ i > Len(sections)
  /\ \E written \in {"none", "some", "all"} :
       Return([status |-> "built", input |-> Input, image |-> Image, written |-> written])

-----------------------------------------------------------------------------
Caller ==
  \/ \E s \in Sections : AddSection(s)
  \/ \E v \in Versions : SetMinOS(v)
  \/ \E on \in Switch : EnableCodesignReserve(on)
  \/ WriteTo

Build ==
  \/ KindFails \/ SectionFails \/ SectionSymbols
  \/ DefineSymbol \/ SkipSymbol \/ SymbolsNextSection \/ PassDone
  \/ ExternSymbol \/ ExternsDone
  \/ ConvertSection \/ RelocFails \/ RelocsDone
  \/ SkipSection \/ PlaceSection \/ LayoutDone
  \/ WriteSection \/ Deliver

Next == Caller \/ Build

\* The build is sequential code that waits for nothing.
Spec == Init /\ [][Next]_vars /\ WF_vars(Build)

-----------------------------------------------------------------------------
Phases == {"idle", "check", "locals", "globals", "externs", "relocs", "layout", "write"}

Symbols ==
  [strx : Nat, type : {"NULL", "SECT", "EXT", "UNDEF"}, sect : 0 .. Byte - 1,
   weak : BOOLEAN, value : Nat]

Records ==
  [address : Nat, extern : BOOLEAN, num : 0 .. Word24 - 1, type : 0 .. 15,
   width : {4, 8}, pcrel : BOOLEAN]

Places == [offset : Nat, reloff : Nat, nreloc : Nat]

\* What the map holds for a name: the symbolDef of a relocation's target.
Defs == [index : Nat, section : Nat, local : BOOLEAN]

TypeOK ==
  /\ opts \in [arch : Targets, minOS : Versions \cup {"none"}, reserve : BOOLEAN]
  /\ sections \in Seq(Sections)
  /\ pc \in Phases
  /\ i \in Nat \ {0} /\ k \in Nat \ {0}
  /\ StrTabOK(strtab)
  /\ syms \in Seq(Symbols)
  /\ DOMAIN symDefs \subseteq Name
  /\ \A name \in DOMAIN symDefs : symDefs[name] \in Defs
  /\ lay \in Seq(Places)
  /\ recs \in Seq(Seq(Records))
  /\ pos \in Nat /\ out.len \in Nat

\* Symbol n of the table goes by the name "_" followed by name.
Carries(n, name) ==
  n + 1 \in DOMAIN syms /\ ReadsAs(strtab.data, syms[n + 1].strx, Mangled(name))

\* The map never dangles and never lies: the symbol it holds for a name is
\* behind the section symbols, carries that name, is in the section the map
\* says and is local if and only if the map says so (symDefs in build); every
\* record converted so far belongs to the relocation with its number, and
\* names a symbol of the name asked for or a section that name is local to.
IndexSound ==
  /\ \A name \in DOMAIN symDefs :
       LET def == symDefs[name]
       IN  /\ def.index \in Nat /\ Len(sections) < def.index /\ Carries(def.index, name)
           /\ syms[def.index + 1].sect = Uint8(def.section)
           /\ def.local <=> syms[def.index + 1].type = "SECT"
  /\ \A c \in DOMAIN recs :
       /\ c \in DOMAIN sections
       /\ Len(recs[c]) = Len(sections[c].relocs)
       /\ \A m \in DOMAIN recs[c] :
            LET r == sections[c].relocs[m]
            IN  /\ recs[c][m].address = r.offset
                /\ IF recs[c][m].extern
                   THEN \E n \in DOMAIN syms :
                          (n - 1) % Word24 = recs[c][m].num /\ Carries(n - 1, r.symbol)
                   ELSE /\ r.symbol \in DOMAIN symDefs /\ symDefs[r.symbol].local
                        /\ recs[c][m].num = symDefs[r.symbol].section % Word24
=============================================================================
