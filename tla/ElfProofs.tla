----------------------------- MODULE ElfProofs -----------------------------
(***************************************************************************)
(* ElfFile's tables are right for every set of sections, every number of   *)
(* calls and every interleaving of options, sections and calls.            *)
(*                                                                         *)
(* IInv adds Shape to the invariants the runs check: what the control      *)
(* location says about the tables.  Without it a step that moves on to the *)
(* next loop could find entries left over from another section or call.    *)
(***************************************************************************)
EXTENDS ElfReader, FormatLemmas

Shape ==
  /\ pc = "idle" => symIndex = EmptyMap /\ syms = << >>
  /\ pc # "idle" => Len(sections) < Len(syms)
  /\ pc \notin {"idle", "locals"} => firstGlobal <= Len(syms)
  /\ pc \in {"idle", "locals", "globals", "externs"} => relas = << >> /\ relaWork = << >>
  /\ pc = "relocs" /\ i <= Len(sections) => k <= Len(sections[i].relocs) + 1

IInv == TypeOK /\ Shape /\ IndexSound /\ LocalsFirst /\ RelasSound

-----------------------------------------------------------------------------
(***************************************************************************)
(* The values the actions store have the types TypeOK gives them.          *)
(***************************************************************************)
LEMMA SectionNameType == ASSUME NEW s \in Section PROVE SectionName(s) \in Name
<1>1. s.kind \in SectionKinds /\ s.custom \in Name
  BY DEF Section
<1>2. CASE s.kind = "Custom"
  BY <1>1, <1>2 DEF SectionName
<1>3. CASE s.kind = "TLS"
  <2>1. <<".tdata">> \in Name /\ <<".tbss">> \in Name
    BY FixedNamesAssumption DEF Name
  <2>2. SectionName(s) \in {<<".tdata">>, <<".tbss">>}
    BY <1>3 DEF SectionName
  <2>3. QED
    BY <2>1, <2>2
<1>4. CASE s.kind \notin {"Custom", "TLS"}
  <2>1. s.kind \in DOMAIN FixedName
    BY <1>1, <1>4 DEF SectionKinds, FixedName
  <2>2. FixedName[s.kind] \in Char
    BY <2>1, FixedNamesAssumption
  <2>3. SectionName(s) = <<FixedName[s.kind]>>
    BY <1>4 DEF SectionName
  <2>4. QED
    BY <2>2, <2>3 DEF Name
<1>5. QED
  BY <1>2, <1>3, <1>4

LEMMA RelaNameType == ASSUME NEW s \in Section PROVE RelaName(s) \in Name
<1>1. <<".rela">> \in Seq(Char) /\ SectionName(s) \in Seq(Char)
  BY SectionNameType, FixedNamesAssumption DEF Name
<1>2. QED
  BY <1>1 DEF RelaName, Name

LEMMA SectionType ==
  ASSUME TypeOK, NEW n \in 1 .. Len(sections)
  PROVE  /\ sections[n] \in Section
         /\ sections[n].symbols \in Seq(Symbol)
         /\ sections[n].relocs \in Seq(Reloc)
<1>1. sections[n] \in Section
  BY SectionsAssumption DEF TypeOK
<1>2. QED
  BY <1>1 DEF Section

LEMMA UintType == ASSUME NEW n \in Nat PROVE Uint16(n) \in Nat
  BY BoundsAssumption DEF Uint16

LEMMA RelocTypeType ==
  ASSUME NEW arch, NEW kind, Supported(arch, kind), arch \in Archs
  PROVE  RelocType(arch, kind) \in Nat
<1>1. RelocTable[arch][kind] \in Nat
  BY DEF Archs, Supported, RelocTable
<1>2. QED
  BY <1>1 DEF RelocType

LEMMA AddendType ==
  ASSUME NEW arch, NEW n \in Int PROVE Addend(arch, n) \in Int
  BY BoundsAssumption DEF Addend, Int32

LEMMA FirstSymsType ==
  ASSUME TypeOK, WriteTo
  PROVE  /\ syms' \in Seq(SymEntry)
         /\ Len(syms') = 1 + Len(sections)
         /\ \A n \in DOMAIN syms' : syms'[n].bind = "LOCAL"
<1> DEFINE tail == [n \in 1 .. Len(sections) |-> SectionSym(n)]
<1>1. NullSym \in SymEntry /\ NullSym.bind = "LOCAL"
  BY DEF NullSym, SymEntry
<1>2. \A n \in 1 .. Len(sections) :
        SectionSym(n) \in SymEntry /\ SectionSym(n).bind = "LOCAL"
  <2> SUFFICES ASSUME NEW n \in 1 .. Len(sections)
               PROVE  SectionSym(n) \in SymEntry /\ SectionSym(n).bind = "LOCAL"
    OBVIOUS
  <2>1. Uint16(n) \in Nat
    BY UintType DEF TypeOK
  <2>2. QED
    BY <2>1 DEF SectionSym, NullSym, SymEntry
<1>3. Len(sections) \in Nat
  BY DEF TypeOK
<1>4. tail \in Seq(SymEntry) /\ Len(tail) = Len(sections)
  BY <1>2, <1>3
<1>5. syms' = <<NullSym>> \o tail
  BY DEF WriteTo
<1>6. QED
  BY <1>1, <1>2, <1>3, <1>4, <1>5

-----------------------------------------------------------------------------
(***************************************************************************)
(* The steps, one lemma for each action or group of alike actions.         *)
(***************************************************************************)
LEMMA InitIInv == Init => IInv
<1> SUFFICES ASSUME Init PROVE IInv
  OBVIOUS
<1> USE DEF Init
<1>1. DOMAIN symIndex = {} /\ syms = << >> /\ relas = << >> /\ relaWork = << >>
  BY DEF EmptyMap
<1>2. TypeOK
  <2>1. opts \in Options
    BY DEF Options
  <2>2. StrTabOK(strtab) /\ StrTabOK(shstrtab)
    BY NewStrTabOK
  <2>3. /\ sections \in Seq(Sections) /\ syms \in Seq(SymEntry)
        /\ relas \in Seq(RelaEntries)
        /\ relaWork \in Seq(RelaSections)
    OBVIOUS
  <2>4. DOMAIN symIndex \subseteq Name /\ firstGlobal \in Nat
    BY <1>1
  <2>5. pc \in Phases /\ i \in Nat \ {0} /\ k \in Nat \ {0}
    BY DEF Phases
  <2>6. QED
    BY <2>1, <2>2, <2>3, <2>4, <2>5 DEF TypeOK
<1>3. Shape
  BY <1>1 DEF Shape, EmptyMap
<1>4. IndexSound /\ LocalsFirst /\ RelasSound
  BY <1>1 DEF IndexSound, LocalsFirst, RelasSound
<1>5. QED
  BY <1>2, <1>3, <1>4 DEF IInv

\* While no call runs the tables are empty, whatever the caller does.
LEMMA CallerStep ==
  ASSUME IInv,
         \/ \E s \in Sections : AddSection(s)
         \/ \E v \in OSABIs : SetOSABI(v)
         \/ \E on \in Switch : EnableDWARF(on)
         \/ \E on \in BOOLEAN : EnableGNUStack(on)
  PROVE  IInv'
<1> USE DEF locals, tables, relocs, layout
<1>0. opts \in Options /\ sections \in Seq(Sections)
  BY DEF IInv, TypeOK
<1>1. /\ pc = "idle" /\ sections' \in Seq(Sections) /\ opts' \in Options
      /\ UNCHANGED <<pc, i, k, strtab, symIndex, syms, firstGlobal, relas,
                    relaWork, shstrtab>>
  <2>1. CASE \E s \in Sections : AddSection(s)
    <3>1. PICK s \in Sections : AddSection(s)
      BY <2>1
    <3>2. sections' \in Seq(Sections)
      BY <1>0, <3>1 DEF AddSection
    <3>3. QED
      BY <1>0, <3>1, <3>2 DEF AddSection
  <2>2. CASE \E v \in OSABIs : SetOSABI(v)
    BY <1>0, <2>2 DEF SetOSABI, SetOption, Options
  <2>3. CASE \E on \in Switch : EnableDWARF(on)
    BY <1>0, <2>3 DEF EnableDWARF, SetOption, Options
  <2>4. CASE \E on \in BOOLEAN : EnableGNUStack(on)
    BY <1>0, <2>4 DEF EnableGNUStack, SetOption, Options
  <2>5. QED
    BY <2>1, <2>2, <2>3, <2>4
<1>3. DOMAIN symIndex = {} /\ syms = << >> /\ relas = << >> /\ relaWork = << >>
  BY <1>1 DEF IInv, Shape, EmptyMap
<1>4. TypeOK'
  BY <1>1 DEF IInv, TypeOK, StrTabOK, Consistent
<1>5. Shape'
  BY <1>1 DEF IInv, Shape
<1>6. IndexSound' /\ LocalsFirst' /\ RelasSound'
  BY <1>1, <1>3 DEF IndexSound, LocalsFirst, RelasSound
<1>7. QED
  BY <1>4, <1>5, <1>6 DEF IInv

LEMMA WriteToStep == ASSUME IInv, WriteTo PROVE IInv'
<1> USE DEF file, relocs, layout
<1>1. /\ syms' \in Seq(SymEntry)
      /\ Len(syms') = 1 + Len(sections)
      /\ \A n \in DOMAIN syms' : syms'[n].bind = "LOCAL"
  BY FirstSymsType DEF IInv
<1>2. DOMAIN symIndex = {} /\ relas = << >> /\ relaWork = << >>
  BY DEF IInv, Shape, WriteTo, EmptyMap
<1>3. /\ pc' = "locals"
      /\ UNCHANGED <<opts, sections, i, k, strtab, symIndex, firstGlobal, relas,
                    relaWork, shstrtab>>
  BY DEF WriteTo
<1>4. TypeOK'
  BY <1>1, <1>3 DEF IInv, TypeOK, StrTabOK, Consistent, Phases
<1>5. Shape'
  BY <1>1, <1>2, <1>3 DEF IInv, TypeOK, Shape
<1>6. IndexSound' /\ LocalsFirst' /\ RelasSound'
  BY <1>1, <1>2, <1>3 DEF IndexSound, LocalsFirst, RelasSound
<1>7. QED
  BY <1>4, <1>5, <1>6 DEF IInv

\* The heart of the symbol table: an entry is added at the end, the name's
\* old entry, if any, is left behind, and no other name's entry moves.
LEMMA EnterLemma ==
  ASSUME IInv, pc # "idle", UNCHANGED <<opts, sections>>,
         NEW name \in Name, NEW bind \in {"LOCAL", "GLOBAL", "WEAK"},
         NEW type \in {"NOTYPE", "OBJECT", "FUNC", "SECTION"},
         NEW shndx \in Nat, NEW value \in Nat,
         EnterSymbol(name, bind, type, shndx, value)
  PROVE  /\ StrTabOK(strtab')
         /\ DOMAIN symIndex' \subseteq Name
         /\ syms' \in Seq(SymEntry)
         /\ Len(syms') = Len(syms) + 1
         /\ \A n \in 1 .. Len(syms) : syms'[n] = syms[n]
         /\ syms'[Len(syms) + 1].bind = bind
         /\ IndexSound'
<1> DEFINE entry == [name |-> OffsetOf(strtab, name), bind |-> bind, type |-> type,
                    shndx |-> shndx, value |-> value]
<1>1. /\ StrTabOK(strtab')
      /\ Extends(strtab'.data, strtab.data)
      /\ OffsetOf(strtab, name) \in Nat
      /\ ReadsAs(strtab'.data, OffsetOf(strtab, name), name)
  BY InternLemma DEF IInv, TypeOK, EnterSymbol
<1>2. syms \in Seq(SymEntry) /\ entry \in SymEntry /\ syms' = Append(syms, entry)
  BY <1>1 DEF IInv, TypeOK, EnterSymbol, NewEntry, SymEntry
<1>3. /\ syms' \in Seq(SymEntry) /\ Len(syms') = Len(syms) + 1
      /\ \A n \in 1 .. Len(syms) : syms'[n] = syms[n]
      /\ syms'[Len(syms) + 1] = entry
      /\ Len(syms) \in Nat
  BY <1>2
<1>4. /\ DOMAIN symIndex' = DOMAIN symIndex \cup {name}
      /\ symIndex'[name] = Len(syms)
      /\ \A n \in DOMAIN symIndex : n # name => symIndex'[n] = symIndex[n]
  BY DEF EnterSymbol, Put
<1>5. strtab.data \in Seq(Char \cup {NUL}) /\ strtab'.data \in Seq(Char \cup {NUL})
  BY <1>1 DEF IInv, TypeOK, StrTabOK, Consistent
<1>6. \A n \in DOMAIN symIndex : n # name =>
        /\ symIndex'[n] \in Nat
        /\ Len(sections) < symIndex'[n] /\ symIndex'[n] < Len(syms')
        /\ ReadsAs(strtab'.data, syms'[symIndex'[n] + 1].name, n)
  <2> SUFFICES ASSUME NEW n \in DOMAIN symIndex, n # name
               PROVE  /\ symIndex'[n] \in Nat
                      /\ Len(sections) < symIndex'[n] /\ symIndex'[n] < Len(syms')
                      /\ ReadsAs(strtab'.data, syms'[symIndex'[n] + 1].name, n)
    OBVIOUS
  <2>1. /\ symIndex[n] \in Nat /\ Len(sections) < symIndex[n]
        /\ symIndex[n] < Len(syms)
        /\ ReadsAs(strtab.data, syms[symIndex[n] + 1].name, n)
        /\ n \in Name
    BY DEF IInv, IndexSound, TypeOK
  <2>2. symIndex[n] + 1 \in 1 .. Len(syms)
    BY <1>3, <2>1
  <2>3. syms[symIndex[n] + 1].name \in Nat
    <3>1. syms[symIndex[n] + 1] \in SymEntry
      BY <1>2, <2>2
    <3>2. QED
      BY <3>1 DEF SymEntry
  <2>4. ReadsAs(strtab'.data, syms[symIndex[n] + 1].name, n)
    BY <1>1, <1>5, <2>1, <2>3, ReadsAsExtends
  <2>5. QED
    BY <1>3, <1>4, <2>1, <2>2, <2>4
<1>7. /\ symIndex'[name] \in Nat
      /\ Len(sections) < symIndex'[name] /\ symIndex'[name] < Len(syms')
      /\ ReadsAs(strtab'.data, syms'[symIndex'[name] + 1].name, name)
  BY <1>1, <1>3, <1>4 DEF IInv, Shape
<1>8. IndexSound'
  <2>1. Len(sections') = Len(sections)
    OBVIOUS
  <2>2. QED
    BY <1>4, <1>6, <1>7, <2>1 DEF IndexSound
<1>9. DOMAIN symIndex' \subseteq Name
  BY <1>4 DEF IInv, TypeOK
<1>10. QED
  BY <1>1, <1>3, <1>8, <1>9

LEMMA DefineSymbolStep == ASSUME IInv, DefineSymbol PROVE IInv'
<1> USE DEF file, relocs, layout
<1> DEFINE sym == sections[i].symbols[k]
<1>1. /\ pc \in {"locals", "globals"} /\ AtSymbol /\ Wanted(sym)
      /\ EnterSymbol(sym.name, SymBind[sym.binding], SymType[sym.kind],
                     Uint16(i), sym.offset)
      /\ k' = k + 1
      /\ UNCHANGED <<opts, sections, pc, i, firstGlobal, relas, relaWork, shstrtab>>
  BY DEF DefineSymbol
<1>2. sym \in Symbol
  <2>1. i \in 1 .. Len(sections) /\ k \in 1 .. Len(sections[i].symbols)
    BY <1>1 DEF IInv, TypeOK, AtSymbol
  <2>2. sections[i].symbols \in Seq(Symbol)
    BY <2>1, SectionType DEF IInv
  <2>3. QED
    BY <2>1, <2>2
<1>3. /\ sym.name \in Name /\ sym.offset \in Nat
      /\ sym.binding \in Bindings /\ sym.kind \in SymbolKinds
  BY <1>2 DEF Symbol
<1>4. /\ SymBind[sym.binding] \in {"LOCAL", "GLOBAL", "WEAK"}
      /\ SymType[sym.kind] \in {"NOTYPE", "OBJECT", "FUNC", "SECTION"}
      /\ SymBind[sym.binding] = "LOCAL" <=> pc = "locals"
  <2>1. SymBind[sym.binding] \in {"LOCAL", "GLOBAL", "WEAK"}
    BY <1>3 DEF SymBind, Bindings
  <2>2. SymType[sym.kind] \in {"NOTYPE", "OBJECT", "FUNC", "SECTION"}
    BY <1>3 DEF SymType, SymbolKinds
  <2>3. SymBind[sym.binding] = "LOCAL" <=> sym.binding = "Local"
    BY <1>3 DEF SymBind, Bindings
  <2>4. sym.binding = "Local" <=> pc = "locals"
    BY <1>1 DEF Wanted
  <2>5. QED
    BY <2>1, <2>2, <2>3, <2>4
<1>5. Uint16(i) \in Nat
  BY UintType DEF IInv, TypeOK
<1>6. pc # "idle" /\ UNCHANGED <<opts, sections>>
  BY <1>1
<1>7. /\ StrTabOK(strtab')
      /\ DOMAIN symIndex' \subseteq Name
      /\ syms' \in Seq(SymEntry)
      /\ Len(syms') = Len(syms) + 1
      /\ \A n \in 1 .. Len(syms) : syms'[n] = syms[n]
      /\ syms'[Len(syms) + 1].bind = SymBind[sym.binding]
      /\ IndexSound'
  BY <1>1, <1>3, <1>4, <1>5, <1>6, EnterLemma
<1>8. TypeOK'
  BY <1>1, <1>7 DEF IInv, TypeOK
<1>9. Shape'
  BY <1>1, <1>7 DEF IInv, TypeOK, Shape
<1>10. LocalsFirst'
  <2>1. /\ DOMAIN syms' = 1 .. Len(syms) + 1 /\ DOMAIN syms = 1 .. Len(syms)
        /\ Len(syms) \in Nat /\ firstGlobal \in Nat
    BY <1>7 DEF IInv, TypeOK
  <2>2. CASE pc = "locals"
    <3>1. pc' = "locals" /\ \A n \in DOMAIN syms : syms[n].bind = "LOCAL"
      BY <1>1, <2>2 DEF IInv, LocalsFirst
    <3>2. syms'[Len(syms) + 1].bind = "LOCAL"
      BY <1>4, <1>7, <2>2
    <3>3. \A n \in DOMAIN syms' : syms'[n].bind = "LOCAL"
      BY <1>7, <2>1, <3>1, <3>2
    <3>4. QED
      BY <3>1, <3>3 DEF LocalsFirst
  <2>3. CASE pc = "globals"
    <3>1. firstGlobal <= Len(syms) /\ pc # "locals"
      BY <2>3 DEF IInv, Shape
    <3>2. \A n \in DOMAIN syms : syms[n].bind = "LOCAL" <=> n <= firstGlobal
      BY <3>1 DEF IInv, LocalsFirst
    <3>3. syms'[Len(syms) + 1].bind # "LOCAL"
      BY <1>4, <1>7, <2>3
    <3>4. ASSUME NEW n \in DOMAIN syms'
          PROVE  syms'[n].bind = "LOCAL" <=> n <= firstGlobal
      <4>1. CASE n = Len(syms) + 1
        BY <2>1, <3>1, <3>3, <4>1
      <4>2. CASE n \in DOMAIN syms
        BY <1>7, <2>1, <3>2, <4>2
      <4>3. QED
        BY <2>1, <4>1, <4>2
    <3>5. pc' # "locals" /\ firstGlobal' = firstGlobal
      BY <1>1, <3>1
    <3>6. QED
      BY <3>4, <3>5 DEF LocalsFirst
  <2>4. QED
    BY <1>1, <2>2, <2>3
<1>11. RelasSound'
  <2>1. relaWork = << >>
    BY <1>1 DEF IInv, Shape
  <2>2. relaWork' = << >> /\ pc' # "relocs"
    BY <1>1, <2>1
  <2>3. QED
    BY <2>2 DEF RelasSound
<1>12. QED
  BY <1>7, <1>8, <1>9, <1>10, <1>11 DEF IInv

LEMMA ExternSymbolStep == ASSUME IInv, ExternSymbol PROVE IInv'
<1> USE DEF file, relocs, layout
<1>1. /\ pc = "externs"
      /\ UNCHANGED <<opts, sections, pc, i, k, firstGlobal, relas, relaWork, shstrtab>>
  BY DEF ExternSymbol
<1>2. PICK name \in Undefined : EnterSymbol(name, "GLOBAL", "NOTYPE", 0, 0)
  BY DEF ExternSymbol
<1>3. name \in Name
  <2>1. PICK n \in DOMAIN sections : \E m \in DOMAIN sections[n].relocs :
          name = sections[n].relocs[m].symbol
    BY DEF Undefined, ExternalSymbols, ReferencedNames
  <2>2. n \in 1 .. Len(sections)
    BY DEF IInv, TypeOK
  <2>3. sections[n].relocs \in Seq(Reloc)
    BY <2>2, SectionType DEF IInv
  <2>4. PICK m \in DOMAIN sections[n].relocs : name = sections[n].relocs[m].symbol
    BY <2>1
  <2>5. sections[n].relocs[m] \in Reloc
    BY <2>3
  <2>6. QED
    BY <2>4, <2>5 DEF Reloc
<1>4. /\ StrTabOK(strtab')
      /\ DOMAIN symIndex' \subseteq Name
      /\ syms' \in Seq(SymEntry)
      /\ Len(syms') = Len(syms) + 1
      /\ \A n \in 1 .. Len(syms) : syms'[n] = syms[n]
      /\ syms'[Len(syms) + 1].bind = "GLOBAL"
      /\ IndexSound'
  BY <1>1, <1>2, <1>3, EnterLemma
<1>5. TypeOK'
  BY <1>1, <1>4 DEF IInv, TypeOK, StrTabOK, Consistent
<1>6. Shape'
  BY <1>1, <1>4 DEF IInv, TypeOK, Shape
<1>7. LocalsFirst'
  BY <1>1, <1>4 DEF IInv, TypeOK, Shape, LocalsFirst
<1>8. RelasSound'
  BY <1>1 DEF IInv, Shape, RelasSound
<1>9. QED
  BY <1>4, <1>5, <1>6, <1>7, <1>8 DEF IInv

\* The steps of phase 1 that only move the cursor or turn to the next loop.
LEMMA Phase1MoveStep ==
  ASSUME IInv,
         SkipSymbol \/ SectionSymbolsDone \/ LocalsDone \/ GlobalsDone \/ ExternsDone
  PROVE  IInv'
<1> USE DEF file, tables, relocs, layout
<1>1. /\ pc \in {"locals", "globals", "externs"}
      /\ pc' \in {"locals", "globals", "externs", "relocs"}
      /\ pc' = "locals" => pc = "locals"
      /\ pc' = "relocs" => k' = 1
      /\ i' \in Nat \ {0} /\ k' \in Nat \ {0}
      /\ UNCHANGED <<opts, sections, strtab, symIndex, syms, relas, relaWork, shstrtab>>
      /\ IF pc = "locals" /\ pc' # "locals" THEN firstGlobal' = Len(syms)
         ELSE firstGlobal' = firstGlobal
  <2> USE DEF IInv, TypeOK
  <2>1. CASE SkipSymbol
    BY <2>1 DEF SkipSymbol
  <2>2. CASE SectionSymbolsDone
    BY <2>2 DEF SectionSymbolsDone, NextSection
  <2>3. CASE LocalsDone
    BY <2>3 DEF LocalsDone, Goto
  <2>4. CASE GlobalsDone
    BY <2>4 DEF GlobalsDone, Goto
  <2>5. CASE ExternsDone
    BY <2>5 DEF ExternsDone, Goto
  <2>6. QED
    BY <2>1, <2>2, <2>3, <2>4, <2>5
<1>2. TypeOK'
  BY <1>1 DEF IInv, TypeOK, Phases
<1>3. relas = << >> /\ relaWork = << >>
  BY <1>1 DEF IInv, Shape
<1>4. Shape'
  <2>1. pc' = "relocs" /\ i' <= Len(sections) => Len(sections[i'].relocs) \in Nat
    BY <1>1, SectionType DEF IInv, TypeOK
  <2>2. QED
    BY <1>1, <1>3, <2>1 DEF IInv, TypeOK, Shape
<1>5. IndexSound'
  BY <1>1 DEF IInv, IndexSound
<1>6. LocalsFirst'
  BY <1>1 DEF IInv, TypeOK, LocalsFirst
<1>7. RelasSound'
  BY <1>1, <1>3 DEF RelasSound
<1>8. QED
  BY <1>2, <1>4, <1>5, <1>6, <1>7 DEF IInv

\* A returned call leaves empty tables behind, whatever its outcome.
LEMMA ReturnStep ==
  ASSUME IInv, NEW outcome, Return(outcome)
  PROVE  IInv'
<1> USE DEF Return, file
<1>1. /\ DOMAIN symIndex' = {} /\ syms' = << >> /\ relas' = << >> /\ relaWork' = << >>
      /\ pc' = "idle" /\ symIndex' = EmptyMap /\ i' = 1 /\ k' = 1 /\ firstGlobal' = 0
      /\ strtab' = NewStrTab /\ shstrtab' = NewStrTab
      /\ UNCHANGED <<opts, sections>>
  BY DEF EmptyMap
<1>2. StrTabOK(strtab') /\ StrTabOK(shstrtab')
  BY <1>1, NewStrTabOK
<1>3. TypeOK'
  BY <1>1, <1>2 DEF IInv, TypeOK, Phases
<1>4. Shape'
  BY <1>1 DEF Shape
<1>5. IndexSound' /\ LocalsFirst' /\ RelasSound'
  BY <1>1 DEF IndexSound, LocalsFirst, RelasSound
<1>6. QED
  BY <1>3, <1>4, <1>5 DEF IInv

LEMMA EntryOfLemma ==
  ASSUME TypeOK, NEW e, NEW r, NEW n \in Nat, n < Len(syms),
         e.offset = r.offset, e.sym = SymNum(opts.arch, n),
         ReadsAs(strtab.data, syms[n + 1].name, r.symbol)
  PROVE  EntryOf(e, r)
<1>1. Len(syms) \in Nat /\ DOMAIN syms = 1 .. Len(syms)
  BY DEF TypeOK
<1>2. n + 1 \in DOMAIN syms /\ (n + 1) - 1 = n
  BY <1>1
<1>3. QED
  BY <1>2 DEF EntryOf

LEMMA ConvertRelocStep == ASSUME IInv, ConvertReloc PROVE IInv'
<1> USE DEF file, tables, layout
<1> DEFINE r == sections[i].relocs[k]
           e == RelaEntry(r)
<1>1. /\ pc = "relocs" /\ AtReloc /\ RelocOK(r)
      /\ relas' = Append(relas, e) /\ k' = k + 1
      /\ UNCHANGED <<opts, sections, pc, i, strtab, symIndex, syms, firstGlobal,
                    relaWork, shstrtab>>
  BY DEF ConvertReloc
<1>2. i \in 1 .. Len(sections) /\ k \in 1 .. Len(sections[i].relocs)
  BY <1>1 DEF IInv, TypeOK, AtReloc
<1>3. r \in Reloc
  BY <1>2, SectionType DEF IInv
<1>4. r.offset \in Nat /\ r.addend \in Int
  BY <1>3 DEF Reloc
<1>5. opts.arch \in Archs
  BY BoundsAssumption DEF IInv, TypeOK, Options
<1> DEFINE n == symIndex[r.symbol]
<1>6. /\ e.sym = SymNum(opts.arch, n) /\ e.offset = r.offset
      /\ n \in Nat /\ n < Len(syms)
      /\ ReadsAs(strtab.data, syms[n + 1].name, r.symbol)
  BY <1>1 DEF RelaEntry, RelocOK, IInv, IndexSound
<1> HIDE DEF r, e, n
<1>7. EntryOf(e, r)
  <2>1. TypeOK
    BY DEF IInv
  <2>2. QED
    BY <1>6, <2>1, EntryOfLemma
<1> USE DEF r, e
<1>8. e \in RelaEntries
  <2>1. RelocType(opts.arch, r.kind) \in Nat
    BY <1>1, <1>5, RelocTypeType DEF RelocOK
  <2>2. Addend(opts.arch, r.addend) \in Int
    BY <1>4, AddendType
  <2>3. e.sym \in Nat
    BY <1>6, BoundsAssumption DEF SymNum
  <2>4. QED
    BY <1>4, <2>1, <2>2, <2>3 DEF RelaEntry, RelaEntries
<1>9. /\ relas' \in Seq(RelaEntries) /\ Len(relas') = Len(relas) + 1
      /\ \A m \in 1 .. Len(relas) : relas'[m] = relas[m]
      /\ relas'[Len(relas) + 1] = e
      /\ Len(relas) = k - 1 /\ Len(relas) \in Nat
  <2>1. relas \in Seq(RelaEntries) /\ Len(relas) = k - 1
    BY <1>1, <1>2 DEF IInv, TypeOK, RelasSound
  <2>2. relas' = Append(relas, e)
    BY <1>1
  <2> HIDE DEF e, r
  <2>3. QED
    BY <1>8, <2>1, <2>2
<1>10. TypeOK'
  BY <1>1, <1>2, <1>9 DEF IInv, TypeOK
<1>11. Shape'
  <2>1. Len(sections[i].relocs) \in Nat
    BY <1>2, SectionType DEF IInv
  <2>2. QED
    BY <1>1, <1>2, <2>1 DEF IInv, Shape
<1>12. IndexSound' /\ LocalsFirst'
  BY <1>1 DEF IInv, IndexSound, LocalsFirst
<1>13. RelasSound'
  <2>1. \A m \in DOMAIN relas' : EntryOf(relas'[m], sections[i].relocs[m])
    BY <1>1, <1>2, <1>7, <1>9 DEF IInv, RelasSound
  <2>2. Len(relas') = k' - 1
    BY <1>1, <1>2, <1>9
  <2>3. \A e1, r1 : EntryOf(e1, r1)' <=> EntryOf(e1, r1)
    BY <1>1 DEF EntryOf
  <2> HIDE DEF e, r
  <2>4. QED
    BY <1>1, <2>1, <2>2, <2>3 DEF IInv, RelasSound
<1>14. QED
  BY <1>10, <1>11, <1>12, <1>13 DEF IInv

LEMMA SectionRelocsDoneStep == ASSUME IInv, SectionRelocsDone PROVE IInv'
<1> USE DEF file, tables, layout
<1> DEFINE item == [content |-> i, data |-> relas]
           rs   == sections[i].relocs
<1>1. /\ pc = "relocs" /\ i <= Len(sections) /\ k > Len(rs)
      /\ relaWork' = IF rs = << >> THEN relaWork ELSE Append(relaWork, item)
      /\ relas' = << >> /\ i' = i + 1 /\ k' = 1
      /\ UNCHANGED <<opts, sections, pc, strtab, symIndex, syms, firstGlobal, shstrtab>>
  BY DEF SectionRelocsDone, NextSection
<1>2. i \in 1 .. Len(sections) /\ DOMAIN sections = 1 .. Len(sections)
  BY <1>1 DEF IInv, TypeOK
<1>3. /\ rs \in Seq(Reloc) /\ Len(rs) \in Nat
      /\ \A n \in 1 .. Len(sections) : Len(sections[n].relocs) \in Nat
  BY <1>2, SectionType DEF IInv
<1>4. Len(relas) = Len(rs) /\ \A m \in DOMAIN relas : EntryOf(relas[m], rs[m])
  BY <1>1, <1>2, <1>3 DEF IInv, TypeOK, Shape, RelasSound
<1>5. item \in RelaSections
  BY <1>2 DEF IInv, TypeOK, RelaSections
<1>6. relaWork' \in Seq(RelaSections)
  BY <1>1, <1>5 DEF IInv, TypeOK
<1>7. \A j \in DOMAIN relaWork' : relaWork'[j] = item \/
        (j \in DOMAIN relaWork /\ relaWork'[j] = relaWork[j])
  BY <1>1, <1>5 DEF IInv, TypeOK
<1>8. TypeOK'
  BY <1>1, <1>2, <1>6 DEF IInv, TypeOK
<1>9. Shape'
  BY <1>1, <1>2, <1>3 DEF IInv, Shape, TypeOK
<1>10. IndexSound' /\ LocalsFirst'
  BY <1>1 DEF IInv, IndexSound, LocalsFirst
<1>11. RelasSound'
  <2>1. ASSUME NEW j \in DOMAIN relaWork'
        PROVE  LET c == relaWork'[j].content
               IN  /\ c \in DOMAIN sections
                   /\ Len(relaWork'[j].data) = Len(sections[c].relocs)
                   /\ \A m \in DOMAIN relaWork'[j].data :
                        EntryOf(relaWork'[j].data[m], sections[c].relocs[m])
    BY <1>2, <1>4, <1>7 DEF IInv, RelasSound
  <2>2. Len(relas') = k' - 1 /\ DOMAIN relas' = {}
    BY <1>1
  <2>3. ASSUME NEW j \in DOMAIN relaWork'
        PROVE  LET c == relaWork'[j].content
                   d == relaWork'[j].data
               IN  /\ c \in DOMAIN sections'
                   /\ Len(d) = Len(sections'[c].relocs)
                   /\ \A m \in DOMAIN d :
                        /\ d[m].offset = sections'[c].relocs[m].offset
                        /\ \E n \in DOMAIN syms' :
                             /\ d[m].sym = SymNum(opts'.arch, n - 1)
                             /\ ReadsAs(strtab'.data, syms'[n].name,
                                        sections'[c].relocs[m].symbol)
    <3>1. relaWork'[j].content \in DOMAIN sections
      BY <2>1
    <3>2. Len(relaWork'[j].data) = Len(sections[relaWork'[j].content].relocs)
      BY <2>1
    <3>3. \A m \in DOMAIN relaWork'[j].data :
            EntryOf(relaWork'[j].data[m], sections[relaWork'[j].content].relocs[m])
      BY <2>1
    <3> HIDE DEF item, rs
    <3>4. QED
      BY <1>1, <3>1, <3>2, <3>3 DEF EntryOf
  <2>4. QED
    BY <2>2, <2>3 DEF RelasSound, EntryOf
<1>12. QED
  BY <1>8, <1>9, <1>10, <1>11 DEF IInv

\* Phases 3 to 5 leave the symbols and the relocations alone; of what they
\* change only .shstrtab is in IInv.
Phase3 == {"content", "rela", "group", "layout", "write"}

LEMMA LayoutLemma ==
  ASSUME IInv, pc \in Phase3 \cup {"relocs"}, pc' \in Phase3,
         i' \in Nat \ {0}, k' \in Nat \ {0}, StrTabOK(shstrtab'),
         UNCHANGED <<opts, sections, strtab, symIndex, syms, firstGlobal, relas, relaWork>>
  PROVE  IInv'
<1> USE DEF Phase3
<1>1. TypeOK'
  BY DEF IInv, TypeOK, Phases
<1>2. Shape'
  BY DEF IInv, Shape
<1>3. IndexSound' /\ LocalsFirst'
  BY DEF IInv, IndexSound, LocalsFirst
<1>4. RelasSound'
  <2>1. pc' # "relocs" /\ UNCHANGED <<sections, relaWork>>
    OBVIOUS
  <2>2. \A e, r : EntryOf(e, r)' <=> EntryOf(e, r)
    BY DEF EntryOf
  <2>3. QED
    BY <2>1, <2>2 DEF IInv, RelasSound
<1>5. QED
  BY <1>1, <1>2, <1>3, <1>4 DEF IInv

LEMMA AddDescLemma ==
  ASSUME IInv, NEW d, d.name \in Name, AddDesc(d)
  PROVE  StrTabOK(shstrtab')
  BY InternLemma DEF AddDesc, IInv, TypeOK

LEMMA RelocsDoneStep == ASSUME IInv, RelocsDone PROVE IInv'
<1>1. StrTabOK(shstrtab')
  <2>1. NoName \in Name
    BY DEF NoName, Name
  <2>2. StrTabOK(Intern(NewStrTab, NoName))
    BY <2>1, NewStrTabOK, InternLemma
  <2>3. QED
    BY <2>2 DEF RelocsDone
<1>2. /\ pc = "relocs" /\ pc' = "content" /\ i' = 1 /\ k' = 1
      /\ UNCHANGED <<opts, sections, strtab, symIndex, syms, firstGlobal, relas, relaWork>>
  BY DEF RelocsDone, Goto, file, tables, relocs
<1>3. QED
  BY <1>1, <1>2, LayoutLemma DEF Phase3

LEMMA ContentSectionStep == ASSUME IInv, ContentSection PROVE IInv'
<1>1. i \in 1 .. Len(sections)
  BY DEF ContentSection, IInv, TypeOK
<1>2. ContentDesc(i).name \in Name
  <2>1. SectionName(sections[i]) \in Name
    BY <1>1, SectionType, SectionNameType DEF IInv
  <2>2. QED
    BY <2>1 DEF ContentDesc, NullDesc
<1>3. StrTabOK(shstrtab')
  BY <1>2, AddDescLemma DEF ContentSection
<1>4. /\ pc = "content" /\ pc' = "content" /\ i' = i + 1 /\ k' = k
      /\ UNCHANGED <<opts, sections, strtab, symIndex, syms, firstGlobal, relas, relaWork>>
  BY DEF ContentSection, file, tables, relocs
<1>5. i' \in Nat \ {0} /\ k' \in Nat \ {0}
  BY <1>1, <1>4 DEF IInv, TypeOK
<1>6. QED
  BY <1>3, <1>4, <1>5, LayoutLemma DEF Phase3

LEMMA RelaSectionStep == ASSUME IInv, RelaSection PROVE IInv'
<1> DEFINE c == relaWork[i].content
<1>1. i \in DOMAIN relaWork
  BY DEF RelaSection, IInv, TypeOK
<1>2. c \in 1 .. Len(sections)
  BY <1>1 DEF IInv, RelasSound, TypeOK
<1>3. RelaDesc(relaWork[i]).name \in Name
  <2>1. RelaName(sections[c]) \in Name
    BY <1>2, SectionType, RelaNameType DEF IInv
  <2>2. QED
    BY <2>1 DEF RelaDesc, NullDesc
<1>4. StrTabOK(shstrtab')
  BY <1>3, AddDescLemma DEF RelaSection
<1>5. /\ pc = "rela" /\ pc' = "rela" /\ i' = i + 1 /\ k' = k
      /\ UNCHANGED <<opts, sections, strtab, symIndex, syms, firstGlobal, relas, relaWork>>
  BY DEF RelaSection, file, tables, relocs
<1>6. i' \in Nat \ {0} /\ k' \in Nat \ {0}
  BY <1>5 DEF IInv, TypeOK
<1>7. QED
  BY <1>4, <1>5, <1>6, LayoutLemma DEF Phase3

LEMMA GroupSectionStep == ASSUME IInv, GroupSection PROVE IInv'
<1>1. GroupDesc(i).name \in Name
  <2>1. <<".group">> \in Name
    BY FixedNamesAssumption DEF TailNames
  <2>2. QED
    BY <2>1 DEF GroupDesc, NullDesc
<1>2. StrTabOK(shstrtab')
  BY <1>1, AddDescLemma DEF GroupSection
<1>3. /\ pc = "group" /\ pc' = "group" /\ i' = i + 1 /\ k' = k
      /\ UNCHANGED <<opts, sections, strtab, symIndex, syms, firstGlobal, relas, relaWork>>
  BY DEF GroupSection, file, tables, relocs
<1>4. i' \in Nat \ {0} /\ k' \in Nat \ {0}
  BY <1>3 DEF IInv, TypeOK
<1>5. QED
  BY <1>2, <1>3, <1>4, LayoutLemma DEF Phase3

LEMMA TailSectionsStep == ASSUME IInv, TailSections PROVE IInv'
<1>1. StrTabOK(shstrtab) /\ TailNames \subseteq Name
  BY FixedNamesAssumption DEF IInv, TypeOK
<1>2. \A t, n : StrTabOK(t) /\ n \in TailNames => StrTabOK(Intern(t, n))
  BY <1>1, InternLemma
<1>3. StrTabOK(TailShstrtab)
  BY <1>1, <1>2 DEF TailShstrtab, TailNames
<1>4. /\ pc = "group" /\ pc' = "layout" /\ i' = 2 /\ k' = 1
      /\ shstrtab' = TailShstrtab
      /\ UNCHANGED <<opts, sections, strtab, symIndex, syms, firstGlobal, relas, relaWork>>
  BY DEF TailSections, file, tables, relocs
<1>5. QED
  BY <1>3, <1>4, LayoutLemma DEF Phase3

\* The steps of phases 3 to 5 that intern nothing.
LEMMA Phase3MoveStep ==
  ASSUME IInv,
         \/ ContentDone \/ RelaDone \/ NoGroup
         \/ PlaceSection \/ LayoutDone \/ WriteSection
  PROVE  IInv'
<1>1. /\ pc \in Phase3 /\ pc' \in Phase3 /\ UNCHANGED shstrtab
      /\ i' \in Nat \ {0} /\ k' \in Nat \ {0}
      /\ UNCHANGED <<opts, sections, strtab, symIndex, syms, firstGlobal, relas, relaWork>>
  <2> USE DEF IInv, TypeOK, Phase3, file, tables, relocs, layout
  <2>1. CASE ContentDone
    BY <2>1 DEF ContentDone, Goto
  <2>2. CASE RelaDone
    BY <2>2 DEF RelaDone, Goto
  <2>3. CASE NoGroup
    BY <2>3 DEF NoGroup
  <2>4. CASE PlaceSection
    BY <2>4 DEF PlaceSection
  <2>5. CASE LayoutDone
    BY <2>5 DEF LayoutDone
  <2>6. CASE WriteSection
    BY <2>6 DEF WriteSection
  <2>7. QED
    BY <2>1, <2>2, <2>3, <2>4, <2>5, <2>6
<1>2. StrTabOK(shstrtab')
  BY <1>1 DEF IInv, TypeOK
<1>3. QED
  BY <1>1, <1>2, LayoutLemma

LEMMA BuildStep == IInv /\ Build => IInv'
<1> SUFFICES ASSUME IInv, Build PROVE IInv'
  OBVIOUS
<1>1. CASE RelocFails \/ GroupFails \/ Deliver
  BY <1>1, ReturnStep DEF RelocFails, GroupFails, Deliver, Fail
<1>2. CASE DefineSymbol
  BY <1>2, DefineSymbolStep
<1>3. CASE ExternSymbol
  BY <1>3, ExternSymbolStep
<1>4. CASE SkipSymbol \/ SectionSymbolsDone \/ LocalsDone \/ GlobalsDone \/ ExternsDone
  BY <1>4, Phase1MoveStep
<1>5. CASE ConvertReloc
  BY <1>5, ConvertRelocStep
<1>6. CASE SectionRelocsDone
  BY <1>6, SectionRelocsDoneStep
<1>7. CASE RelocsDone
  BY <1>7, RelocsDoneStep
<1>8. CASE ContentSection
  BY <1>8, ContentSectionStep
<1>9. CASE RelaSection
  BY <1>9, RelaSectionStep
<1>10. CASE GroupSection
  BY <1>10, GroupSectionStep
<1>11. CASE TailSections
  BY <1>11, TailSectionsStep
<1>12. CASE \/ ContentDone \/ RelaDone \/ NoGroup
            \/ PlaceSection \/ LayoutDone \/ WriteSection
  BY <1>12, Phase3MoveStep
<1>13. QED
  BY <1>1, <1>2, <1>3, <1>4, <1>5, <1>6, <1>7, <1>8, <1>9, <1>10, <1>11, <1>12
     DEF Build

LEMMA StutterStep == IInv /\ UNCHANGED vars => IInv'
<1> SUFFICES ASSUME IInv, UNCHANGED vars PROVE IInv'
  OBVIOUS
<1> USE DEF vars, file, tables, relocs, layout
<1>1. TypeOK'
  BY DEF IInv, TypeOK
<1>2. Shape'
  BY DEF IInv, Shape
<1>3. IndexSound' /\ LocalsFirst'
  BY DEF IInv, IndexSound, LocalsFirst
<1>4. RelasSound'
  <2>1. \A e, r : EntryOf(e, r)' <=> EntryOf(e, r)
    BY DEF EntryOf
  <2>2. QED
    BY <2>1 DEF IInv, RelasSound
<1>5. QED
  BY <1>1, <1>2, <1>3, <1>4 DEF IInv

-----------------------------------------------------------------------------
\* The tables of the build satisfy IInv in every reachable state.
THEOREM Inductive == Spec => []IInv
<1>1. IInv /\ [Next]_vars => IInv'
  <2> SUFFICES ASSUME IInv, [Next]_vars PROVE IInv'
    OBVIOUS
  <2>1. CASE Build
    BY <2>1, BuildStep
  <2>2. CASE WriteTo
    BY <2>2, WriteToStep
  <2>3. CASE \/ \E s \in Sections : AddSection(s)
             \/ \E v \in OSABIs : SetOSABI(v)
             \/ \E on \in Switch : EnableDWARF(on)
             \/ \E on \in BOOLEAN : EnableGNUStack(on)
    BY <2>3, CallerStep
  <2>4. CASE UNCHANGED vars
    BY <2>4, StutterStep
  <2>5. QED
    BY <2>1, <2>2, <2>3, <2>4 DEF Next, Caller
<1>2. QED
  BY InitIInv, <1>1, PTL DEF Spec

\* Every variable keeps its type and both string tables stay consistent.
THEOREM TypeCorrect == Spec => []TypeOK
<1>1. IInv => TypeOK
  BY DEF IInv
<1>2. QED
  BY Inductive, <1>1, PTL

\* The map from names to symbol indices never dangles and never lies: the
\* entry it points at is called what the key says (symIndex).
THEOREM NamesKeepTheirSymbol == Spec => []IndexSound
<1>1. IInv => IndexSound
  BY DEF IInv
<1>2. QED
  BY Inductive, <1>1, PTL

\* The local symbols are exactly those in front of firstGlobal, the sh_info
\* of .symtab.
THEOREM LocalsPrecede == Spec => []LocalsFirst
<1>1. IInv => LocalsFirst
  BY DEF IInv
<1>2. QED
  BY Inductive, <1>1, PTL

\* Every relocation of every converted section has its RELA entry, in order,
\* under that section, and the entry names the symbol the caller named.
THEOREM RelocationsKeepTheirSymbol == Spec => []RelasSound
<1>1. IInv => RelasSound
  BY DEF IInv
<1>2. QED
  BY Inductive, <1>1, PTL

-----------------------------------------------------------------------------
(***************************************************************************)
(* A call answers rightly: it fails when it must and only then, and the    *)
(* build is an object.Builder.  Answers adds what the build knows of its   *)
(* input: every name in the map is one a reference may reach; names enter  *)
(* the map as the two passes come by, and all are there behind the loops;  *)
(* the relocations converted and the groups built so far were in order.    *)
(***************************************************************************)
Passes == {"locals", "globals"}

\* No pass enters a local label of a section.
Label(n, m) ==
  sections[n].symbols[m].binding = "Local" /\ sections[n].symbols[m].kind = "Section"

Seen(n, m) ==
  LET local == sections[n].symbols[m].binding = "Local"
  IN  \/ pc = "globals" /\ local
      \/ (local <=> pc = "locals") /\ (n < i \/ (n = i /\ m < k))

Exports(n) == \E m \in DOMAIN sections[n].symbols : sections[n].symbols[m].binding # "Local"

NamesIn ==
  /\ \A name \in DOMAIN symIndex : Resolvable(sections, name)
  /\ pc \in Passes =>
       \A n \in DOMAIN sections : \A m \in DOMAIN sections[n].symbols :
         Seen(n, m) /\ ~Label(n, m) => sections[n].symbols[m].name \in DOMAIN symIndex
  /\ pc \notin Passes \cup {"idle"} =>
       \A n \in DOMAIN sections : \A m \in DOMAIN sections[n].symbols :
         ~Label(n, m) => sections[n].symbols[m].name \in DOMAIN symIndex
  /\ pc \in Phase3 \cup {"relocs"} => ExternalSymbols(sections) \subseteq DOMAIN symIndex

Converted ==
  /\ pc = "relocs" =>
       \A n \in DOMAIN sections : \A m \in DOMAIN sections[n].relocs :
         n < i \/ (n = i /\ m < k) => RelocOK(sections[n].relocs[m])
  /\ pc \in Phase3 =>
       \A n \in DOMAIN sections : \A m \in DOMAIN sections[n].relocs :
         RelocOK(sections[n].relocs[m])

Grouped ==
  /\ pc = "group" => \A n \in DOMAIN sections : n < i /\ sections[n].linkOnce => Exports(n)
  /\ pc \in {"layout", "write"} => \A n \in DOMAIN sections : sections[n].linkOnce => Exports(n)

Answers == (pc = "idle" => i = 1 /\ k = 1) /\ NamesIn /\ Converted /\ Grouped

\* Places in the input are positive numbers.
LEMMA PlaceType ==
  ASSUME IInv, NEW n \in DOMAIN sections
  PROVE  /\ n \in 1 .. Len(sections) /\ Len(sections) \in Nat /\ i \in Nat /\ k \in Nat
         /\ sections[n].symbols \in Seq(Symbol) /\ sections[n].relocs \in Seq(Reloc)
         /\ \A m \in DOMAIN sections[n].symbols :
              m \in 1 .. Len(sections[n].symbols) /\ Len(sections[n].symbols) \in Nat
         /\ \A m \in DOMAIN sections[n].relocs :
              m \in 1 .. Len(sections[n].relocs) /\ Len(sections[n].relocs) \in Nat
<1>1. n \in 1 .. Len(sections) /\ Len(sections) \in Nat /\ i \in Nat /\ k \in Nat
  BY DEF IInv, TypeOK
<1>2. sections[n].symbols \in Seq(Symbol) /\ sections[n].relocs \in Seq(Reloc)
  BY <1>1, SectionType DEF IInv
<1>3. QED
  BY <1>1, <1>2

LEMMA InitAnswers == Init => Answers
BY DEF Init, Answers, NamesIn, Converted, Grouped, Passes, Phase3, EmptyMap

LEMMA ReturnAnswers == ASSUME NEW outcome, Return(outcome) PROVE Answers'
BY DEF Return, Answers, NamesIn, Converted, Grouped, Passes, Phase3, EmptyMap

LEMMA CallerAnswers == ASSUME IInv, Answers, Caller PROVE Answers'
<1> USE DEF tables, layout, file, relocs, locals
<1>1. pc = "idle" /\ pc' \in {"idle", "locals"} /\ UNCHANGED <<symIndex, i, k>>
  BY DEF Caller, AddSection, SetOSABI, EnableDWARF, EnableGNUStack, SetOption, WriteTo
<1>2. symIndex = EmptyMap /\ i = 1 /\ k = 1
  BY <1>1 DEF IInv, Shape, Answers
<1>3. CASE pc' = "idle"
  BY <1>1, <1>2, <1>3 DEF Answers, NamesIn, Converted, Grouped, Passes, Phase3, EmptyMap
<1>4. CASE pc' = "locals"
  <2>1. UNCHANGED sections
    BY <1>1, <1>4 DEF Caller, AddSection, SetOSABI, EnableDWARF, EnableGNUStack, SetOption, WriteTo
  <2>2. ASSUME NEW n \in DOMAIN sections, NEW m \in DOMAIN sections[n].symbols PROVE ~Seen(n, m)'
    BY <1>1, <1>2, <1>4, <2>1, PlaceType DEF Seen
  <2>3. QED
    BY <1>1, <1>2, <1>4, <2>1, <2>2 DEF Answers, NamesIn, Converted, Grouped, Passes, Phase3, EmptyMap
<1>5. QED
  BY <1>1, <1>3, <1>4

\* A symbol of a pass: the name is entered, or of no concern to the pass.
LEMMA SymbolAnswers == ASSUME IInv, Answers, DefineSymbol \/ SkipSymbol PROVE Answers'
<1> USE DEF file, tables, layout, relocs
<1> DEFINE sym == sections[i].symbols[k]
<1>1. /\ pc \in Passes /\ i \in DOMAIN sections
      /\ k \in DOMAIN sections[i].symbols /\ k' = k + 1
      /\ UNCHANGED <<opts, pc, i, sections>>
  BY DEF DefineSymbol, SkipSymbol, AtSymbol, IInv, TypeOK, Passes
<1>2. DOMAIN symIndex \subseteq DOMAIN symIndex' /\ (Wanted(sym) => sym.name \in DOMAIN symIndex')
  BY DEF DefineSymbol, SkipSymbol, EnterSymbol, Put
<1>3. \A name \in DOMAIN symIndex' :
        name \in DOMAIN symIndex \/ (Wanted(sym) /\ name = sym.name)
  BY DEF DefineSymbol, SkipSymbol, EnterSymbol, Put
<1>4. \A name \in DOMAIN symIndex' : Resolvable(sections, name)
  <2>1. Wanted(sym) => Resolvable(sections, sym.name)
    BY <1>1 DEF Wanted, Resolvable
  <2>2. QED
    BY <1>3, <2>1 DEF Answers, NamesIn
<1>5. ASSUME NEW n \in DOMAIN sections, NEW m \in DOMAIN sections[n].symbols,
             Seen(n, m)', ~Label(n, m)
      PROVE  sections[n].symbols[m].name \in DOMAIN symIndex'
  <2>1. CASE n = i /\ m = k
    <3>1. CASE Wanted(sym)
      BY <1>2, <2>1, <3>1
    <3>2. CASE ~Wanted(sym)
      <4>1. pc = "globals" /\ sym.binding = "Local"
        BY <1>1, <1>5, <2>1, <3>2 DEF Seen, Label, Wanted, Passes
      <4>2. Seen(n, m)
        BY <2>1, <4>1 DEF Seen
      <4>3. QED
        BY <1>1, <1>2, <1>5, <4>2 DEF Answers, NamesIn
    <3>3. QED
      BY <3>1, <3>2
  <2>2. CASE ~(n = i /\ m = k)
    <3>1. Seen(n, m)
      BY <1>1, <1>5, <2>2, PlaceType DEF Seen
    <3>2. QED
      BY <1>1, <1>2, <1>5, <3>1 DEF Answers, NamesIn
  <2>3. QED
    BY <2>1, <2>2
<1>6. NamesIn'
  BY <1>1, <1>4, <1>5 DEF NamesIn, Passes, Phase3, Label
<1>7. QED
  BY <1>1, <1>6 DEF Answers, Converted, Grouped, Passes, Phase3

\* The next section: its predecessor's symbols have all been seen.
LEMMA NextAnswers == ASSUME IInv, Answers, SectionSymbolsDone PROVE Answers'
<1> USE DEF tables, file, layout, relocs
<1>1. /\ pc \in Passes /\ k > Len(sections[i].symbols)
      /\ i \in DOMAIN sections /\ i' = i + 1 /\ k' = 1
      /\ UNCHANGED <<opts, pc, sections, symIndex>>
  BY DEF SectionSymbolsDone, NextSection, IInv, TypeOK, Passes
<1>2. ASSUME NEW n \in DOMAIN sections, NEW m \in DOMAIN sections[n].symbols, Seen(n, m)'
      PROVE  Seen(n, m)
  BY <1>1, <1>2, PlaceType DEF Seen
<1>3. NamesIn'
  BY <1>1, <1>2 DEF Answers, NamesIn, Passes, Phase3, Label
<1>4. QED
  BY <1>1, <1>3 DEF Answers, Converted, Grouped, Passes, Phase3

\* The end of a pass.
LEMMA PassAnswers == ASSUME IInv, Answers, LocalsDone \/ GlobalsDone PROVE Answers'
<1> USE DEF tables, file, layout, relocs
<1>1. /\ pc \in Passes /\ i > Len(sections)
      /\ pc' = (IF pc = "locals" THEN "globals" ELSE "externs")
      /\ i' = 1 /\ k' = 1 /\ UNCHANGED <<opts, sections, symIndex>>
  BY DEF LocalsDone, GlobalsDone, Goto, Passes
<1>2. ASSUME NEW n \in DOMAIN sections, NEW m \in DOMAIN sections[n].symbols, ~Label(n, m),
             pc = "globals" \/ sections[n].symbols[m].binding = "Local"
      PROVE  sections[n].symbols[m].name \in DOMAIN symIndex
  <2>1. Seen(n, m)
    BY <1>1, <1>2, PlaceType DEF Seen, Passes
  <2>2. QED
    BY <1>1, <1>2, <2>1 DEF Answers, NamesIn
<1>3. ASSUME NEW n \in DOMAIN sections, NEW m \in DOMAIN sections[n].symbols, Seen(n, m)'
      PROVE  pc = "globals" \/ sections[n].symbols[m].binding = "Local"
  BY <1>1, <1>3, PlaceType DEF Seen, Passes
<1>4. NamesIn'
  BY <1>1, <1>2, <1>3 DEF Answers, NamesIn, Passes, Phase3, Label
<1>5. QED
  BY <1>1, <1>4 DEF Answers, Converted, Grouped, Passes, Phase3

LEMMA ExternAnswers == ASSUME IInv, Answers, ExternSymbol PROVE Answers'
<1> USE DEF file, layout, relocs
<1>1. /\ pc = "externs" /\ pc' = pc /\ UNCHANGED <<opts, sections>>
  BY DEF ExternSymbol
<1>2. PICK name \in Undefined : DOMAIN symIndex' = DOMAIN symIndex \cup {name}
  BY DEF ExternSymbol, EnterSymbol, Put
<1>3. Resolvable(sections, name)
  BY <1>2 DEF Undefined, ExternalSymbols, Resolvable
<1>4. NamesIn'
  BY <1>1, <1>2, <1>3 DEF Answers, NamesIn, Passes, Phase3, Label
<1>5. QED
  BY <1>1, <1>4 DEF Answers, Converted, Grouped, Phase3

LEMMA ExternsDoneAnswers == ASSUME IInv, Answers, ExternsDone PROVE Answers'
<1> USE DEF file, layout, relocs, tables
<1>1. /\ pc = "externs" /\ pc' = "relocs" /\ i' = 1 /\ k' = 1
      /\ UNCHANGED <<opts, sections, symIndex>>
  BY DEF ExternsDone, Goto
<1>2. ExternalSymbols(sections) \subseteq DOMAIN symIndex
  BY DEF ExternsDone, Undefined
<1>3. NamesIn'
  BY <1>1, <1>2 DEF Answers, NamesIn, Passes, Phase3, Label
<1>4. Converted'
  BY <1>1, PlaceType DEF Converted, Phase3
<1>5. QED
  BY <1>1, <1>3, <1>4 DEF Answers, Grouped

\* One relocation more has been converted.
LEMMA ConvertAnswers == ASSUME IInv, Answers, ConvertReloc PROVE Answers'
<1> USE DEF file, layout, tables
<1>1. /\ pc = "relocs" /\ pc' = pc /\ i' = i /\ k' = k + 1 /\ i \in DOMAIN sections
      /\ RelocOK(sections[i].relocs[k])
      /\ UNCHANGED <<opts, sections, symIndex>>
  BY DEF ConvertReloc, AtReloc, IInv, TypeOK
<1>2. NamesIn'
  BY <1>1 DEF Answers, NamesIn, Passes, Phase3, Label
<1>3. ASSUME NEW n \in DOMAIN sections, NEW m \in DOMAIN sections[n].relocs,
             n < i' \/ (n = i' /\ m < k')
      PROVE  RelocOK(sections[n].relocs[m])
  <2>1. n < i \/ (n = i /\ m < k) \/ (n = i /\ m = k)
    BY <1>1, <1>3, PlaceType
  <2>2. QED
    BY <1>1, <2>1 DEF Answers, Converted
<1>4. Converted'
  BY <1>1, <1>3 DEF Converted, Phase3, RelocOK
<1>5. QED
  BY <1>1, <1>2, <1>4 DEF Answers, Grouped

\* The next section, and the end of the relocations: all are in order.
LEMMA ConvertedAnswers ==
  ASSUME IInv, Answers, SectionRelocsDone \/ RelocsDone PROVE Answers'
<1> USE DEF file, layout, tables, relocs
<1>1. /\ pc = "relocs" /\ pc' \in {"relocs", "content"}
      /\ UNCHANGED <<opts, sections, symIndex>>
  BY DEF SectionRelocsDone, RelocsDone, NextSection, Goto
<1>2. NamesIn'
  BY <1>1 DEF Answers, NamesIn, Passes, Phase3, Label
<1>3. CASE SectionRelocsDone
  <2>1. /\ i \in DOMAIN sections /\ k > Len(sections[i].relocs) /\ pc' = pc
        /\ i' = i + 1 /\ k' = 1
    BY <1>3 DEF SectionRelocsDone, NextSection, IInv, TypeOK
  <2>2. ASSUME NEW n \in DOMAIN sections, NEW m \in DOMAIN sections[n].relocs,
               n < i' \/ (n = i' /\ m < k')
        PROVE  n < i \/ (n = i /\ m < k)
    BY <2>1, <2>2, PlaceType
  <2>3. Converted'
    BY <1>1, <2>1, <2>2 DEF Answers, Converted, Phase3, RelocOK
  <2>4. QED
    BY <1>1, <1>2, <2>1, <2>3 DEF Answers, Grouped
<1>4. CASE RelocsDone
  <2>1. i > Len(sections) /\ pc' = "content"
    BY <1>4 DEF RelocsDone, Goto
  <2>2. ASSUME NEW n \in DOMAIN sections PROVE n < i
    BY <2>1, PlaceType
  <2>3. Converted'
    BY <1>1, <2>1, <2>2 DEF Answers, Converted, Phase3, RelocOK
  <2>4. QED
    BY <1>1, <1>2, <2>1, <2>3 DEF Answers, Grouped
<1>5. QED
  BY <1>3, <1>4

\* Phases 3 to 5: the groups passed have something to be signed by.
LEMMA LayoutAnswers ==
  ASSUME IInv, Answers,
         \/ ContentSection \/ ContentDone \/ RelaSection \/ RelaDone
         \/ GroupSection \/ NoGroup \/ TailSections
         \/ PlaceSection \/ LayoutDone \/ WriteSection
  PROVE  Answers'
<1> USE DEF file, layout, tables, relocs
<1>1. /\ pc \in Phase3 /\ pc' \in Phase3 /\ UNCHANGED <<opts, sections, symIndex>>
  BY DEF ContentSection, ContentDone, RelaSection, RelaDone, GroupSection, NoGroup,
     TailSections, PlaceSection, LayoutDone, WriteSection, Goto, Phase3
<1>2. NamesIn'
  BY <1>1 DEF Answers, NamesIn, Passes, Phase3, Label
<1>3. Converted'
  BY <1>1 DEF Answers, Converted, Phase3, RelocOK
<1>4. Grouped'
  <2>1. CASE ContentSection \/ ContentDone \/ RelaSection
    BY <1>1, <2>1 DEF ContentSection, ContentDone, RelaSection, Goto, Grouped
  <2>2. CASE RelaDone
    <3>1. pc' = "group" /\ i' = 1
      BY <2>2 DEF RelaDone, Goto
    <3>2. QED
      BY <1>1, <3>1, PlaceType DEF Grouped
  <2>3. CASE GroupSection \/ NoGroup
    <3>1. /\ pc = "group" /\ pc' = pc /\ i' = i + 1
          /\ sections[i].linkOnce => Exports(i)
      BY <2>3 DEF GroupSection, NoGroup, Signatures, Exports
    <3>2. ASSUME NEW n \in DOMAIN sections, n < i', sections[n].linkOnce PROVE Exports(n)
      <4>1. n < i \/ n = i
        BY <3>1, <3>2, PlaceType
      <4>2. QED
        BY <3>1, <3>2, <4>1 DEF Answers, Grouped
    <3>3. QED
      BY <1>1, <3>1, <3>2 DEF Grouped, Exports
  <2>4. CASE TailSections
    <3>1. pc = "group" /\ pc' = "layout" /\ i > Len(sections)
      BY <2>4 DEF TailSections
    <3>2. ASSUME NEW n \in DOMAIN sections PROVE n < i
      BY <3>1, PlaceType
    <3>3. QED
      BY <1>1, <3>1, <3>2 DEF Answers, Grouped, Exports
  <2>5. CASE PlaceSection \/ LayoutDone \/ WriteSection
    <3>1. pc \in {"layout", "write"} /\ pc' \in {"layout", "write"}
      BY <2>5 DEF PlaceSection, LayoutDone, WriteSection
    <3>2. QED
      BY <1>1, <3>1 DEF Answers, Grouped, Exports
  <2>6. QED
    BY <2>1, <2>2, <2>3, <2>4, <2>5
<1>5. QED
  BY <1>1, <1>2, <1>3, <1>4 DEF Answers, Phase3

LEMMA AnswersStep == IInv /\ Answers /\ [Next]_vars => Answers'
<1> SUFFICES ASSUME IInv, Answers, [Next]_vars PROVE Answers'
  OBVIOUS
<1>1. CASE Caller
  BY <1>1, CallerAnswers
<1>2. CASE RelocFails \/ GroupFails \/ Deliver
  BY <1>2, ReturnAnswers DEF RelocFails, GroupFails, Deliver, Fail
<1>3. CASE DefineSymbol \/ SkipSymbol
  BY <1>3, SymbolAnswers
<1>4. CASE SectionSymbolsDone
  BY <1>4, NextAnswers
<1>5. CASE LocalsDone \/ GlobalsDone
  BY <1>5, PassAnswers
<1>6. CASE ExternSymbol
  BY <1>6, ExternAnswers
<1>7. CASE ExternsDone
  BY <1>7, ExternsDoneAnswers
<1>8. CASE ConvertReloc
  BY <1>8, ConvertAnswers
<1>9. CASE SectionRelocsDone \/ RelocsDone
  BY <1>9, ConvertedAnswers
<1>10. CASE \/ ContentSection \/ ContentDone \/ RelaSection \/ RelaDone
            \/ GroupSection \/ NoGroup \/ TailSections
            \/ PlaceSection \/ LayoutDone \/ WriteSection
  BY <1>10, LayoutAnswers
<1>11. CASE UNCHANGED vars
  BY <1>11 DEF vars, file, tables, relocs, layout, Answers, NamesIn, Converted, Grouped,
     RelocOK, Seen, Label, Exports
<1>12. QED
  BY <1>1, <1>2, <1>3, <1>4, <1>5, <1>6, <1>7, <1>8, <1>9, <1>10, <1>11 DEF Next, Build

\* A call that fails had to.
LEMMA FailsRightly == ASSUME IInv, Answers, RelocFails \/ GroupFails PROVE ~Buildable(Input)
<1>1. Input.sections = sections /\ Input.opts = opts
  BY DEF Input
<1>2. /\ pc \notin Passes \cup {"idle"} /\ pc \in Phase3 \cup {"relocs"}
      /\ i \in DOMAIN sections
  BY DEF RelocFails, GroupFails, AtReloc, IInv, TypeOK, Passes, Phase3
<1>3. /\ \A n \in DOMAIN sections : \A m \in DOMAIN sections[n].symbols :
           ~Label(n, m) => sections[n].symbols[m].name \in DOMAIN symIndex
      /\ ExternalSymbols(sections) \subseteq DOMAIN symIndex
  BY <1>2 DEF Answers, NamesIn
<1>4. CASE RelocFails
  <2> DEFINE r == sections[i].relocs[k]
  <2>1. k \in DOMAIN sections[i].relocs /\ ~RelocOK(r)
    BY <1>2, <1>4, PlaceType DEF RelocFails, AtReloc, IInv, TypeOK
  <2>2. r.symbol \in ReferencedNames(sections)
    BY <1>2, <2>1 DEF ReferencedNames
  <2>3. Resolvable(sections, r.symbol) => r.symbol \in DOMAIN symIndex
    BY <1>3, <2>2 DEF Resolvable, ExternalSymbols, Label
  <2>4. QED
    BY <1>1, <1>2, <2>1, <2>3 DEF RelocOK, Buildable
<1>5. CASE GroupFails
  <2>1. sections[i].linkOnce /\ Signatures(sections[i]) = {}
    BY <1>5 DEF GroupFails
  <2>2. ASSUME NEW m \in DOMAIN sections[i].symbols
        PROVE  sections[i].symbols[m].binding = "Local"
    BY <1>2, <1>3, <2>1 DEF Signatures, Label
  <2>3. QED
    BY <1>1, <1>2, <2>1, <2>2 DEF Buildable
<1>6. QED
  BY <1>4, <1>5

\* An image is delivered only for an input that asks for nothing impossible.
LEMMA DeliversRightly == ASSUME IInv, Answers, Deliver PROVE Buildable(Input)
<1>1. Input.sections = sections /\ Input.opts = opts
  BY DEF Input
<1>2. pc = "write"
  BY DEF Deliver
<1>3. ASSUME NEW c \in DOMAIN sections, NEW m \in DOMAIN sections[c].relocs
      PROVE  /\ Supported(opts.arch, sections[c].relocs[m].kind)
             /\ Resolvable(sections, sections[c].relocs[m].symbol)
  BY <1>2 DEF Answers, NamesIn, Converted, RelocOK, Phase3
<1>4. ASSUME NEW c \in DOMAIN sections, sections[c].linkOnce
      PROVE  \E m \in DOMAIN sections[c].symbols : sections[c].symbols[m].binding # "Local"
  BY <1>2, <1>4 DEF Answers, Grouped, Exports
<1>5. QED
  BY <1>1, <1>3, <1>4, Zenon DEF Buildable

\* What a call that returns says of its input is true.
LEMMA ReturnsRightly ==
  ASSUME IInv, Answers, RelocFails \/ GroupFails \/ Deliver
  PROVE  /\ pc # "idle" /\ pc' = "idle" /\ UNCHANGED <<opts, sections>>
         /\ last'.input = Input /\ Promise(last'.input, last')
<1> USE DEF file
<1>1. CASE RelocFails \/ GroupFails
  <2>1. /\ pc # "idle" /\ pc' = "idle" /\ UNCHANGED <<opts, sections>>
        /\ last'.input = Input /\ last'.status = "failed" /\ last'.written = "none"
    BY <1>1 DEF RelocFails, GroupFails, Fail, Return
  <2>2. QED
    BY <1>1, <2>1, FailsRightly DEF Promise
<1>2. CASE Deliver
  <2>1. /\ pc # "idle" /\ pc' = "idle" /\ UNCHANGED <<opts, sections>>
        /\ last'.input = Input /\ last'.status = "built"
    BY <1>2 DEF Deliver, Return
  <2>2. QED
    BY <1>2, <2>1, DeliversRightly DEF Promise
<1>3. QED
  BY <1>1, <1>2

\* The other steps return nothing.
LEMMA StaysBusy ==
  ASSUME \/ DefineSymbol \/ SkipSymbol \/ SectionSymbolsDone \/ LocalsDone
         \/ GlobalsDone \/ ExternSymbol \/ ExternsDone
         \/ ConvertReloc \/ SectionRelocsDone \/ RelocsDone
         \/ ContentSection \/ ContentDone \/ RelaSection \/ RelaDone
         \/ GroupSection \/ NoGroup \/ TailSections
         \/ PlaceSection \/ LayoutDone \/ WriteSection
  PROVE  pc # "idle" /\ pc' # "idle" /\ UNCHANGED <<opts, sections, last>>
BY DEF DefineSymbol, SkipSymbol, SectionSymbolsDone, NextSection, LocalsDone, Goto,
   GlobalsDone, ExternSymbol, ExternsDone, ConvertReloc, SectionRelocsDone, RelocsDone,
   ContentSection, ContentDone, RelaSection, RelaDone, GroupSection, NoGroup,
   TailSections, PlaceSection, LayoutDone, WriteSection, file

\* For every input a call fails exactly when a relocation kind has no native
\* type, a name resolves to no symbol, or a FlagLinkOnce section exports
\* nothing, and a failed call has handed no byte to the writer.
THEOREM FailsExactly == Spec => []ErrorsExact
<1>1. Init => ErrorsExact
  BY DEF Init, NoCall, ErrorsExact
<1>2. IInv /\ Answers /\ ErrorsExact /\ [Next]_vars => ErrorsExact'
  <2> SUFFICES ASSUME IInv, Answers, ErrorsExact, [Next]_vars PROVE ErrorsExact'
    OBVIOUS
  <2>1. CASE RelocFails \/ GroupFails \/ Deliver
    <3>1. Promise(last'.input, last')
      BY <2>1, ReturnsRightly
    <3>2. QED
      BY <3>1 DEF ErrorsExact
  <2>2. CASE UNCHANGED last
    BY <2>2 DEF ErrorsExact
  <2>3. QED
    BY <2>1, <2>2, StaysBusy DEF Next, Build, Caller, AddSection, SetOSABI, EnableDWARF,
       EnableGNUStack, SetOption, WriteTo, vars
<1>3. QED
  BY Inductive, InitAnswers, AnswersStep, <1>1, <1>2, PTL DEF Spec

\* The safety part of ImplementsBuilder: every step of the build is a stutter
\* of object.Builder but the last, which answers as Promise says and leaves
\* the File's sections and options alone.
THEOREM RefinesBuilder == Spec => Abstract!Init /\ [][Abstract!Next]_(Abstract!vars)
<1>1. Init => Abstract!Init
  BY DEF Init, NoCall, Abstract!Init
<1>2. IInv /\ Answers /\ [Next]_vars => [Abstract!Next]_(Abstract!vars)
  <2> SUFFICES ASSUME IInv, Answers, [Next]_vars
               PROVE  Abstract!Next \/ UNCHANGED Abstract!vars
    OBVIOUS
  <2> USE DEF Abstract!vars, file
  <2>1. CASE \E s \in Sections : AddSection(s)
    <3>1. PICK s \in Sections : AddSection(s)
      BY <2>1
    <3>2. sections' # << >> /\ sections = SubSeq(sections', 1, Len(sections') - 1)
      BY <3>1, AppendBack DEF AddSection, IInv, TypeOK
    <3>3. Abstract!AddSection
      BY <3>1, <3>2 DEF AddSection, Abstract!AddSection
    <3>4. QED
      BY <3>3 DEF Abstract!Next
  <2>2. CASE \/ \E v \in OSABIs : SetOSABI(v)
             \/ \E on \in Switch : EnableDWARF(on)
             \/ \E on \in BOOLEAN : EnableGNUStack(on)
    <3>1. Abstract!Configure
      BY <2>2 DEF SetOSABI, EnableDWARF, EnableGNUStack, SetOption, Abstract!Configure
    <3>2. QED
      BY <3>1 DEF Abstract!Next
  <2>3. CASE WriteTo
    BY <2>3 DEF WriteTo, Abstract!Call, Abstract!Next
  <2>4. CASE RelocFails \/ GroupFails \/ Deliver
    <3>1. /\ pc # "idle" /\ pc' = "idle" /\ UNCHANGED <<opts, sections>>
          /\ last'.input = Input /\ Promise(last'.input, last')
      BY <2>4, ReturnsRightly
    <3>2. QED
      BY <3>1 DEF Input, Abstract!Return, Abstract!Next
  <2>5. CASE \/ DefineSymbol \/ SkipSymbol \/ SectionSymbolsDone \/ LocalsDone
             \/ GlobalsDone \/ ExternSymbol \/ ExternsDone
             \/ ConvertReloc \/ SectionRelocsDone \/ RelocsDone
             \/ ContentSection \/ ContentDone \/ RelaSection \/ RelaDone
             \/ GroupSection \/ NoGroup \/ TailSections
             \/ PlaceSection \/ LayoutDone \/ WriteSection
    <3>1. pc # "idle" /\ pc' # "idle" /\ UNCHANGED <<opts, sections, last>>
      BY <2>5, StaysBusy
    <3>2. QED
      BY <3>1
  <2>6. CASE UNCHANGED vars
    BY <2>6 DEF vars
  <2>7. QED
    BY <2>1, <2>2, <2>3, <2>4, <2>5, <2>6 DEF Next, Caller, Build
<1>3. QED
  BY Inductive, InitAnswers, AnswersStep, <1>1, <1>2, PTL DEF Spec
=============================================================================
