---------------------------- MODULE MachoProofs ----------------------------
(***************************************************************************)
(* MachoFile's tables are right for every set of sections, every number of *)
(* calls and every value of the scaled widths.                             *)
(*                                                                         *)
(* IInv adds Shape to the invariants the run checks: what the control      *)
(* location says about the tables, how many records and places there are   *)
(* in each loop, and that behind phase 1 every kind has an encoding.       *)
(* Behind that, what a linker finds in the image: Laid and Filled follow   *)
(* the layout and the output, Tabled and Bound the symbol table and the    *)
(* map, Converted the records made of it.                                  *)
(***************************************************************************)
EXTENDS MachoReader, FormatLemmas, FiniteSetTheorems

Before == {"idle", "check"}

Shape ==
  /\ pc \in Before => symDefs = EmptyMap /\ syms = <<NullSym>>
  /\ pc \notin Before => Len(sections) < Len(syms) /\ KindsOK
  /\ pc \in Before \cup {"locals", "globals", "externs"} => recs = << >>
  /\ pc \in Before \cup {"locals", "globals", "externs", "relocs"} => lay = << >>
  /\ pc = "relocs" => Len(recs) = i - 1 /\ i <= Len(sections) + 1
  /\ pc = "layout" => Len(recs) = Len(sections) /\ Len(lay) = i - 1 /\ i <= Len(sections) + 1
  /\ pc = "write" => Len(recs) = Len(sections) /\ Len(lay) = Len(sections)

IInv == TypeOK /\ Shape /\ IndexSound

-----------------------------------------------------------------------------
(***************************************************************************)
(* The values the actions store have the types TypeOK gives them.          *)
(***************************************************************************)
LEMMA SectionType ==
  ASSUME TypeOK, NEW n \in 1 .. Len(sections)
  PROVE  /\ sections[n] \in Section
         /\ sections[n].symbols \in Seq(Symbol)
         /\ sections[n].relocs \in Seq(Reloc)
         /\ sections[n].size \in Nat /\ sections[n].align \in Nat
<1>1. sections[n] \in Section
  BY SectionsAssumption DEF TypeOK
<1>2. QED
  BY <1>1 DEF Section

LEMMA Uint8Type == ASSUME NEW n \in Nat PROVE Uint8(n) \in 0 .. Byte - 1
  BY WidthAssumption DEF Uint8

LEMMA Uint32Fits ==
  ASSUME NEW n \in Nat
  PROVE  Uint32(n) \in Nat /\ Uint32(n) <= n /\ (n < 2 * Half32 => Uint32(n) = n)
<1>1. PICK w : w = 2 * Half32 /\ w \in Nat /\ w > 0
  BY WidthAssumption
<1>2. n % w \in Nat /\ n % w <= n /\ (n < w => n % w = n)
  BY <1>1
<1>3. QED
  BY <1>1, <1>2 DEF Uint32

\* padTo lands on a target that a uint32 holds.
LEMMA ReachFits ==
  ASSUME NEW len \in Nat, NEW x \in Nat
  PROVE  Reach(len, x) \in Nat /\ (len <= x /\ x < 2 * Half32 => Reach(len, x) = x)
<1>1. PICK a, b : a = Uint32(len) /\ b = Uint32(x)
  OBVIOUS
<1>2. /\ a \in Nat /\ b \in Nat /\ a <= len
      /\ len < 2 * Half32 => a = len
      /\ x < 2 * Half32 => b = x
  BY <1>1, Uint32Fits
<1>3. Reach(len, x) = len - a + b
  BY <1>1 DEF Reach
<1>4. len <= x /\ x < 2 * Half32 => len < 2 * Half32
  BY WidthAssumption
<1>5. QED
  BY <1>2, <1>3, <1>4

LEMMA JoinType ==
  ASSUME NEW p \in Seq(Char), NEW q \in Seq(Char) PROVE p \o q \in Seq(Char)
OBVIOUS

LEMMA MangledType == ASSUME NEW name \in Name PROVE Mangled(name) \in Name
BY PrefixAssumption, JoinType DEF Mangled, Name

Descs == [type : 0 .. 15, width : {4, 8}, pcrel : BOOLEAN]

LEMMA RelocTableType ==
  /\ \A kind \in DOMAIN RelocTable["AMD64"] : RelocTable["AMD64"][kind] \in Descs
  /\ \A kind \in DOMAIN RelocTable["ARM64"] : RelocTable["ARM64"][kind] \in Descs
<1> DEFINE amd == RelocTable["AMD64"]
           arm == RelocTable["ARM64"]
<1>1. /\ Desc(0, 8, FALSE) \in Descs /\ Desc(2, 4, TRUE) \in Descs
      /\ Desc(3, 4, TRUE) \in Descs /\ Desc(9, 4, TRUE) \in Descs
      /\ Desc(4, 4, FALSE) \in Descs /\ Desc(5, 4, TRUE) \in Descs
      /\ Desc(6, 4, FALSE) \in Descs /\ Desc(7, 4, TRUE) \in Descs
  BY DEF Desc, Descs
<1>2. /\ DOMAIN amd = {"Abs64", "PCRel32", "GOTLoad", "TLSGD"}
      /\ amd["Abs64"] = Desc(0, 8, FALSE) /\ amd["PCRel32"] = Desc(2, 4, TRUE)
      /\ amd["GOTLoad"] = Desc(3, 4, TRUE) /\ amd["TLSGD"] = Desc(9, 4, TRUE)
  BY DEF RelocTable
<1>3. /\ DOMAIN arm = {"Abs64", "PCRel26", "ADRPage21", "AddOff12", "GOTPage21",
                       "GOTOff12", "TLSGD"}
      /\ arm["Abs64"] = Desc(0, 8, FALSE) /\ arm["PCRel26"] = Desc(2, 4, TRUE)
      /\ arm["ADRPage21"] = Desc(3, 4, TRUE) /\ arm["AddOff12"] = Desc(4, 4, FALSE)
      /\ arm["GOTPage21"] = Desc(5, 4, TRUE) /\ arm["GOTOff12"] = Desc(6, 4, FALSE)
      /\ arm["TLSGD"] = Desc(7, 4, TRUE)
  BY DEF RelocTable
<1>4. QED
  BY <1>1, <1>2, <1>3

LEMMA RelocDescType ==
  ASSUME NEW target, NEW kind, Supported(target, kind)
  PROVE  RelocDesc(target, kind) \in Descs
<1>1. Machine(target) \in {"AMD64", "ARM64"}
  BY DEF Machine
<1>2. QED
  BY <1>1, RelocTableType DEF Supported, RelocDesc

LEMMA EffectiveAlignType ==
  ASSUME NEW s \in Section PROVE EffectiveAlign(s) \in Nat
<1>1. s.align \in Nat
  BY DEF Section
<1>2. QED
  BY <1>1 DEF EffectiveAlign

-----------------------------------------------------------------------------
(***************************************************************************)
(* The steps, one lemma for each action or group of alike actions.         *)
(***************************************************************************)
LEMMA EmptyTables ==
  /\ StrTabOK(NewStrTab)
  /\ <<NullSym>> \in Seq(Symbols) /\ Len(<<NullSym>>) = 1
  /\ DOMAIN EmptyMap = {}
  /\ EmptyOut.len = 0
<1>1. NullSym \in Symbols
  BY WidthAssumption DEF NullSym, Symbols
<1>2. QED
  BY <1>1, NewStrTabOK DEF EmptyMap, EmptyOut

LEMMA InitIInv == Init => IInv
<1> SUFFICES ASSUME Init PROVE IInv
  OBVIOUS
<1> USE DEF Init
<1>1. TypeOK
  <2>1. opts \in [arch : Targets, minOS : Versions \cup {"none"}, reserve : BOOLEAN]
    OBVIOUS
  <2>2. /\ sections \in Seq(Sections) /\ recs \in Seq(Seq(Records)) /\ lay \in Seq(Places)
        /\ pc \in Phases /\ i \in Nat \ {0} /\ k \in Nat \ {0} /\ pos \in Nat
    BY DEF Phases
  <2>3. /\ StrTabOK(strtab) /\ syms \in Seq(Symbols) /\ DOMAIN symDefs = {}
        /\ out.len \in Nat
    BY EmptyTables
  <2>4. QED
    BY <2>1, <2>2, <2>3 DEF TypeOK
<1>2. Shape
  BY DEF Shape, Before
<1>3. IndexSound
  BY EmptyTables DEF IndexSound
<1>4. QED
  BY <1>1, <1>2, <1>3 DEF IInv

\* A returned call leaves empty tables behind, whatever its outcome.
LEMMA ReturnStep == ASSUME IInv, NEW outcome, Return(outcome) PROVE IInv'
<1> USE DEF Return, file
<1>1. TypeOK'
  BY EmptyTables DEF IInv, TypeOK, Phases
<1>2. Shape'
  BY DEF Shape, Before
<1>3. IndexSound'
  BY EmptyTables DEF IndexSound
<1>4. QED
  BY <1>1, <1>2, <1>3 DEF IInv

\* While no call runs the tables are empty, whatever the caller does.
LEMMA CallerStep == ASSUME IInv, Caller PROVE IInv'
<1> USE DEF tables, layout
<1>0. sections \in Seq(Sections)
  BY DEF IInv, TypeOK
<1>1. /\ pc = "idle" /\ pc' \in Before /\ sections' \in Seq(Sections)
      /\ opts' \in [arch : Targets, minOS : Versions \cup {"none"}, reserve : BOOLEAN]
      /\ UNCHANGED <<i, k, strtab, symDefs, syms, recs, lay, pos, out>>
  <2> USE DEF IInv, TypeOK, Before
  <2>1. CASE \E s \in Sections : AddSection(s)
    <3>1. PICK s \in Sections : AddSection(s)
      BY <2>1
    <3>2. sections' \in Seq(Sections)
      BY <1>0, <3>1 DEF AddSection
    <3>3. QED
      BY <3>1, <3>2 DEF AddSection
  <2>2. CASE \E v \in Versions : SetMinOS(v)
    BY <2>2 DEF SetMinOS, SetOption
  <2>3. CASE \E on \in Switch : EnableCodesignReserve(on)
    BY <2>3, SectionsAssumption DEF EnableCodesignReserve, SetOption
  <2>4. CASE WriteTo
    BY <2>4 DEF WriteTo, file
  <2>5. QED
    BY <2>1, <2>2, <2>3, <2>4 DEF Caller
<1>2. symDefs = EmptyMap /\ syms = <<NullSym>> /\ recs = << >> /\ lay = << >>
  BY <1>1 DEF IInv, Shape, Before
<1>3. TypeOK'
  BY <1>1 DEF IInv, TypeOK, StrTabOK, Consistent, Before, Phases
<1>4. Shape'
  BY <1>1, <1>2 DEF Shape, Before
<1>5. IndexSound'
  BY <1>1, <1>2, EmptyTables DEF IndexSound
<1>6. QED
  BY <1>3, <1>4, <1>5 DEF IInv

LEMMA SectionSymbolsStep == ASSUME IInv, SectionSymbols PROVE IInv'
<1> USE DEF file, layout
<1> DEFINE tail == [n \in 1 .. Len(sections) |-> SectionSym(n)]
<1>1. Len(sections) \in Nat /\ DOMAIN sections = 1 .. Len(sections)
  BY DEF IInv, TypeOK
<1>2. symDefs = EmptyMap /\ syms = <<NullSym>> /\ recs = << >> /\ lay = << >>
  BY DEF SectionSymbols, IInv, Shape, Before
<1>3. \A n \in 1 .. Len(sections) : SectionSym(n) \in Symbols
  BY <1>1, Uint8Type DEF SectionSym, Symbols
<1>4. tail \in Seq(Symbols) /\ Len(tail) = Len(sections)
  BY <1>1, <1>3
<1>5. /\ pc' = "locals" /\ i' = 1 /\ k' = 1 /\ KindsOK
      /\ syms' = <<NullSym>> \o tail
      /\ UNCHANGED <<opts, sections, strtab, symDefs, recs, lay, pos, out>>
  BY <1>2 DEF SectionSymbols, Goto
<1>6. syms' \in Seq(Symbols) /\ Len(syms') = 1 + Len(sections)
  BY <1>1, <1>4, <1>5, EmptyTables
<1>7. TypeOK'
  BY <1>5, <1>6 DEF IInv, TypeOK, Phases
<1>8. Shape'
  BY <1>1, <1>2, <1>5, <1>6 DEF Shape, Before, KindsOK
<1>9. IndexSound'
  BY <1>2, <1>5, EmptyTables DEF IndexSound
<1>10. QED
  BY <1>7, <1>8, <1>9 DEF IInv

\* The heart of the symbol table: a symbol is added at the end, the name's old
\* entry, if any, is left behind, and no other name's entry moves.
LEMMA EnterLemma ==
  ASSUME IInv, pc \in {"locals", "globals", "externs"}, UNCHANGED <<sections, recs>>,
         NEW name \in Name, NEW type \in {"SECT", "EXT", "UNDEF"}, NEW section \in Nat,
         NEW weak \in BOOLEAN, NEW value \in Nat, NEW local \in BOOLEAN,
         local <=> type = "SECT",
         Enter(name, Sym(name, type, Uint8(section), weak, value), section, local)
  PROVE  /\ StrTabOK(strtab')
         /\ DOMAIN symDefs' \subseteq Name
         /\ \A n \in DOMAIN symDefs' : symDefs'[n] \in Defs
         /\ syms' \in Seq(Symbols)
         /\ Len(syms') = Len(syms) + 1
         /\ IndexSound'
<1> DEFINE sym == Sym(name, type, Uint8(section), weak, value)
           def == [index |-> Len(syms), section |-> section, local |-> local]
<1>1. Mangled(name) \in Name
  BY MangledType
<1>2. /\ StrTabOK(strtab')
      /\ Extends(strtab'.data, strtab.data)
      /\ OffsetOf(strtab, Mangled(name)) \in Nat
      /\ ReadsAs(strtab'.data, OffsetOf(strtab, Mangled(name)), Mangled(name))
  BY <1>1, InternLemma DEF IInv, TypeOK, Enter
<1>3. sym \in Symbols
  BY <1>2, Uint8Type DEF Sym, Symbols
<1>4. sym.strx = OffsetOf(strtab, Mangled(name)) /\ sym.sect = Uint8(section) /\ sym.type = type
  BY DEF Sym
<1>5. syms \in Seq(Symbols) /\ syms' = Append(syms, sym)
  BY DEF IInv, TypeOK, Enter
<1> HIDE DEF sym
<1>6. /\ syms' \in Seq(Symbols) /\ Len(syms') = Len(syms) + 1
      /\ \A n \in 1 .. Len(syms) : syms'[n] = syms[n]
      /\ syms'[Len(syms) + 1] = sym
      /\ DOMAIN syms = 1 .. Len(syms) /\ DOMAIN syms' = 1 .. Len(syms) + 1
      /\ Len(syms) \in Nat
  BY <1>3, <1>5
<1>7. /\ DOMAIN symDefs' = DOMAIN symDefs \cup {name}
      /\ symDefs'[name] = def
      /\ \A n \in DOMAIN symDefs : n # name => symDefs'[n] = symDefs[n]
  BY DEF Enter, Put
<1>8. strtab.data \in Seq(Char \cup {NUL}) /\ strtab'.data \in Seq(Char \cup {NUL})
  BY <1>2 DEF IInv, TypeOK, StrTabOK, Consistent
<1>9. def \in Defs /\ def.index = Len(syms) /\ def.section = section /\ def.local = local
  BY <1>6 DEF Defs
<1> HIDE DEF def
<1>10. DOMAIN symDefs' \subseteq Name /\ \A n \in DOMAIN symDefs' : symDefs'[n] \in Defs
  BY <1>7, <1>9 DEF IInv, TypeOK
<1> DEFINE Good(n) ==
     LET d == symDefs'[n]
     IN  /\ d.index \in Nat /\ Len(sections) < d.index
         /\ d.index + 1 \in DOMAIN syms'
         /\ ReadsAs(strtab'.data, syms'[d.index + 1].strx, Mangled(n))
         /\ syms'[d.index + 1].sect = Uint8(d.section)
         /\ d.local <=> syms'[d.index + 1].type = "SECT"
<1>11. ASSUME NEW n \in DOMAIN symDefs, n # name PROVE Good(n)
  <2> DEFINE d == symDefs[n]
  <2>1. /\ d.index \in Nat /\ Len(sections) < d.index
        /\ d.index + 1 \in DOMAIN syms
        /\ ReadsAs(strtab.data, syms[d.index + 1].strx, Mangled(n))
        /\ syms[d.index + 1].sect = Uint8(d.section)
        /\ d.local <=> syms[d.index + 1].type = "SECT"
    BY DEF IInv, IndexSound, Carries
  <2>2. Mangled(n) \in Name
    BY MangledType DEF IInv, TypeOK
  <2>3. syms[d.index + 1].strx \in Nat
    <3>1. syms[d.index + 1] \in Symbols
      BY <1>5, <2>1
    <3>2. QED
      BY <3>1 DEF Symbols
  <2>4. ReadsAs(strtab'.data, syms[d.index + 1].strx, Mangled(n))
    BY <1>2, <1>8, <2>1, <2>2, <2>3, ReadsAsExtends
  <2>5. symDefs'[n] = d /\ syms'[d.index + 1] = syms[d.index + 1]
    BY <1>6, <1>7, <1>11, <2>1
  <2>6. QED
    BY <1>6, <2>1, <2>4, <2>5
<1>12. Good(name)
  <2>1. Len(sections) < Len(syms)
    BY DEF IInv, Shape, Before
  <2>2. QED
    BY <1>2, <1>4, <1>6, <1>7, <1>9, <2>1
<1>13. recs' = << >>
  BY DEF IInv, Shape
<1>14. IndexSound'
  <2>1. \A n \in DOMAIN symDefs' : Good(n)
    BY <1>7, <1>11, <1>12
  <2>2. QED
    BY <1>13, <2>1 DEF IndexSound, Carries
<1>15. QED
  BY <1>2, <1>6, <1>10, <1>14

LEMMA DefineSymbolStep == ASSUME IInv, DefineSymbol PROVE IInv'
<1> USE DEF file, layout
<1> DEFINE sym   == sections[i].symbols[k]
           local == pc = "locals"
           weak  == ~local /\ (sym.binding = "Weak" \/ sections[i].linkOnce)
           type  == IF local THEN "SECT" ELSE "EXT"
<1>1. /\ pc \in {"locals", "globals"} /\ AtSymbol
      /\ Enter(sym.name, Sym(sym.name, type, Uint8(i), weak, sym.offset), i, local)
      /\ k' = k + 1
      /\ UNCHANGED <<opts, sections, pc, i, recs, lay, pos, out>>
  BY DEF DefineSymbol, AtSymbol
<1>2. i \in 1 .. Len(sections) /\ k \in 1 .. Len(sections[i].symbols)
  BY <1>1 DEF IInv, TypeOK, AtSymbol
<1>3. sym \in Symbol
  BY <1>2, SectionType DEF IInv
<1>4. sym.name \in Name /\ sym.offset \in Nat
  BY <1>3 DEF Symbol
<1>5. /\ type \in {"SECT", "EXT", "UNDEF"} /\ i \in Nat
      /\ weak \in BOOLEAN /\ local \in BOOLEAN /\ (local <=> type = "SECT")
  BY <1>2
<1>6. /\ StrTabOK(strtab')
      /\ DOMAIN symDefs' \subseteq Name
      /\ \A n \in DOMAIN symDefs' : symDefs'[n] \in Defs
      /\ syms' \in Seq(Symbols)
      /\ Len(syms') = Len(syms) + 1
      /\ IndexSound'
  <2> HIDE DEF type, weak, local
  <2>1. QED
    BY <1>1, <1>4, <1>5, EnterLemma
<1>7. TypeOK'
  BY <1>1, <1>2, <1>6 DEF IInv, TypeOK
<1>8. Shape'
  BY <1>1, <1>6 DEF IInv, TypeOK, Shape, Before, KindsOK
<1>9. QED
  BY <1>6, <1>7, <1>8 DEF IInv

LEMMA ExternSymbolStep == ASSUME IInv, ExternSymbol PROVE IInv'
<1> USE DEF file, layout
<1>1. /\ pc = "externs"
      /\ UNCHANGED <<opts, sections, pc, i, k, recs, lay, pos, out>>
  BY DEF ExternSymbol
<1>2. PICK name \in ExternalSymbols(sections) :
        Enter(name, Sym(name, "UNDEF", 0, FALSE, 0), 0, FALSE)
  BY DEF ExternSymbol
<1>3. name \in Name
  <2>1. PICK n \in DOMAIN sections : \E m \in DOMAIN sections[n].relocs :
          name = sections[n].relocs[m].symbol
    BY DEF ExternalSymbols, ReferencedNames
  <2>2. n \in 1 .. Len(sections)
    BY DEF IInv, TypeOK
  <2>3. sections[n].relocs \in Seq(Reloc)
    BY <2>2, SectionType DEF IInv
  <2>4. PICK m \in DOMAIN sections[n].relocs : name = sections[n].relocs[m].symbol
    BY <2>1
  <2>5. sections[n].relocs[m] \in Reloc
    BY <2>3
  <2>6. QED
    BY <2>4, <2>5 DEF Reloc
<1>4. Uint8(0) = 0
  BY WidthAssumption DEF Uint8
<1>5. /\ StrTabOK(strtab')
      /\ DOMAIN symDefs' \subseteq Name
      /\ \A n \in DOMAIN symDefs' : symDefs'[n] \in Defs
      /\ syms' \in Seq(Symbols)
      /\ Len(syms') = Len(syms) + 1
      /\ IndexSound'
  <2>1. Enter(name, Sym(name, "UNDEF", Uint8(0), FALSE, 0), 0, FALSE)
    BY <1>2, <1>4
  <2>2. QED
    BY <1>1, <1>3, <2>1, EnterLemma
<1>6. TypeOK'
  BY <1>1, <1>5 DEF IInv, TypeOK
<1>7. Shape'
  BY <1>1, <1>5 DEF IInv, TypeOK, Shape, Before, KindsOK
<1>8. QED
  BY <1>5, <1>6, <1>7 DEF IInv

\* The steps of phase 3 that only move the cursor or turn to the next loop.
LEMMA MoveStep ==
  ASSUME IInv, SkipSymbol \/ SymbolsNextSection \/ PassDone \/ ExternsDone
  PROVE  IInv'
<1> USE DEF file, tables, layout
<1>1. /\ pc \in {"locals", "globals", "externs"}
      /\ pc' \in {"locals", "globals", "externs", "relocs"}
      /\ pc' = "relocs" => i' = 1
      /\ i' \in Nat \ {0} /\ k' \in Nat \ {0}
      /\ UNCHANGED <<opts, sections, strtab, symDefs, syms, recs, lay, pos, out>>
  <2> USE DEF IInv, TypeOK
  <2>1. CASE SkipSymbol
    BY <2>1 DEF SkipSymbol, AtSymbol
  <2>2. CASE SymbolsNextSection
    BY <2>2 DEF SymbolsNextSection, NextSection
  <2>3. CASE PassDone
    BY <2>3 DEF PassDone, Goto
  <2>4. CASE ExternsDone
    BY <2>4 DEF ExternsDone, Goto
  <2>5. QED
    BY <2>1, <2>2, <2>3, <2>4
<1>2. TypeOK'
  BY <1>1 DEF IInv, TypeOK, Phases
<1>3. Shape'
  <2>1. recs = << >> /\ lay = << >> /\ Len(sections) \in Nat
    BY <1>1 DEF IInv, TypeOK, Shape
  <2>2. Len(sections) < Len(syms) /\ KindsOK
    BY <1>1 DEF IInv, Shape, Before
  <2>3. KindsOK' /\ Len(sections') < Len(syms')
    BY <1>1, <2>2 DEF KindsOK
  <2>4. /\ pc' \notin Before /\ pc' \notin {"layout", "write"}
        /\ recs' = << >> /\ lay' = << >>
    BY <1>1, <2>1 DEF Before
  <2>5. pc' = "relocs" => Len(recs') = i' - 1 /\ i' <= Len(sections') + 1
    <3>1. Len(<< >>) = 0
      OBVIOUS
    <3>2. pc' = "relocs" => i' = 1 /\ Len(sections') \in Nat
      BY <1>1, <2>1
    <3>3. QED
      BY <2>4, <3>1, <3>2
  <2>6. QED
    BY <2>3, <2>4, <2>5 DEF Shape
<1>4. IndexSound'
  <2>1. \A n, name : Carries(n, name)' <=> Carries(n, name)
    BY <1>1 DEF Carries
  <2>2. IndexSound
    BY DEF IInv
  <2>3. /\ sections' = sections /\ syms' = syms /\ symDefs' = symDefs /\ recs' = recs
        /\ \A n : Uint8(n)' = Uint8(n)
    BY <1>1
  <2>4. QED
    BY <2>1, <2>2, <2>3 DEF IndexSound
<1>5. QED
  BY <1>2, <1>3, <1>4 DEF IInv

\* A record of a relocation whose name is in the map has its type, and stands
\* for the symbol or the section the map holds.
RecordOf(e, r) ==
  /\ e.address = r.offset
  /\ IF e.extern
     THEN \E n \in DOMAIN syms : (n - 1) % Word24 = e.num /\ Carries(n - 1, r.symbol)
     ELSE /\ r.symbol \in DOMAIN symDefs /\ symDefs[r.symbol].local
          /\ e.num = symDefs[r.symbol].section % Word24

LEMMA RecordLemma ==
  ASSUME IInv, NEW r \in Reloc, Supported(opts.arch, r.kind), r.symbol \in DOMAIN symDefs
  PROVE  Record(r) \in Records /\ RecordOf(Record(r), r)
<1> DEFINE desc   == RelocDesc(opts.arch, r.kind)
           def    == symDefs[r.symbol]
           extern == ~def.local \/ PageReloc(opts.arch, desc)
           num    == (IF extern THEN def.index ELSE def.section) % Word24
<1>1. /\ desc.type \in 0 .. 15 /\ desc.width \in {4, 8} /\ desc.pcrel \in BOOLEAN
  BY RelocDescType DEF Descs
<1>2. def \in Defs /\ def.index \in Nat /\ def.section \in Nat /\ Carries(def.index, r.symbol)
  BY DEF IInv, TypeOK, IndexSound, Defs
<1>3. extern \in BOOLEAN
  OBVIOUS
<1>4. \A n \in Nat : n % Word24 \in 0 .. Word24 - 1
  BY WidthAssumption
<1>5. num \in 0 .. Word24 - 1
  BY <1>2, <1>4
<1>6. Record(r) = [address |-> r.offset, extern |-> extern, num |-> num,
                   type |-> desc.type, width |-> desc.width, pcrel |-> desc.pcrel]
  BY DEF Record
<1> HIDE DEF desc, num
<1>7. r.offset \in Nat
  BY DEF Reloc
<1>8. Record(r) \in Records
  <2> HIDE DEF extern
  <2>1. QED
    BY <1>1, <1>3, <1>5, <1>6, <1>7 DEF Records
<1>9. /\ Record(r).address = r.offset /\ Record(r).num = num
      /\ Record(r).extern <=> extern
  <2> HIDE DEF extern
  <2>1. QED
    BY <1>3, <1>6
<1>10. RecordOf(Record(r), r)
  <2>1. CASE extern
    <3>1. num = def.index % Word24
      BY <2>1 DEF num
    <3>2. def.index + 1 \in DOMAIN syms /\ (def.index + 1) - 1 = def.index
      BY <1>2 DEF Carries
    <3> HIDE DEF extern, def
    <3>3. \E n \in DOMAIN syms : (n - 1) % Word24 = num /\ Carries(n - 1, r.symbol)
      BY <1>2, <3>1, <3>2
    <3>4. QED
      BY <1>9, <2>1, <3>3 DEF RecordOf
  <2>2. CASE ~extern
    <3>1. num = def.section % Word24 /\ def.local
      BY <2>2 DEF num
    <3>2. ~Record(r).extern
      BY <1>9, <2>2
    <3>3. QED
      BY <1>9, <3>1, <3>2 DEF RecordOf
  <2>3. QED
    BY <2>1, <2>2
<1>11. QED
  BY <1>8, <1>10

LEMMA ConvertSectionStep == ASSUME IInv, ConvertSection PROVE IInv'
<1> USE DEF file, tables, layout
<1> DEFINE rs == sections[i].relocs
           new == [m \in DOMAIN rs |-> Record(rs[m])]
<1>1. /\ pc = "relocs" /\ i <= Len(sections)
      /\ \A m \in DOMAIN rs : rs[m].symbol \in DOMAIN symDefs
      /\ recs' = Append(recs, new) /\ i' = i + 1
      /\ UNCHANGED <<opts, sections, pc, k, strtab, symDefs, syms, lay, pos, out>>
  BY DEF ConvertSection
<1>2. i \in 1 .. Len(sections) /\ DOMAIN sections = 1 .. Len(sections)
  BY <1>1 DEF IInv, TypeOK
<1>3. rs \in Seq(Reloc) /\ Len(rs) \in Nat /\ DOMAIN rs = 1 .. Len(rs)
  BY <1>2, SectionType DEF IInv
<1>4. ASSUME NEW m \in DOMAIN rs
      PROVE  Record(rs[m]) \in Records /\ RecordOf(Record(rs[m]), rs[m])
  <2>1. rs[m] \in Reloc
    BY <1>3
  <2>2. Supported(opts.arch, rs[m].kind)
    BY <1>1, <1>2 DEF IInv, Shape, Before, KindsOK
  <2>3. QED
    BY <1>1, <2>1, <2>2, RecordLemma
<1>5. new \in Seq(Records) /\ Len(new) = Len(rs)
  BY <1>3, <1>4
<1>6. \A m \in DOMAIN new : RecordOf(new[m], rs[m])
  BY <1>4
<1> HIDE DEF new
<1>7. recs \in Seq(Seq(Records)) /\ Len(recs) = i - 1
  BY <1>1 DEF IInv, TypeOK, Shape
<1>8. /\ recs' \in Seq(Seq(Records)) /\ Len(recs') = i
      /\ \A c \in 1 .. i - 1 : recs'[c] = recs[c]
      /\ recs'[i] = new
      /\ DOMAIN recs = 1 .. i - 1 /\ DOMAIN recs' = 1 .. i
  BY <1>1, <1>2, <1>5, <1>7
<1>9. TypeOK'
  BY <1>1, <1>2, <1>8 DEF IInv, TypeOK
<1>10. Shape'
  <2>1. Len(recs') = i' - 1 /\ i' <= Len(sections) + 1
    BY <1>1, <1>2, <1>8
  <2>2. QED
    BY <1>1, <2>1 DEF IInv, Shape, Before, KindsOK
<1>11. IndexSound'
  <2>0. \A c \in DOMAIN recs :
          /\ c \in DOMAIN sections /\ Len(recs[c]) = Len(sections[c].relocs)
          /\ \A m \in DOMAIN recs[c] : RecordOf(recs[c][m], sections[c].relocs[m])
    BY DEF IInv, IndexSound, RecordOf
  <2>1. ASSUME NEW c \in DOMAIN recs'
        PROVE  /\ c \in DOMAIN sections
               /\ Len(recs'[c]) = Len(sections[c].relocs)
               /\ \A m \in DOMAIN recs'[c] : RecordOf(recs'[c][m], sections[c].relocs[m])
    <3>1. CASE c = i
      <4>1. c \in DOMAIN sections /\ recs'[c] = new /\ sections[c].relocs = rs
        BY <1>2, <1>8, <3>1
      <4> HIDE DEF rs
      <4>2. QED
        BY <1>5, <1>6, <4>1
    <3>2. CASE c \in 1 .. i - 1
      BY <1>8, <2>0, <3>2
    <3>3. QED
      BY <1>2, <1>8, <3>1, <3>2
  <2>2. QED
    BY <1>1, <2>1 DEF IInv, IndexSound, RecordOf, Carries
<1>12. QED
  BY <1>9, <1>10, <1>11 DEF IInv

\* Phases 5 to 8 leave the symbols and the records alone.
LEMMA LayoutLemma ==
  ASSUME IInv, pc \in {"relocs", "layout", "write"}, pc' \in {"layout", "write"},
         i' \in Nat \ {0}, k' \in Nat \ {0}, lay' \in Seq(Places),
         pos' \in Nat, out'.len \in Nat, Len(recs) = Len(sections),
         pc' = "layout" => Len(lay') = i' - 1 /\ i' <= Len(sections) + 1,
         pc' = "write" => Len(lay') = Len(sections),
         UNCHANGED <<opts, sections, strtab, symDefs, syms, recs>>
  PROVE  IInv'
<1>1. TypeOK'
  BY DEF IInv, TypeOK, Phases
<1>2. Shape'
  <2>1. Len(sections) < Len(syms) /\ KindsOK
    BY DEF IInv, Shape, Before
  <2>2. KindsOK' /\ Len(sections') < Len(syms')
    BY <2>1 DEF KindsOK
  <2>3. QED
    BY <2>2 DEF Shape, Before
<1>3. IndexSound'
  BY DEF IInv, IndexSound, Carries
<1>4. QED
  BY <1>1, <1>2, <1>3 DEF IInv

LEMMA RelocsDoneStep == ASSUME IInv, RelocsDone PROVE IInv'
<1>1. /\ pc = "relocs" /\ pc' = "layout" /\ i > Len(sections) /\ i' = 1 /\ k' = 1
      /\ pos' = DataStart
      /\ UNCHANGED <<opts, sections, strtab, symDefs, syms, recs, lay, out>>
  BY DEF RelocsDone, Goto, file, tables
<1>2. /\ Len(sections) \in Nat /\ i \in Nat /\ out.len \in Nat
      /\ lay = << >> /\ Len(recs) = i - 1 /\ i <= Len(sections) + 1
  BY <1>1 DEF IInv, TypeOK, Shape
<1>3. DataStart \in Nat
  BY <1>2 DEF DataStart, SizeOfCmds
<1>4. Len(recs) = Len(sections)
  BY <1>1, <1>2
<1>5. lay' \in Seq(Places) /\ Len(lay') = i' - 1 /\ i' <= Len(sections) + 1
  BY <1>1, <1>2
<1>6. QED
  BY <1>1, <1>2, <1>3, <1>4, <1>5, LayoutLemma

LEMMA PlaceStep == ASSUME IInv, SkipSection \/ PlaceSection PROVE IInv'
<1> DEFINE n   == Len(recs[i])
           at  == AlignUp(pos, EffectiveAlign(sections[i]))
           end == at + sections[i].size
           placed == [offset |-> at, reloff |-> IF n > 0 THEN end ELSE 0, nreloc |-> n]
<1>1. /\ pc = "layout" /\ pc' = "layout" /\ i <= Len(sections) /\ i' = i + 1 /\ k' = k
      /\ UNCHANGED <<opts, sections, strtab, symDefs, syms, recs, out>>
  BY DEF SkipSection, PlaceSection, file, tables
<1>2. i \in 1 .. Len(sections) /\ Len(sections) \in Nat
  BY <1>1 DEF IInv, TypeOK
<1>3. Len(recs) = Len(sections) /\ Len(lay) = i - 1
  BY <1>1 DEF IInv, Shape
<1>4. lay \in Seq(Places) /\ pos \in Nat /\ out.len \in Nat /\ recs \in Seq(Seq(Records))
  BY DEF IInv, TypeOK
<1>5. n \in Nat
  BY <1>2, <1>3, <1>4
<1>6. at \in Nat /\ end \in Nat
  <2>1. sections[i] \in Section /\ sections[i].size \in Nat
    BY <1>2, SectionType DEF IInv
  <2>2. at \in Nat
    BY <1>4, <2>1, EffectiveAlignType, AlignUpLemma
  <2> HIDE DEF at
  <2>3. QED
    BY <2>1, <2>2
<1> HIDE DEF n, at, end
<1>7. placed \in Places /\ NoPlace \in Places
  BY <1>5, <1>6 DEF Places, NoPlace
<1>8. \E p \in Places : lay' = Append(lay, p)
  <2>1. CASE SkipSection
    BY <1>7, <2>1 DEF SkipSection
  <2>2. CASE PlaceSection
    BY <1>7, <2>2 DEF PlaceSection, n, at, end
  <2>3. QED
    BY <2>1, <2>2
<1>9. pos' \in Nat
  <2>1. CASE SkipSection
    BY <1>4, <2>1 DEF SkipSection
  <2>2. CASE PlaceSection
    <3>1. pos' = end + 8 * n
      BY <2>2 DEF PlaceSection, n, at, end
    <3>2. QED
      BY <1>5, <1>6, <3>1
  <2>3. QED
    BY <2>1, <2>2
<1>10. lay' \in Seq(Places) /\ Len(lay') = i
  BY <1>2, <1>3, <1>4, <1>8
<1>11. /\ i' \in Nat \ {0} /\ k' \in Nat \ {0}
       /\ Len(lay') = i' - 1 /\ i' <= Len(sections) + 1
  BY <1>1, <1>2, <1>10 DEF IInv, TypeOK
<1>12. QED
  BY <1>1, <1>3, <1>4, <1>9, <1>10, <1>11, LayoutLemma

LEMMA LayoutDoneStep == ASSUME IInv, LayoutDone PROVE IInv'
<1>1. /\ pc = "layout" /\ pc' = "write" /\ i > Len(sections) /\ i' = 1 /\ k' = 1
      /\ out' = [EmptyOut EXCEPT !.len = DataStart]
      /\ UNCHANGED <<opts, sections, strtab, symDefs, syms, recs, lay, pos>>
  BY DEF LayoutDone, Goto, file, tables
<1>2. /\ Len(sections) \in Nat /\ i \in Nat /\ pos \in Nat /\ lay \in Seq(Places)
  BY DEF IInv, TypeOK
<1>3. Len(recs) = Len(sections) /\ Len(lay) = i - 1 /\ i <= Len(sections) + 1
  BY <1>1 DEF IInv, Shape
<1>4. DataStart \in Nat
  BY <1>2 DEF DataStart, SizeOfCmds
<1>5. out'.len = DataStart
  BY <1>1 DEF EmptyOut
<1>6. Len(lay') = Len(sections)
  BY <1>1, <1>2, <1>3
<1>7. QED
  BY <1>1, <1>2, <1>3, <1>4, <1>5, <1>6, LayoutLemma

LEMMA WriteSectionStep == ASSUME IInv, WriteSection PROVE IInv'
<1> DEFINE to  == Reach(out.len, lay[i].offset)
           raw == Emit(out, to, sections[i].size, PatchedCode(i))
           all == Emit(raw, 0, 8 * Len(recs[i]), recs[i])
<1>1. /\ pc = "write" /\ pc' = "write" /\ i <= Len(sections) /\ i' = i + 1 /\ k' = k
      /\ out' = out \/ out' = raw \/ out' = all
      /\ UNCHANGED <<opts, sections, strtab, symDefs, syms, recs, lay, pos>>
  BY DEF WriteSection, file, tables
<1>2. i \in 1 .. Len(sections) /\ Len(sections) \in Nat
  BY <1>1 DEF IInv, TypeOK
<1>3. Len(recs) = Len(sections) /\ Len(lay) = Len(sections)
  BY <1>1 DEF IInv, Shape
<1>4. lay \in Seq(Places) /\ pos \in Nat /\ out.len \in Nat /\ recs \in Seq(Seq(Records))
  BY DEF IInv, TypeOK
<1>5. lay[i].offset \in Nat
  <2>1. lay[i] \in Places
    BY <1>2, <1>3, <1>4
  <2>2. QED
    BY <2>1 DEF Places
<1>6. sections[i].size \in Nat
  BY <1>2, SectionType DEF IInv
<1>7. 8 * Len(recs[i]) \in Nat
  BY <1>2, <1>3, <1>4
<1>8. raw.len \in Nat
  <2>1. to \in Nat
    BY <1>4, <1>5, ReachFits
  <2> HIDE DEF to
  <2>2. QED
    BY <1>4, <1>6, <2>1, EmitLength
<1>9. all.len \in Nat
  BY <1>7, <1>8, EmitLength
<1> HIDE DEF raw, all
<1>10. out'.len \in Nat /\ i' \in Nat \ {0} /\ k' \in Nat \ {0}
  BY <1>1, <1>2, <1>4, <1>8, <1>9 DEF IInv, TypeOK
<1>11. QED
  BY <1>1, <1>3, <1>4, <1>10, LayoutLemma

LEMMA BuildStep == IInv /\ Build => IInv'
<1> SUFFICES ASSUME IInv, Build PROVE IInv'
  OBVIOUS
<1>1. CASE KindFails \/ SectionFails \/ RelocFails \/ Deliver
  BY <1>1, ReturnStep DEF KindFails, SectionFails, RelocFails, Deliver, Fail
<1>2. CASE SectionSymbols
  BY <1>2, SectionSymbolsStep
<1>3. CASE DefineSymbol
  BY <1>3, DefineSymbolStep
<1>4. CASE ExternSymbol
  BY <1>4, ExternSymbolStep
<1>5. CASE SkipSymbol \/ SymbolsNextSection \/ PassDone \/ ExternsDone
  BY <1>5, MoveStep
<1>6. CASE ConvertSection
  BY <1>6, ConvertSectionStep
<1>7. CASE RelocsDone
  BY <1>7, RelocsDoneStep
<1>8. CASE SkipSection \/ PlaceSection
  BY <1>8, PlaceStep
<1>9. CASE LayoutDone
  BY <1>9, LayoutDoneStep
<1>10. CASE WriteSection
  BY <1>10, WriteSectionStep
<1>11. QED
  BY <1>1, <1>2, <1>3, <1>4, <1>5, <1>6, <1>7, <1>8, <1>9, <1>10 DEF Build

LEMMA StutterStep == IInv /\ UNCHANGED vars => IInv'
<1> SUFFICES ASSUME IInv, UNCHANGED vars PROVE IInv'
  OBVIOUS
<1> USE DEF vars, file, tables, layout
<1>1. TypeOK'
  BY DEF IInv, TypeOK
<1>2. Shape'
  BY DEF IInv, Shape, KindsOK
<1>3. IndexSound'
  BY DEF IInv, IndexSound, Carries
<1>4. QED
  BY <1>1, <1>2, <1>3 DEF IInv

-----------------------------------------------------------------------------
\* The tables of the build satisfy IInv in every reachable state.
THEOREM Inductive == Spec => []IInv
<1>1. IInv /\ [Next]_vars => IInv'
  BY BuildStep, CallerStep, StutterStep DEF Next
<1>2. QED
  BY InitIInv, <1>1, PTL DEF Spec

\* Every variable keeps its type, the string table stays consistent and every
\* record fits its bit fields.
THEOREM TypeCorrect == Spec => []TypeOK
<1>1. IInv => TypeOK
  BY DEF IInv
<1>2. QED
  BY Inductive, <1>1, PTL

\* The map a relocation is resolved with never dangles and never lies, and
\* every record stands for the relocation with its number (symDefs in build).
THEOREM RecordsKeepTheirTarget == Spec => []IndexSound
<1>1. IInv => IndexSound
  BY DEF IInv
<1>2. QED
  BY Inductive, <1>1, PTL

-----------------------------------------------------------------------------
(***************************************************************************)
(* A call fails exactly when its input says so, and the File is an         *)
(* object.Builder.  Answers adds what the build knows of its input: names  *)
(* enter the map as the two passes reach them, all of them have behind the *)
(* loops, the empty name never does, and a section converted has only      *)
(* relocations whose name is in the map.                                   *)
(***************************************************************************)
Seen(n, m) ==
  LET local == sections[n].symbols[m].binding = "Local"
  IN  \/ pc = "globals" /\ local
      \/ (local <=> pc = "locals") /\ (n < i \/ (n = i /\ m < k))

Behind == {"relocs", "layout", "write"}

Answers ==
  /\ pc \notin Before => \A n \in DOMAIN sections : ~BadSection(sections[n])
  /\ NoName \notin DOMAIN symDefs
  /\ pc \in {"locals", "globals"} =>
       \A n \in DOMAIN sections : \A m \in DOMAIN sections[n].symbols :
         Seen(n, m) => sections[n].symbols[m].name \in DOMAIN symDefs \cup {NoName}
  /\ pc \in {"externs"} \cup Behind =>
       DefinedNames(sections) \subseteq DOMAIN symDefs \cup {NoName}
  /\ pc \in Behind => ReferencedNames(sections) \subseteq DOMAIN symDefs \cup {NoName}
  /\ \A c \in DOMAIN recs : \A m \in DOMAIN sections[c].relocs :
       sections[c].relocs[m].symbol # NoName

LEMMA InitAnswers == Init => Answers
BY DEF Init, Answers, Before, Behind, EmptyMap

LEMMA ReturnAnswers == ASSUME NEW outcome, Return(outcome) PROVE Answers'
BY DEF Return, Answers, Before, Behind, EmptyMap

LEMMA CallerAnswers == ASSUME IInv, Caller PROVE Answers'
<1> USE DEF tables, layout, file
<1>1. /\ pc = "idle" /\ pc' \in Before /\ UNCHANGED <<symDefs, recs>>
  BY DEF Caller, AddSection, SetMinOS, EnableCodesignReserve, SetOption, WriteTo, Before
<1>2. symDefs = EmptyMap /\ recs = << >>
  BY <1>1 DEF IInv, Shape, Before
<1>3. QED
  BY <1>1, <1>2 DEF Answers, Before, Behind, EmptyMap

\* A symbol of a pass: the name is entered, or of no concern to the pass.
LEMMA SymbolAnswers == ASSUME IInv, Answers, DefineSymbol \/ SkipSymbol PROVE Answers'
<1> USE DEF file, tables, layout
<1> DEFINE sym == sections[i].symbols[k]
<1>1. /\ pc \in {"locals", "globals"} /\ i \in 1 .. Len(sections)
      /\ k \in 1 .. Len(sections[i].symbols) /\ k' = k + 1
      /\ UNCHANGED <<pc, i, sections, recs>>
  BY DEF DefineSymbol, SkipSymbol, AtSymbol, IInv, TypeOK
<1>2. /\ DOMAIN symDefs \subseteq DOMAIN symDefs'
      /\ NoName \notin DOMAIN symDefs'
      /\ Wanted(sym) => sym.name \in DOMAIN symDefs'
  BY DEF DefineSymbol, SkipSymbol, Enter, Put, Wanted, Answers
<1>3. ASSUME NEW n \in DOMAIN sections, NEW m \in DOMAIN sections[n].symbols, Seen(n, m)'
      PROVE  sections[n].symbols[m].name \in DOMAIN symDefs' \cup {NoName}
  <2>1. n \in Nat /\ m \in Nat
    <3>1. n \in 1 .. Len(sections)
      BY DEF IInv, TypeOK
    <3>2. sections[n].symbols \in Seq(Symbol)
      BY <3>1, SectionType DEF IInv
    <3>3. QED
      BY <3>1, <3>2
  <2>2. CASE n = i /\ m = k
    <3>1. CASE Wanted(sym) \/ sym.name = NoName
      BY <1>2, <2>2, <3>1
    <3>2. CASE ~Wanted(sym) /\ sym.name # NoName
      <4>1. ~(sym.binding = "Local" <=> pc = "locals")
        BY <3>2 DEF Wanted
      <4>2. pc = "globals" /\ sym.binding = "Local"
        BY <1>1, <1>3, <2>2, <4>1 DEF Seen
      <4>3. Seen(n, m)
        BY <2>2, <4>2 DEF Seen
      <4>4. QED
        BY <1>1, <1>2, <4>3 DEF Answers
    <3>3. QED
      BY <3>1, <3>2
  <2>3. CASE ~(n = i /\ m = k)
    <3>1. Seen(n, m)
      BY <1>1, <1>3, <2>1, <2>3 DEF Seen
    <3>2. QED
      BY <1>1, <1>2, <3>1 DEF Answers
  <2>4. QED
    BY <2>2, <2>3
<1>4. QED
  BY <1>1, <1>2, <1>3 DEF Answers, Before, Behind

\* The next section: its predecessor's symbols have all been seen.
LEMMA NextAnswers == ASSUME IInv, Answers, SymbolsNextSection PROVE Answers'
<1> USE DEF tables, file, layout
<1>1. /\ pc \in {"locals", "globals"} /\ k > Len(sections[i].symbols)
      /\ i \in 1 .. Len(sections) /\ i' = i + 1 /\ k' = 1
      /\ UNCHANGED <<pc, sections, symDefs, recs>>
  BY DEF SymbolsNextSection, NextSection, IInv, TypeOK
<1>2. ASSUME NEW n \in DOMAIN sections, NEW m \in DOMAIN sections[n].symbols, Seen(n, m)'
      PROVE  Seen(n, m)
  <2>1. n \in 1 .. Len(sections)
    BY DEF IInv, TypeOK
  <2>2. sections[n].symbols \in Seq(Symbol)
    BY <2>1, SectionType DEF IInv
  <2>3. m \in 1 .. Len(sections[n].symbols) /\ k \in Nat
    BY <2>2 DEF IInv, TypeOK
  <2>4. QED
    BY <1>1, <1>2, <2>1, <2>2, <2>3 DEF Seen
<1>3. QED
  BY <1>1, <1>2 DEF Answers, Before, Behind

\* The end of a pass, the undefined names, and their end.
LEMMA PassAnswers == ASSUME IInv, Answers, PassDone PROVE Answers'
<1> USE DEF tables, file, layout
<1>1. /\ pc \in {"locals", "globals"} /\ i > Len(sections)
      /\ pc' = (IF pc = "locals" THEN "globals" ELSE "externs")
      /\ i' = 1 /\ k' = 1 /\ UNCHANGED <<sections, symDefs, recs>>
  BY DEF PassDone, Goto
<1>2. ASSUME NEW n \in DOMAIN sections, NEW m \in DOMAIN sections[n].symbols,
             pc = "globals" \/ sections[n].symbols[m].binding = "Local"
      PROVE  sections[n].symbols[m].name \in DOMAIN symDefs \cup {NoName}
  <2>1. n \in 1 .. Len(sections) /\ Len(sections) \in Nat /\ i \in Nat
    BY DEF IInv, TypeOK
  <2>2. Seen(n, m)
    BY <1>1, <1>2, <2>1 DEF Seen
  <2>3. QED
    BY <1>1, <2>2 DEF Answers
<1>3. CASE pc = "locals"
  <2>1. ASSUME NEW n \in DOMAIN sections, NEW m \in DOMAIN sections[n].symbols, Seen(n, m)'
        PROVE  sections[n].symbols[m].binding = "Local"
    <3>1. n \in 1 .. Len(sections)
      BY DEF IInv, TypeOK
    <3>2. sections[n].symbols \in Seq(Symbol)
      BY <3>1, SectionType DEF IInv
    <3>3. m \in 1 .. Len(sections[n].symbols)
      BY <3>2
    <3>4. QED
      BY <1>1, <1>3, <2>1, <3>1, <3>2, <3>3 DEF Seen
  <2>2. QED
    BY <1>1, <1>2, <1>3, <2>1 DEF Answers, Before, Behind
<1>4. CASE pc = "globals"
  <2>1. DefinedNames(sections) \subseteq DOMAIN symDefs \cup {NoName}
    BY <1>2, <1>4 DEF DefinedNames
  <2>2. QED
    BY <1>1, <1>4, <2>1 DEF Answers, Before, Behind
<1>5. QED
  BY <1>1, <1>3, <1>4

LEMMA ExternAnswers == ASSUME IInv, Answers, ExternSymbol PROVE Answers'
<1> USE DEF file, layout
<1>1. /\ pc = "externs" /\ pc' = pc /\ UNCHANGED <<sections, recs>>
  BY DEF ExternSymbol
<1>2. PICK name \in ExternalSymbols(sections) : DOMAIN symDefs' = DOMAIN symDefs \cup {name}
  BY DEF ExternSymbol, Enter, Put
<1>3. name # NoName
  BY <1>2 DEF ExternalSymbols
<1>4. QED
  BY <1>1, <1>2, <1>3 DEF Answers, Before, Behind

LEMMA ExternsDoneAnswers == ASSUME IInv, Answers, ExternsDone PROVE Answers'
<1> USE DEF file, tables, layout
<1>1. /\ pc = "externs" /\ pc' = "relocs" /\ UNCHANGED <<sections, recs, symDefs>>
  BY DEF ExternsDone, Goto
<1>2. DefinedNames(sections) \subseteq DOMAIN symDefs \cup {NoName}
  BY <1>1 DEF Answers
<1>3. ReferencedNames(sections) \subseteq DOMAIN symDefs \cup {NoName}
  BY <1>2 DEF ExternsDone, ExternalSymbols
<1>4. QED
  BY <1>1, <1>2, <1>3 DEF Answers, Before, Behind

LEMMA ConvertAnswers == ASSUME IInv, Answers, ConvertSection PROVE Answers'
<1> USE DEF file, tables, layout
<1>1. /\ pc = "relocs" /\ pc' = pc /\ i <= Len(sections)
      /\ \A m \in DOMAIN sections[i].relocs : sections[i].relocs[m].symbol \in DOMAIN symDefs
      /\ Len(recs) = i - 1 /\ recs \in Seq(Seq(Records))
      /\ UNCHANGED <<sections, symDefs>>
  BY DEF ConvertSection, IInv, TypeOK, Shape
<1>2. \E new : recs' = Append(recs, new)
  BY DEF ConvertSection
<1>3. DOMAIN recs' = 1 .. i /\ DOMAIN recs = 1 .. i - 1 /\ i \in Nat
  BY <1>1, <1>2 DEF IInv, TypeOK
<1>4. ASSUME NEW c \in DOMAIN recs', NEW m \in DOMAIN sections[c].relocs
      PROVE  sections[c].relocs[m].symbol # NoName
  <2>1. c \in DOMAIN recs \/ c = i
    BY <1>3
  <2>2. QED
    BY <1>1, <2>1 DEF Answers
<1>5. QED
  BY <1>1, <1>4 DEF Answers, Before, Behind

\* The other steps of a call leave the map and the records alone.
LEMMA OtherAnswers ==
  ASSUME IInv, Answers,
         SectionSymbols \/ RelocsDone \/ SkipSection \/ PlaceSection \/ LayoutDone
           \/ WriteSection \/ UNCHANGED vars
  PROVE  Answers'
<1> USE DEF file, tables, layout
<1>1. CASE SectionSymbols
  <2>1. /\ pc = "check" /\ pc' = "locals" /\ i' = 1 /\ k' = 1
        /\ \A n \in DOMAIN sections : ~BadSection(sections[n])
        /\ UNCHANGED <<sections, symDefs, recs>>
    BY <1>1 DEF SectionSymbols, Goto
  <2>2. ASSUME NEW n \in DOMAIN sections, NEW m \in DOMAIN sections[n].symbols PROVE ~Seen(n, m)'
    <3>1. n \in 1 .. Len(sections)
      BY DEF IInv, TypeOK
    <3>2. sections[n].symbols \in Seq(Symbol)
      BY <3>1, SectionType DEF IInv
    <3>3. m \in 1 .. Len(sections[n].symbols)
      BY <3>2
    <3>4. QED
      BY <2>1, <3>1, <3>2, <3>3 DEF Seen
  <2>3. QED
    BY <2>1, <2>2 DEF Answers, Before, Behind
<1>2. CASE RelocsDone \/ SkipSection \/ PlaceSection \/ LayoutDone \/ WriteSection
  <2>1. /\ pc \in Behind /\ pc' \in Behind /\ UNCHANGED <<sections, symDefs, recs>>
    BY <1>2 DEF RelocsDone, SkipSection, PlaceSection, LayoutDone, WriteSection, Goto, Behind
  <2>2. QED
    BY <2>1 DEF Answers, Before, Behind
<1>3. CASE UNCHANGED vars
  BY <1>3 DEF vars, Answers, Before, Behind, Seen
<1>4. QED
  BY <1>1, <1>2, <1>3

LEMMA AnswersStep == IInv /\ Answers /\ [Next]_vars => Answers'
<1> SUFFICES ASSUME IInv, Answers, [Next]_vars PROVE Answers'
  OBVIOUS
<1>1. CASE Caller
  BY <1>1, CallerAnswers
<1>2. CASE KindFails \/ SectionFails \/ RelocFails \/ Deliver
  BY <1>2, ReturnAnswers DEF KindFails, SectionFails, RelocFails, Deliver, Fail
<1>3. CASE DefineSymbol \/ SkipSymbol
  BY <1>3, SymbolAnswers
<1>4. CASE SymbolsNextSection
  BY <1>4, NextAnswers
<1>5. CASE PassDone
  BY <1>5, PassAnswers
<1>6. CASE ExternSymbol
  BY <1>6, ExternAnswers
<1>7. CASE ExternsDone
  BY <1>7, ExternsDoneAnswers
<1>8. CASE ConvertSection
  BY <1>8, ConvertAnswers
<1>9. CASE SectionSymbols \/ RelocsDone \/ SkipSection \/ PlaceSection \/ LayoutDone
             \/ WriteSection \/ UNCHANGED vars
  BY <1>9, OtherAnswers
<1>10. QED
  BY <1>1, <1>2, <1>3, <1>4, <1>5, <1>6, <1>7, <1>8, <1>9 DEF Next, Build

\* A call that fails had to.
LEMMA FailsRightly ==
  ASSUME IInv, Answers, KindFails \/ SectionFails \/ RelocFails
  PROVE  ~Buildable(Input)
<1>1. Input.sections = sections /\ Input.opts = opts
  BY DEF Input
<1>2. CASE KindFails
  BY <1>1, <1>2 DEF KindFails, KindsOK, Buildable
<1>3. CASE SectionFails
  <2>1. PICK n \in DOMAIN sections : BadSection(sections[n])
    BY <1>3 DEF SectionFails
  <2>2. \/ sections[n].kind = "Unknown"
        \/ sections[n].kind = "Custom" /\ "," \notin Range(sections[n].custom)
    BY <2>1 DEF BadSection, Commas, Range
  <2>3. QED
    BY <1>1, <2>2 DEF Buildable
<1>4. CASE RelocFails
  <2>1. PICK m \in DOMAIN sections[i].relocs : sections[i].relocs[m].symbol \notin DOMAIN symDefs
    BY <1>4 DEF RelocFails
  <2>2. i \in DOMAIN sections /\ pc = "relocs"
    BY <1>4 DEF RelocFails, IInv, TypeOK
  <2>3. sections[i].relocs[m].symbol \in ReferencedNames(sections)
    BY <2>2 DEF ReferencedNames
  <2>4. sections[i].relocs[m].symbol = NoName
    BY <2>1, <2>2, <2>3 DEF Answers, Behind
  <2>5. QED
    BY <1>1, <2>2, <2>4 DEF Buildable
<1>5. QED
  BY <1>2, <1>3, <1>4

\* An image is delivered only for an input that asks for nothing impossible.
LEMMA DeliversRightly == ASSUME IInv, Answers, Deliver PROVE Buildable(Input)
<1>1. Input.sections = sections /\ Input.opts = opts
  BY DEF Input
<1>2. /\ pc = "write" /\ DOMAIN recs = DOMAIN sections /\ KindsOK
      /\ \A n \in DOMAIN sections : ~BadSection(sections[n])
  BY DEF Deliver, IInv, TypeOK, Shape, Before, Answers
<1>3. ASSUME NEW c \in DOMAIN sections
      PROVE  /\ sections[c].kind # "Unknown"
             /\ (sections[c].kind = "Custom" => "," \in Range(sections[c].custom))
  BY <1>2 DEF BadSection, Commas, Range
<1>4. ASSUME NEW c \in DOMAIN sections, NEW m \in DOMAIN sections[c].relocs
      PROVE  /\ Supported(opts.arch, sections[c].relocs[m].kind)
             /\ sections[c].relocs[m].symbol # NoName
  BY <1>2 DEF KindsOK, Answers
<1>5. QED
  BY <1>1, <1>3, <1>4, Zenon DEF Buildable

\* The safety part of ImplementsBuilder: every step of the build is a stutter
\* of object.Builder but the last, which answers as Promise says: a call fails
\* for an unsupported kind of relocation, an unknown kind of section, a custom
\* name without a comma, or a relocation against the empty name, and for
\* nothing else.
THEOREM RefinesBuilder == Spec => Abstract!Init /\ [][Abstract!Next]_(Abstract!vars)
<1>1. Init => Abstract!Init
  BY DEF Init, NoCall, Abstract!Init
<1>2. IInv /\ Answers /\ [Next]_vars => [Abstract!Next]_(Abstract!vars)
  <2> SUFFICES ASSUME IInv, Answers, [Next]_vars
               PROVE  Abstract!Next \/ UNCHANGED Abstract!vars
    OBVIOUS
  <2> USE DEF Abstract!vars, file, tables, layout
  <2>1. CASE \E s \in Sections : AddSection(s)
    <3>1. PICK s \in Sections : AddSection(s)
      BY <2>1
    <3>2. sections' # << >> /\ sections = SubSeq(sections', 1, Len(sections') - 1)
      BY <3>1, AppendBack DEF AddSection, IInv, TypeOK
    <3>3. Abstract!AddSection
      BY <3>1, <3>2 DEF AddSection, Abstract!AddSection
    <3>4. QED
      BY <3>3 DEF Abstract!Next
  <2>2. CASE (\E v \in Versions : SetMinOS(v)) \/ (\E on \in Switch : EnableCodesignReserve(on))
    <3>1. Abstract!Configure
      BY <2>2 DEF SetMinOS, EnableCodesignReserve, SetOption, Abstract!Configure
    <3>2. QED
      BY <3>1 DEF Abstract!Next
  <2>3. CASE WriteTo
    BY <2>3 DEF WriteTo, Abstract!Call, Abstract!Next
  <2>4. CASE KindFails \/ SectionFails \/ RelocFails
    <3>1. /\ pc # "idle" /\ pc' = "idle" /\ UNCHANGED <<opts, sections>>
          /\ last'.input = Input /\ last'.status = "failed" /\ last'.written = "none"
      BY <2>4 DEF KindFails, SectionFails, RelocFails, Fail, Return
    <3>2. Promise(last'.input, last')
      BY <2>4, <3>1, FailsRightly DEF Promise
    <3>3. QED
      BY <3>1, <3>2 DEF Input, Abstract!Return, Abstract!Next
  <2>5. CASE Deliver
    <3>1. /\ pc # "idle" /\ pc' = "idle" /\ UNCHANGED <<opts, sections>>
          /\ last'.input = Input /\ last'.status = "built"
      BY <2>5 DEF Deliver, Return
    <3>2. Promise(last'.input, last')
      BY <2>5, <3>1, DeliversRightly DEF Promise
    <3>3. QED
      BY <3>1, <3>2 DEF Input, Abstract!Return, Abstract!Next
  <2>6. CASE SectionSymbols \/ DefineSymbol \/ SkipSymbol \/ SymbolsNextSection \/ PassDone
               \/ ExternSymbol \/ ExternsDone \/ ConvertSection \/ RelocsDone \/ SkipSection
               \/ PlaceSection \/ LayoutDone \/ WriteSection
    <3>1. pc # "idle" /\ pc' # "idle" /\ UNCHANGED <<opts, sections, last>>
      BY <2>6 DEF SectionSymbols, DefineSymbol, AtSymbol, SkipSymbol, SymbolsNextSection,
         NextSection, PassDone, Goto, ExternSymbol, ExternsDone, ConvertSection, RelocsDone,
         SkipSection, PlaceSection, LayoutDone, WriteSection
    <3>2. QED
      BY <3>1
  <2>7. CASE UNCHANGED vars
    BY <2>7 DEF vars
  <2>8. QED
    BY <2>1, <2>2, <2>3, <2>4, <2>5, <2>6, <2>7 DEF Next, Caller, Build
<1>3. QED
  BY Inductive, InitAnswers, AnswersStep, <1>1, <1>2, PTL DEF Spec
-----------------------------------------------------------------------------
(***************************************************************************)
(* The layout and the bytes.  Laid says of each section placed so far      *)
(* where it is and where it ends, its relocation records included; Filled  *)
(* that the output follows the layout, so that PadTo never finds the       *)
(* buffer beyond its target, as long as a uint32 counts every position:    *)
(* Short.                                                                  *)
(***************************************************************************)
EndOf(c) == lay[c].offset + sections[c].size + 8 * Len(recs[c])

LaidAt(c) ==
  /\ DataStart <= lay[c].offset /\ EndOf(c) <= pos
  /\ lay[c].offset % 2 ^ Log2(EffectiveAlign(sections[c])) = 0
  /\ lay[c].nreloc = Len(recs[c])
  /\ Len(recs[c]) > 0 => lay[c].reloff = lay[c].offset + sections[c].size
  /\ \A b \in 1 .. c - 1 : NoBits(sections[b]) \/ EndOf(b) <= lay[c].offset

Laid ==
  /\ pc \in {"layout", "write"} => DataStart <= pos
  /\ \A c \in DOMAIN lay : IF NoBits(sections[c]) THEN lay[c] = NoPlace ELSE LaidAt(c)

InFile(c) ==
  /\ HasChunk(out.chunks, lay[c].offset, sections[c].size, PatchedCode(c))
  /\ recs[c] # << >> =>
       HasChunk(out.chunks, lay[c].offset + sections[c].size, 8 * Len(recs[c]), recs[c])

Short == StrOff + Len(strtab.data) < 2 * Half32

Filled ==
  pc = "write" /\ Short =>
    /\ i <= Len(sections) + 1
    /\ DataStart <= out.len /\ out.len <= pos
    /\ Chained(out.chunks, DataStart, out.len)
    /\ \A c \in i .. Len(sections) : NoBits(sections[c]) \/ out.len <= lay[c].offset
    /\ \A c \in 1 .. i - 1 : NoBits(sections[c]) \/ InFile(c)

LEMMA Ranges ==
  ASSUME IInv
  PROVE  /\ Len(sections) \in Nat /\ DOMAIN sections = 1 .. Len(sections)
         /\ i \in Nat \ {0} /\ DataStart \in Nat /\ sections \in Seq(Section)
<1>1. /\ Len(sections) \in Nat /\ DOMAIN sections = 1 .. Len(sections) /\ i \in Nat \ {0}
      /\ sections \in Seq(Sections)
  BY DEF IInv, TypeOK
<1>2. DataStart \in Nat
  BY <1>1 DEF DataStart, SizeOfCmds
<1>3. sections \in Seq(Section)
  BY <1>1, SectionsAssumption
<1>4. QED
  BY <1>1, <1>2, <1>3

\* Log2, which asks about half the number, finds the exponent of a power of two.
LEMMA PowerHalved ==
  ASSUME NEW v \in Nat, NEW n \in 1 .. 31
  PROVE  2 ^ (n - 1) <= v \div 2 <=> 2 ^ n <= v
<1>1. PICK h, u : PowerOf(h, n - 1) /\ PowerOf(u, n) /\ h = 2 ^ (n - 1) /\ u = 2 ^ n
  BY DEF PowerOf
<1>2. u = 2 * h /\ h \in Nat
  BY <1>1, PowersDouble
<1>3. 2 * h <= v <=> h <= v \div 2
  BY <1>2
<1>4. QED
  BY <1>1, <1>2, <1>3

LEMMA Log2Power == ASSUME NEW v, NEW m, PowerOf(v, m) PROVE Log2(v) = m /\ 2 ^ m = v
<1> DEFINE S == {0} \cup {n \in 1 .. 31 : 2 ^ (n - 1) <= v \div 2}
<1>1. v \in Nat /\ m \in 0 .. 31
  BY Powers DEF PowerOf
<1>2. ASSUME NEW n \in S PROVE n <= m
  <2>1. CASE n = 0
    BY <1>1, <2>1
  <2>2. CASE n # 0
    <3>1. n \in 1 .. 31 /\ 2 ^ n <= v
      BY <1>1, <2>2, PowerHalved
    <3>2. PICK u : PowerOf(u, n) /\ u <= v
      <4>1. PowerOf(2 ^ n, n)
        BY <3>1 DEF PowerOf
      <4>2. QED
        BY <3>1, <4>1
    <3>3. u \in Nat
      BY <3>2, Powers
    <3>4. m < n => v < u
      BY <3>2, PowersGrow
    <3>5. QED
      BY <1>1, <3>1, <3>2, <3>3, <3>4
  <2>3. QED
    BY <2>1, <2>2
<1>3. m \in S
  <2>1. CASE m = 0
    BY <2>1
  <2>2. CASE m # 0
    <3>1. m \in 1 .. 31 /\ 2 ^ m <= v
      <4>1. m \in 1 .. 31
        BY <1>1, <2>2
      <4>2. 2 ^ m = v
        BY DEF PowerOf
      <4>3. 2 ^ m <= v
        BY <1>1, <4>2
      <4>4. QED
        BY <4>1, <4>3
    <3>2. QED
      BY <1>1, <3>1, PowerHalved
  <2>3. QED
    BY <2>1, <2>2
<1>4. S \subseteq Int
  OBVIOUS
<1>5. Max(S) = m
  <2> HIDE DEF S
  <2>1. QED
    BY <1>2, <1>3, <1>4, GreatestIs
<1>6. QED
  BY <1>5 DEF Log2, PowerOf

\* The exponent a header stores stands for the section's alignment, to which
\* its place is rounded up.
LEMMA AlignExponent ==
  ASSUME TypeOK, NEW n \in DOMAIN sections, NEW a, a = EffectiveAlign(sections[n])
  PROVE  /\ a \in Nat /\ a >= 1 /\ 2 ^ Log2(a) = a
         /\ sections[n].align > 0 => a = sections[n].align
<1>1. PICK s, x : s = sections[n] /\ x = s.align
  OBVIOUS
<1>2. s \in Sections
  BY <1>1 DEF TypeOK
<1>3. x = 0 \/ \E m : PowerOf(x, m)
  BY <1>1, <1>2, AlignAssumption DEF PowerOf, PowerOfTwo
<1>4. \E m : PowerOf(a, m)
  <2>1. CASE x = 0
    <3>1. PowerOf(1, 0) /\ PowerOf(4, 2) /\ PowerOf(8, 3) /\ PowerOf(16, 4)
      BY DEF PowerOf
    <3>2. a \in {1, 4, 8, 16}
      BY <1>1, <2>1 DEF EffectiveAlign
    <3>3. QED
      BY <3>1, <3>2
  <2>2. CASE x # 0
    <3>1. \E m : PowerOf(x, m)
      BY <1>3, <2>2
    <3>2. x \in Nat /\ x > 0
      <4>1. x \in Nat /\ 1 <= x
        BY <3>1, Powers
      <4>2. QED
        BY <4>1
    <3>3. a = x
      BY <1>1, <3>2 DEF EffectiveAlign
    <3>4. QED
      BY <3>1, <3>3
  <2>3. QED
    BY <2>1, <2>2
<1>5. PICK m : PowerOf(a, m)
  BY <1>4
<1>6. a \in Nat /\ 1 <= a
  BY <1>5, Powers
<1>7. Log2(a) = m /\ 2 ^ m = a
  BY <1>5, Log2Power
<1>8. 2 ^ Log2(a) = a
  BY <1>7, Zenon
<1>9. sections[n].align > 0 => a = sections[n].align
  BY DEF EffectiveAlign
<1>10. a >= 1
  BY <1>6
<1>11. QED
  BY <1>6, <1>8, <1>9, <1>10, Zenon

LEMMA AlignedPlace ==
  ASSUME IInv, NEW n \in DOMAIN sections, NEW v \in Nat
  PROVE  AlignUp(v, EffectiveAlign(sections[n])) % 2 ^ Log2(EffectiveAlign(sections[n])) = 0
<1>1. PICK a : a = EffectiveAlign(sections[n])
  OBVIOUS
<1>2. /\ a \in Nat /\ a >= 1 /\ 2 ^ Log2(a) = a
      /\ sections[n].align > 0 => a = sections[n].align
  BY <1>1, AlignExponent DEF IInv
<1>3. PICK at : at = AlignUp(v, a)
  OBVIOUS
<1>4. at \in Nat /\ (a > 1 => at % a = 0)
  BY <1>2, <1>3, AlignUpLemma
<1>5. PICK e : e = 2 ^ Log2(a) /\ e = a
  BY <1>2, Zenon
<1>6. at % e = 0
  <2>1. CASE a = 1
    BY <1>4, <1>5, <2>1
  <2>2. CASE a > 1
    BY <1>4, <1>5, <2>2
  <2>3. QED
    BY <1>2, <2>1, <2>2
<1>7. AlignUp(v, a) % 2 ^ Log2(a) = 0
  BY <1>3, <1>5, <1>6, Zenon
<1>8. QED
  BY <1>1, <1>7, Zenon

LEMMA PlaceFields ==
  ASSUME IInv, pc \in {"layout", "write"}, NEW c \in DOMAIN sections
  PROVE  /\ Len(recs) = Len(sections) /\ c \in DOMAIN recs /\ Len(recs[c]) \in Nat
         /\ recs[c] \in Seq(Records)
         /\ sections[c].size \in Nat
         /\ c \in DOMAIN lay => lay[c].offset \in Nat /\ EndOf(c) \in Nat
<1>1. /\ Len(recs) = Len(sections) /\ recs \in Seq(Seq(Records)) /\ lay \in Seq(Places)
      /\ sections \in Seq(Section)
  BY Ranges DEF IInv, Shape, TypeOK
<1>2. c \in DOMAIN recs /\ recs[c] \in Seq(Records) /\ Len(recs[c]) \in Nat
  BY <1>1
<1>3. sections[c].size \in Nat
  BY Ranges, SectionType DEF IInv
<1>4. ASSUME c \in DOMAIN lay PROVE lay[c].offset \in Nat /\ EndOf(c) \in Nat
  <2>1. lay[c].offset \in Nat
    <3>1. lay[c] \in Places
      BY <1>1, <1>4
    <3>2. QED
      BY <3>1 DEF Places
  <2>2. QED
    BY <1>2, <1>3, <2>1 DEF EndOf
<1>5. QED
  BY <1>1, <1>2, <1>3, <1>4

\* Nothing is placed before the layout, and nothing remains of it later.
LEMMA QuietLaid ==
  ASSUME IInv', pc' \notin {"layout", "write"}
  PROVE  Laid' /\ Filled'
<1>1. lay' = << >>
  BY DEF IInv, TypeOK, Phases, Shape, Before
<1>2. QED
  BY <1>1 DEF Laid, Filled

LEMMA RelocsDoneLaid == ASSUME IInv, RelocsDone PROVE Laid' /\ Filled'
<1>1. /\ pc = "relocs" /\ pc' = "layout" /\ pos' = DataStart
      /\ UNCHANGED <<opts, sections, lay>>
  BY DEF RelocsDone, Goto, file
<1>2. lay' = << >>
  BY <1>1 DEF IInv, Shape
<1>3. DataStart' <= pos'
  BY <1>1, Ranges DEF DataStart, SizeOfCmds, HasVersion
<1>4. QED
  BY <1>1, <1>2, <1>3 DEF Laid, Filled

\* A later position takes nothing back.
LEMMA KeepLaidAt ==
  ASSUME IInv, Laid, pc \in {"layout", "write"}, NEW c \in DOMAIN lay, c \in DOMAIN sections,
         LaidAt(c),
         UNCHANGED <<opts, sections, recs>>, \A b \in 1 .. c : lay'[b] = lay[b],
         pos' \in Nat, pos <= pos'
  PROVE  LaidAt(c)'
<1>1. c \in 1 .. c /\ c \in Nat
  BY Ranges
<1>2. EndOf(c)' = EndOf(c) /\ lay'[c] = lay[c] /\ DataStart' = DataStart
  BY <1>1 DEF EndOf, DataStart, SizeOfCmds, HasVersion
<1>3. \A b \in 1 .. c - 1 : EndOf(b)' = EndOf(b)
  BY <1>1 DEF EndOf
<1>4. EndOf(c) \in Nat /\ pos \in Nat
  BY PlaceFields DEF IInv, TypeOK
<1>5. EndOf(c) <= pos'
  BY <1>4 DEF LaidAt
<1>6. QED
  BY <1>2, <1>3, <1>5 DEF LaidAt

LEMMA PlaceLaid ==
  ASSUME IInv, Laid, SkipSection \/ PlaceSection PROVE Laid' /\ Filled'
<1>0. PICK j : j = i
  OBVIOUS
<1> DEFINE n   == Len(recs[j])
           at  == AlignUp(pos, EffectiveAlign(sections[j]))
           end == at + sections[j].size
<1>1. /\ pc = "layout" /\ pc' = "layout" /\ j <= Len(sections)
      /\ UNCHANGED <<opts, sections, recs>>
  BY <1>0 DEF SkipSection, PlaceSection, file
<1>2. j \in DOMAIN sections /\ j \in Nat \ {0} /\ DOMAIN sections = 1 .. Len(sections)
  BY <1>0, <1>1, Ranges
<1>3. lay \in Seq(Places) /\ Len(lay) = j - 1 /\ pos \in Nat /\ DOMAIN lay = 1 .. j - 1
  BY <1>0, <1>1, <1>2 DEF IInv, TypeOK, Shape
<1>4. DataStart <= pos /\ DataStart \in Nat /\ DataStart' = DataStart
  BY <1>1, Ranges DEF Laid, DataStart, SizeOfCmds, HasVersion
<1>5. \A c \in DOMAIN lay : IF NoBits(sections[c]) THEN lay[c] = NoPlace ELSE LaidAt(c)
  BY DEF Laid
<1>6. Filled'
  BY <1>1 DEF Filled
<1>7. ASSUME pos' \in Nat, pos <= pos', NEW p, lay' = Append(lay, p),
             IF NoBits(sections[j]) THEN p = NoPlace ELSE LaidAt(j)'
      PROVE  Laid'
  <2>1. /\ DOMAIN lay' = 1 .. j /\ lay'[j] = p
        /\ \A c \in 1 .. j - 1 : lay'[c] = lay[c]
    BY <1>2, <1>3, <1>7
  <2>2. DataStart' <= pos'
    BY <1>3, <1>4, <1>7
  <2>3. ASSUME NEW c \in 1 .. j
        PROVE  IF NoBits(sections[c]) THEN lay'[c] = NoPlace ELSE LaidAt(c)'
    <3>1. CASE c = j
      BY <1>7, <2>1, <3>1
    <3>2. CASE c \in 1 .. j - 1
      <4>1. c \in DOMAIN lay /\ c \in DOMAIN sections /\ \A b \in 1 .. c : lay'[b] = lay[b]
        BY <1>2, <1>3, <2>1, <3>2
      <4>2. CASE NoBits(sections[c])
        BY <1>5, <2>1, <3>2, <4>1, <4>2
      <4>3. CASE ~NoBits(sections[c])
        <5>1. LaidAt(c)
          BY <1>5, <4>1, <4>3
        <5>2. LaidAt(c)'
          BY <1>1, <1>7, <4>1, <5>1, KeepLaidAt
        <5>3. QED
          BY <4>3, <5>2
      <4>4. QED
        BY <4>2, <4>3
    <3>3. QED
      BY <1>2, <3>1, <3>2
  <2>4. QED
    BY <1>1, <2>1, <2>2, <2>3 DEF Laid
<1>8. CASE SkipSection
  <2>1. NoBits(sections[j]) /\ lay' = Append(lay, NoPlace) /\ pos' = pos
    BY <1>0, <1>8 DEF SkipSection
  <2>2. QED
    BY <1>3, <1>6, <1>7, <2>1
<1>9. CASE PlaceSection
  <2> DEFINE p == [offset |-> at, reloff |-> IF n > 0 THEN end ELSE 0, nreloc |-> n]
  <2>1. /\ ~NoBits(sections[j]) /\ lay' = Append(lay, p) /\ pos' = end + 8 * n
    BY <1>0, <1>9 DEF PlaceSection
  <2>2. n \in Nat /\ sections[j].size \in Nat
    BY <1>1, <1>2, PlaceFields
  <2>3. at \in Nat /\ pos <= at
    <3>1. sections[j] \in Section
      BY <1>2, SectionType DEF IInv
    <3>2. QED
      BY <1>3, <3>1, EffectiveAlignType, AlignUpLemma
  <2>4. at % 2 ^ Log2(EffectiveAlign(sections[j])) = 0
    BY <1>1, <1>2, <1>3, AlignedPlace
  <2>5. /\ lay'[j] = p /\ \A c \in 1 .. j - 1 : lay'[c] = lay[c]
    BY <1>2, <1>3, <2>1
  <2>6. p.offset = at /\ (n > 0 => p.reloff = end) /\ p.nreloc = n
    OBVIOUS
  <2>7. end \in Nat /\ at <= end /\ end <= pos' /\ pos' \in Nat
    <3>1. PICK x, y, z, w : x = at /\ y = n /\ z = sections[j].size /\ w = pos'
      OBVIOUS
    <3>2. /\ x \in Nat /\ y \in Nat /\ z \in Nat /\ w = x + z + 8 * y
          /\ end = x + z
      BY <2>1, <2>2, <2>3, <3>1
    <3> HIDE DEF at, n, end
    <3>3. end \in Nat /\ x <= end /\ end <= w /\ w \in Nat
      BY <3>2
    <3>4. QED
      BY <3>1, <3>3
  <2> HIDE DEF p
  <2>8. EndOf(j)' = pos'
    BY <1>1, <2>1, <2>5, <2>6 DEF EndOf
  <2>9. pos <= pos' /\ DataStart <= at
    <3> HIDE DEF at, n
    <3>1. QED
      BY <1>3, <1>4, <2>3, <2>7
  <2>10. ASSUME NEW b \in 1 .. j - 1, ~NoBits(sections[b]) PROVE EndOf(b)' <= at
    <3>1. b \in DOMAIN lay /\ b \in DOMAIN sections
      BY <1>2, <1>3
    <3>2. LaidAt(b)
      BY <1>5, <2>10, <3>1
    <3>3. EndOf(b)' = EndOf(b) /\ EndOf(b) \in Nat /\ EndOf(b) <= pos
      BY <1>1, <2>5, <3>1, <3>2, PlaceFields DEF EndOf, LaidAt
    <3> HIDE DEF at, n
    <3>4. QED
      BY <1>3, <2>3, <3>3
  <2>11. LaidAt(j)'
    <3>1. DataStart' <= lay'[j].offset /\ EndOf(j)' <= pos'
      BY <1>4, <2>5, <2>6, <2>7, <2>8, <2>9
    <3>2. lay'[j].offset % 2 ^ Log2(EffectiveAlign(sections'[j])) = 0
      BY <1>1, <2>4, <2>5, <2>6
    <3>3. /\ lay'[j].nreloc = Len(recs'[j])
          /\ Len(recs'[j]) > 0 => lay'[j].reloff = lay'[j].offset + sections'[j].size
      BY <1>1, <2>1, <2>5, <2>6
    <3>4. \A b \in 1 .. j - 1 : NoBits(sections'[b]) \/ EndOf(b)' <= lay'[j].offset
      BY <1>1, <2>5, <2>6, <2>10
    <3>5. QED
      BY <3>1, <3>2, <3>3, <3>4 DEF LaidAt
  <2>12. QED
    BY <1>6, <1>7, <2>1, <2>7, <2>9, <2>11
<1>10. QED
  BY <1>8, <1>9


\* What the bytes of a section depend on does not change while they are
\* written.
LEMMA KeepLaid ==
  ASSUME IInv, Laid, pc \in {"layout", "write"}, pc' \in {"layout", "write"},
         UNCHANGED <<opts, sections, recs, lay, pos>>
  PROVE  Laid'
<1>1. DataStart' = DataStart /\ \A c : EndOf(c)' = EndOf(c)
  BY DEF DataStart, SizeOfCmds, HasVersion, EndOf
<1>2. \A c : LaidAt(c) => LaidAt(c)'
  BY <1>1 DEF LaidAt
<1>3. QED
  BY <1>1, <1>2 DEF Laid

LEMMA LayoutDoneLaid == ASSUME IInv, Laid, LayoutDone PROVE Laid' /\ Filled'
<1>1. /\ pc = "layout" /\ pc' = "write" /\ i > Len(sections) /\ i' = 1
      /\ out' = [EmptyOut EXCEPT !.len = DataStart]
      /\ UNCHANGED <<opts, sections, recs, lay, pos>>
  BY DEF LayoutDone, Goto, file
<1>2. Laid'
  BY <1>1, KeepLaid
<1>3. /\ Len(lay) = i - 1 /\ lay \in Seq(Places) /\ Len(sections) \in Nat /\ i \in Nat
      /\ DOMAIN sections = 1 .. Len(sections) /\ i <= Len(sections) + 1
  BY <1>1, Ranges DEF IInv, TypeOK, Shape
<1>4. DOMAIN lay = DOMAIN sections
  BY <1>1, <1>3
<1>5. out'.len = DataStart /\ out'.chunks = << >> /\ DataStart' = DataStart
  BY <1>1 DEF DataStart, SizeOfCmds, HasVersion, EmptyOut
<1>6. DataStart \in Nat /\ DataStart <= pos
  BY <1>1, <1>3 DEF Laid, DataStart, SizeOfCmds, HasVersion
<1>7. ASSUME NEW c \in 1 .. Len(sections) PROVE NoBits(sections[c]) \/ DataStart <= lay[c].offset
  BY <1>3, <1>4 DEF Laid, LaidAt
<1>8. Chained(out'.chunks, DataStart', out'.len)
  BY <1>5, NoChunks
<1>9. /\ i' <= Len(sections') + 1 /\ DataStart' <= out'.len /\ out'.len <= pos'
      /\ \A c \in i' .. Len(sections') : NoBits(sections'[c]) \/ out'.len <= lay'[c].offset
  BY <1>1, <1>3, <1>5, <1>6, <1>7
<1>10. \A c \in 1 .. i' - 1 : NoBits(sections[c])' \/ InFile(c)'
  BY <1>1
<1>11. Filled'
  BY <1>8, <1>9, <1>10 DEF Filled
<1>12. QED
  BY <1>2, <1>11

\* The chunks of a section the next chunks leave in the file.
LEMMA KeepInFile ==
  ASSUME UNCHANGED <<opts, sections, recs, lay>>,
         \A a, s, b : HasChunk(out.chunks, a, s, b) => HasChunk(out'.chunks, a, s, b),
         NEW c, InFile(c)
  PROVE  InFile(c)'
<1>1. PatchedCode(c)' = PatchedCode(c)
  BY DEF PatchedCode, Field
<1>2. QED
  BY <1>1 DEF InFile

\* The positions up to the end of a short file, and what is counted in it.
LEMMA PositionsFit ==
  ASSUME IInv, Laid, Short, pc = "write"
  PROVE  /\ 2 * Half32 \in Nat /\ pos < 2 * Half32 /\ Uint32(pos) = pos
         /\ Uint32(Len(syms)) = Len(syms) /\ Uint32(StrOff) = StrOff
         /\ Uint32(Len(strtab.data)) = Len(strtab.data)
         /\ Uint32(SizeOfCmds) = SizeOfCmds /\ Uint32(DataStart) = DataStart
<1>1. /\ SizeOfCmds \in Nat /\ DataStart = 32 + SizeOfCmds /\ pos \in Nat
      /\ Len(syms) \in Nat /\ Len(strtab.data) \in Nat
  BY Ranges DEF IInv, TypeOK, StrTabOK, Consistent, DataStart, SizeOfCmds
<1>2. PICK top, cmds, n, d, from :
        top = 2 * Half32 /\ cmds = SizeOfCmds /\ n = Len(syms) /\ d = Len(strtab.data)
        /\ from = DataStart
  OBVIOUS
<1>3. top \in Nat /\ StrOff = pos + 16 * n /\ pos + 16 * n + d < top /\ from <= pos
  BY <1>2, WidthAssumption DEF Short, StrOff, Laid
<1>4. /\ cmds \in Nat /\ n \in Nat /\ d \in Nat /\ from = 32 + cmds /\ pos \in Nat
  BY <1>1, <1>2
<1>5. /\ pos < top /\ n < top /\ d < top /\ from < top /\ cmds < top
      /\ pos + 16 * n < top /\ pos + 16 * n \in Nat /\ from \in Nat
  BY <1>3, <1>4
<1>6. \A x \in Nat : x < top => Uint32(x) = x
  BY <1>2, Uint32Fits
<1>7. QED
  BY <1>2, <1>3, <1>4, <1>5, <1>6

LEMMA WriteLaid == ASSUME IInv, Laid, Filled, WriteSection PROVE Laid' /\ Filled'
<1>0. PICK j : j = i
  OBVIOUS
<1> DEFINE size == sections[j].size
           rest == 8 * Len(recs[j])
           raw  == Emit(out, Reach(out.len, lay[j].offset), size, PatchedCode(j))
           all  == Emit(raw, 0, rest, recs[j])
<1>1. /\ pc = "write" /\ pc' = "write" /\ j <= Len(sections) /\ i' = j + 1
      /\ out' = IF NoBits(sections[j]) THEN out ELSE IF recs[j] = << >> THEN raw ELSE all
      /\ UNCHANGED <<opts, sections, recs, lay, pos, strtab, syms>>
  BY <1>0 DEF WriteSection, file, tables
<1>2. Laid' /\ DataStart' = DataStart
  BY <1>1, KeepLaid DEF DataStart, SizeOfCmds, HasVersion
<1> SUFFICES ASSUME Short PROVE Filled'
  BY <1>1, <1>2 DEF Filled, Short, StrOff
<1>3. j \in Nat \ {0} /\ j \in DOMAIN sections /\ DOMAIN sections = 1 .. Len(sections) /\ Len(sections) \in Nat
  BY <1>0, <1>1, Ranges
<1>4. DOMAIN lay = DOMAIN sections
  BY <1>1, <1>3 DEF IInv, TypeOK, Shape
<1>5. /\ DataStart <= out.len /\ out.len <= pos
      /\ Chained(out.chunks, DataStart, out.len)
      /\ \A c \in j .. Len(sections) : NoBits(sections[c]) \/ out.len <= lay[c].offset
      /\ \A c \in 1 .. j - 1 : NoBits(sections[c]) \/ InFile(c)
  BY <1>0, <1>1 DEF Filled
<1>6. out.len \in Nat /\ pos \in Nat /\ DataStart \in Nat
  BY <1>3 DEF IInv, TypeOK, DataStart, SizeOfCmds, HasVersion
<1>7. CASE NoBits(sections[j])
  <2>1. out' = out
    BY <1>1, <1>7
  <2>2. \A c \in 1 .. j - 1 : InFile(c) => InFile(c)'
    BY <1>1, <2>1, KeepInFile
  <2>3. \A c \in 1 .. i' - 1 : NoBits(sections[c])' \/ InFile(c)'
    <3>1. \A c \in 1 .. i' - 1 : c \in 1 .. j - 1 \/ c = j
      BY <1>1, <1>3
    <3>2. QED
      BY <1>1, <1>5, <1>7, <2>2, <3>1
  <2>4. \A c \in i' .. Len(sections') : NoBits(sections'[c]) \/ out'.len <= lay'[c].offset
    BY <1>1, <1>3, <1>5, <2>1
  <2>5. Filled'
    BY <1>1, <1>2, <1>3, <1>5, <2>1, <2>3, <2>4 DEF Filled
  <2>6. QED
    BY <2>5
<1>8. CASE ~NoBits(sections[j])
  <2>1. /\ size \in Nat /\ rest \in Nat /\ recs[j] \in Seq(Records)
        /\ lay[j].offset \in Nat /\ EndOf(j) = lay[j].offset + size + rest
    BY <1>1, <1>3, <1>4, PlaceFields DEF EndOf
  <2>2. LaidAt(j)
    BY <1>3, <1>4, <1>8 DEF Laid
  <2>3. out.len <= lay[j].offset
    BY <1>3, <1>5, <1>8
  <2> DEFINE at  == lay[j].offset
             end == at + size
  <2>4. PadTo(out.len, at) = at /\ Reach(out.len, at) = at
    <3>1. PICK top : top = 2 * Half32 /\ top \in Nat /\ pos < top
      BY <1>1, PositionsFit
    <3>2. at < top
      <4>1. EndOf(j) <= pos
        BY <2>2 DEF LaidAt
      <4>2. PICK x, w, q : x = at /\ w = size + rest /\ q = pos
        OBVIOUS
      <4>3. x \in Nat /\ w \in Nat /\ q \in Nat /\ x + w <= q /\ q < top
        BY <1>6, <2>1, <3>1, <4>1, <4>2
      <4>4. QED
        BY <3>1, <4>2, <4>3
    <3>3. Reach(out.len, at) = at
      BY <1>6, <2>1, <2>3, <3>1, <3>2, ReachFits
    <3>4. QED
      BY <1>6, <2>1, <2>3, <3>3 DEF PadTo
  <2>5. /\ raw.len = end /\ DataStart <= raw.len
        /\ Chained(raw.chunks, DataStart, end)
        /\ HasChunk(raw.chunks, at, size, PatchedCode(j))
        /\ \A a, s, b : HasChunk(out.chunks, a, s, b) => HasChunk(raw.chunks, a, s, b)
    <3>1. PICK r, x, bytes : r = raw /\ x = lay[j].offset /\ bytes = PatchedCode(j)
      OBVIOUS
    <3>2. r = Emit(out, x, size, bytes) /\ x \in Nat /\ x = PadTo(out.len, x)
      BY <2>1, <2>4, <3>1
    <3> HIDE DEF raw, size
    <3>3. PICK o, from, w : o = out /\ from = DataStart /\ w = size
      OBVIOUS
    <3>4. /\ from \in Nat /\ o.len \in Nat /\ from <= o.len /\ Chained(o.chunks, from, o.len)
          /\ w \in Nat /\ PadTo(o.len, x) = x /\ r = Emit(o, x, w, bytes)
      BY <1>5, <1>6, <2>1, <3>2, <3>3
    <3>5. /\ Emit(o, x, w, bytes).len = PadTo(o.len, x) + w
          /\ from <= Emit(o, x, w, bytes).len
          /\ Chained(Emit(o, x, w, bytes).chunks, from, PadTo(o.len, x) + w)
          /\ HasChunk(Emit(o, x, w, bytes).chunks, PadTo(o.len, x), w, bytes)
          /\ \A a, s, b : HasChunk(o.chunks, a, s, b)
                          => HasChunk(Emit(o, x, w, bytes).chunks, a, s, b)
      BY <3>2, <3>4, EmitChains
    <3>6. /\ r.len = x + w /\ from <= r.len /\ Chained(r.chunks, from, x + w)
          /\ HasChunk(r.chunks, x, w, bytes)
          /\ \A a, s, b : HasChunk(o.chunks, a, s, b) => HasChunk(r.chunks, a, s, b)
      BY <3>4, <3>5
    <3>7. QED
      BY <3>1, <3>3, <3>6
  <2>6. end \in Nat /\ EndOf(j) = end + rest /\ DataStart <= end
    <3>1. at \in Nat /\ size \in Nat
      BY <2>1
    <3>2. QED
      BY <2>1, <2>5, <3>1
  <2>7. ASSUME recs[j] # << >>
        PROVE  /\ all.len = end + rest /\ Chained(all.chunks, DataStart, end + rest)
               /\ HasChunk(all.chunks, end, rest, recs[j])
               /\ \A a, s, b : HasChunk(raw.chunks, a, s, b) => HasChunk(all.chunks, a, s, b)
    <3>1. PICK r, e, bytes, r2 : r = raw /\ e = end /\ bytes = recs[j] /\ r2 = all
      OBVIOUS
    <3>2. r2 = Emit(r, 0, rest, bytes) /\ r.len = e /\ e \in Nat /\ 0 \in Nat
      BY <2>5, <2>6, <3>1
    <3>3. e = PadTo(r.len, 0)
      BY <3>2 DEF PadTo
    <3>4. DataStart <= r.len /\ Chained(r.chunks, DataStart, r.len)
      BY <2>5, <3>1, <3>2
    <3> HIDE DEF raw, all, end, rest
    <3>5. PICK from, w, z : from = DataStart /\ w = rest /\ z = 0
      OBVIOUS
    <3>6. /\ from \in Nat /\ r.len \in Nat /\ from <= r.len /\ Chained(r.chunks, from, r.len)
          /\ w \in Nat /\ z \in Nat /\ PadTo(r.len, z) = e /\ r2 = Emit(r, z, w, bytes)
      BY <1>6, <2>1, <3>2, <3>3, <3>4, <3>5
    <3>7. /\ Emit(r, z, w, bytes).len = PadTo(r.len, z) + w
          /\ from <= Emit(r, z, w, bytes).len
          /\ Chained(Emit(r, z, w, bytes).chunks, from, PadTo(r.len, z) + w)
          /\ HasChunk(Emit(r, z, w, bytes).chunks, PadTo(r.len, z), w, bytes)
          /\ \A a, s, b : HasChunk(r.chunks, a, s, b)
                          => HasChunk(Emit(r, z, w, bytes).chunks, a, s, b)
      BY <3>6, EmitChains
    <3>8. /\ r2.len = e + w /\ Chained(r2.chunks, from, e + w)
          /\ HasChunk(r2.chunks, e, w, bytes)
          /\ \A a, s, b : HasChunk(r.chunks, a, s, b) => HasChunk(r2.chunks, a, s, b)
      BY <3>6, <3>7
    <3>9. QED
      BY <3>1, <3>5, <3>8
  <2> HIDE DEF raw, all, at, end, size, rest
  <2>8. /\ out'.len = EndOf(j) /\ Chained(out'.chunks, DataStart, out'.len)
        /\ HasChunk(out'.chunks, at, size, PatchedCode(j))
        /\ recs[j] # << >> => HasChunk(out'.chunks, end, rest, recs[j])
        /\ \A a, s, b : HasChunk(out.chunks, a, s, b) => HasChunk(out'.chunks, a, s, b)
    <3>1. CASE recs[j] = << >>
      <4>1. out' = raw
        BY <1>1, <1>8, <3>1
      <4>2. rest = 0 /\ EndOf(j) = end
        BY <2>6, <3>1 DEF rest
      <4>3. QED
        BY <2>5, <3>1, <4>1, <4>2
    <3>2. CASE recs[j] # << >>
      <4>1. out' = all
        BY <1>1, <1>8, <3>2
      <4>2. QED
        BY <2>5, <2>6, <2>7, <3>2, <4>1
    <3>3. QED
      BY <3>1, <3>2
  <2>9. InFile(j)'
    <3>1. PatchedCode(j)' = PatchedCode(j)
      BY <1>1 DEF PatchedCode, Field
    <3>2. QED
      BY <1>1, <2>8, <3>1 DEF InFile, at, end, size, rest
  <2>10. \A c \in 1 .. i' - 1 : NoBits(sections[c])' \/ InFile(c)'
    <3>1. \A c \in 1 .. i' - 1 : c \in 1 .. j - 1 \/ c = j
      BY <1>1, <1>3
    <3>2. \A c \in 1 .. j - 1 : InFile(c) => InFile(c)'
      BY <1>1, <2>8, KeepInFile
    <3>3. QED
      BY <1>1, <1>5, <2>9, <3>1, <3>2
  <2>11. ASSUME NEW c \in i' .. Len(sections) PROVE NoBits(sections[c]) \/ EndOf(j) <= lay[c].offset
    <3>1. c \in DOMAIN lay /\ j \in 1 .. c - 1
      BY <1>1, <1>3, <1>4
    <3>2. QED
      BY <1>8, <3>1 DEF Laid, LaidAt
  <2>12. DataStart <= EndOf(j) /\ EndOf(j) <= pos
    <3>1. rest \in Nat
      BY <2>1 DEF rest
    <3>2. QED
      BY <1>6, <2>2, <2>6, <3>1 DEF LaidAt
  <2>13. /\ i' <= Len(sections') + 1 /\ DataStart' <= out'.len /\ out'.len <= pos'
         /\ Chained(out'.chunks, DataStart', out'.len)
         /\ \A c \in i' .. Len(sections') : NoBits(sections'[c]) \/ out'.len <= lay'[c].offset
    BY <1>1, <1>2, <1>3, <2>8, <2>11, <2>12
  <2>14. Filled'
    BY <2>10, <2>13 DEF Filled
  <2>15. QED
    BY <2>14
<1>9. QED
  BY <1>7, <1>8

LEMMA LaidStep == IInv /\ Laid /\ Filled /\ [Next]_vars => Laid' /\ Filled'
<1> SUFFICES ASSUME IInv, Laid, Filled, [Next]_vars PROVE Laid' /\ Filled'
  OBVIOUS
<1>1. IInv'
  BY BuildStep, CallerStep, StutterStep DEF Next
<1>2. CASE pc' \notin {"layout", "write"}
  BY <1>1, <1>2, QuietLaid
<1>3. CASE RelocsDone
  BY <1>3, RelocsDoneLaid
<1>4. CASE SkipSection \/ PlaceSection
  BY <1>4, PlaceLaid
<1>5. CASE LayoutDone
  BY <1>5, LayoutDoneLaid
<1>6. CASE WriteSection
  BY <1>6, WriteLaid
<1>7. CASE UNCHANGED vars
  <2> USE DEF vars, file, tables, layout
  <2>1. \A c : LaidAt(c)' <=> LaidAt(c)
    BY <1>7 DEF LaidAt, DataStart, SizeOfCmds, HasVersion, EndOf
  <2>2. Laid'
    BY <1>7, <2>1 DEF Laid, DataStart, SizeOfCmds, HasVersion
  <2>3. \A c : InFile(c) => InFile(c)'
    BY <1>7, KeepInFile
  <2>4. Filled'
    BY <1>7, <2>3 DEF Filled, DataStart, SizeOfCmds, HasVersion, Short, StrOff
  <2>5. QED
    BY <2>2, <2>4
<1>8. CASE Caller \/ (Build /\ ~(\/ RelocsDone \/ SkipSection \/ PlaceSection \/ LayoutDone
                               \/ WriteSection))
  <2>1. pc' \notin {"layout", "write"}
    <3>1. CASE Caller
      BY <3>1 DEF Caller, AddSection, SetMinOS, EnableCodesignReserve, SetOption, WriteTo
    <3>2. CASE KindFails \/ SectionFails \/ RelocFails \/ Deliver
      BY <3>2 DEF KindFails, SectionFails, RelocFails, Deliver, Fail, Return
    <3>3. CASE \/ SectionSymbols \/ DefineSymbol \/ SkipSymbol \/ SymbolsNextSection
               \/ PassDone \/ ExternSymbol \/ ExternsDone \/ ConvertSection
      BY <3>3 DEF SectionSymbols, DefineSymbol, SkipSymbol, AtSymbol, SymbolsNextSection,
         PassDone, ExternSymbol, ExternsDone, ConvertSection, Goto, NextSection
    <3>4. QED
      BY <1>8, <3>1, <3>2, <3>3 DEF Build
  <2>2. QED
    BY <1>2, <2>1
<1>9. QED
  BY <1>3, <1>4, <1>5, <1>6, <1>7, <1>8 DEF Next


\* The tables go behind the sections, where the symtab command says.
LEMMA TablesWritten ==
  ASSUME IInv, Laid, Filled, Short, pc = "write", i > Len(sections)
  PROVE  /\ \E to : Chained(Tables.chunks, DataStart, to)
         /\ HasChunk(Tables.chunks, pos, 16 * Len(syms), syms)
         /\ HasChunk(Tables.chunks, StrOff, Len(strtab.data), strtab.data)
         /\ \A a, s, b : HasChunk(out.chunks, a, s, b) => HasChunk(Tables.chunks, a, s, b)
<1>1. /\ DataStart \in Nat /\ out.len \in Nat /\ pos \in Nat /\ syms \in Seq(Symbols)
      /\ Len(syms) \in Nat /\ Len(strtab.data) \in Nat
  BY Ranges DEF IInv, TypeOK, StrTabOK, Consistent
<1>2. DataStart <= out.len /\ out.len <= pos /\ Chained(out.chunks, DataStart, out.len)
  BY DEF Filled
<1>3. PICK r, o, from, x, w, bytes :
        /\ r = Emit(out, Reach(out.len, pos), 16 * Len(syms), syms)
        /\ o = out /\ from = DataStart /\ x = pos /\ w = 16 * Len(syms) /\ bytes = syms
  OBVIOUS
<1>4. /\ from \in Nat /\ o.len \in Nat /\ from <= o.len /\ Chained(o.chunks, from, o.len)
      /\ x \in Nat /\ w \in Nat /\ PadTo(o.len, x) = x /\ r = Emit(o, x, w, bytes)
  <2>1. PadTo(out.len, pos) = pos
    BY <1>1, <1>2 DEF PadTo
  <2>2. Reach(out.len, pos) = pos
    BY <1>1, <1>2, PositionsFit, ReachFits
  <2>3. QED
    BY <1>1, <1>2, <1>3, <2>1, <2>2
<1>5. /\ Emit(o, x, w, bytes).len = PadTo(o.len, x) + w
      /\ from <= Emit(o, x, w, bytes).len
      /\ Chained(Emit(o, x, w, bytes).chunks, from, PadTo(o.len, x) + w)
      /\ HasChunk(Emit(o, x, w, bytes).chunks, PadTo(o.len, x), w, bytes)
      /\ \A a, s, b : HasChunk(o.chunks, a, s, b)
                      => HasChunk(Emit(o, x, w, bytes).chunks, a, s, b)
  BY <1>4, EmitChains
<1>6. /\ r.len = x + w /\ from <= r.len /\ Chained(r.chunks, from, r.len)
      /\ HasChunk(r.chunks, x, w, bytes)
      /\ \A a, s, b : HasChunk(o.chunks, a, s, b) => HasChunk(r.chunks, a, s, b)
  BY <1>4, <1>5
<1>7. PICK r2, z, w2, bytes2 :
        /\ r2 = Tables /\ z = StrOff /\ w2 = Len(strtab.data) /\ bytes2 = strtab.data
  OBVIOUS
<1>8. /\ from \in Nat /\ r.len \in Nat /\ from <= r.len /\ Chained(r.chunks, from, r.len)
      /\ z \in Nat /\ w2 \in Nat /\ PadTo(r.len, z) = x + w /\ r2 = Emit(r, z, w2, bytes2)
  <2>1. r.len \in Nat /\ z = r.len
    BY <1>3, <1>4, <1>6, <1>7 DEF StrOff
  <2>2. PadTo(r.len, z) = r.len
    BY <2>1 DEF PadTo
  <2>3. Tables = Emit(r, Reach(r.len, StrOff), Len(strtab.data), strtab.data)
    BY <1>3 DEF Tables
  <2>4. Reach(r.len, StrOff) = StrOff
    <3>1. Len(strtab.data) \in Nat /\ z + Len(strtab.data) < 2 * Half32
      BY <1>1, <1>7 DEF Short
    <3>2. z < 2 * Half32
      BY <2>1, <3>1, WidthAssumption
    <3>3. PICK y : y = r.len /\ y = z /\ y \in Nat
      BY <2>1
    <3>4. Reach(y, y) = y
      BY <3>2, <3>3, ReachFits
    <3>5. QED
      BY <1>7, <3>3, <3>4
  <2>5. QED
    BY <1>1, <1>4, <1>6, <1>7, <2>1, <2>2, <2>3, <2>4
<1>9. /\ Emit(r, z, w2, bytes2).len = PadTo(r.len, z) + w2
      /\ from <= Emit(r, z, w2, bytes2).len
      /\ Chained(Emit(r, z, w2, bytes2).chunks, from, PadTo(r.len, z) + w2)
      /\ HasChunk(Emit(r, z, w2, bytes2).chunks, PadTo(r.len, z), w2, bytes2)
      /\ \A a, s, b : HasChunk(r.chunks, a, s, b)
                      => HasChunk(Emit(r, z, w2, bytes2).chunks, a, s, b)
  BY <1>8, EmitChains
<1>10. /\ Chained(r2.chunks, from, x + w + w2)
       /\ HasChunk(r2.chunks, z, w2, bytes2)
       /\ \A a, s, b : HasChunk(r.chunks, a, s, b) => HasChunk(r2.chunks, a, s, b)
  <2>1. z = x + w
    BY <1>3, <1>7 DEF StrOff
  <2>2. QED
    BY <1>8, <1>9, <2>1
<1>11. /\ HasChunk(r2.chunks, x, w, bytes)
       /\ \A a, s, b : HasChunk(o.chunks, a, s, b) => HasChunk(r2.chunks, a, s, b)
  BY <1>6, <1>10
<1>12. QED
  BY <1>3, <1>7, <1>10, <1>11

\* A byte in no relocated field is the caller's: the field of a relocation
\* that stores nothing covers no byte, any other only bytes of its width.
LEMMA CodeKept ==
  ASSUME IInv, pc = "write", NEW c \in DOMAIN sections, NEW b \in 1 .. sections[c].size,
         \A m \in DOMAIN sections[c].relocs :
           LET r == sections[c].relocs[m]
           IN  b \notin r.offset + 1 .. r.offset + RelocDesc(opts.arch, r.kind).width
  PROVE  PatchedCode(c)[b] = <<"code", c, b>>
<1> DEFINE rs     == sections[c].relocs
           code   == [x \in 1 .. sections[c].size |-> <<"code", c, x>>]
           fields == [m \in DOMAIN rs |-> Field(rs[m])]
<1>1. ASSUME NEW m \in DOMAIN fields PROVE ~Covers(fields[m], b)
  <2>1. PICK r, w : r = rs[m] /\ w = RelocDesc(opts.arch, r.kind).width
    OBVIOUS
  <2>2. w \in Nat
    <3>1. Supported(opts.arch, r.kind)
      BY <2>1 DEF IInv, Shape, Before, KindsOK
    <3>2. QED
      BY <2>1, <3>1, RelocDescType DEF Descs
  <2>3. r.offset \in Nat
    <3>1. rs \in Seq(Reloc)
      BY Ranges, SectionType DEF IInv
    <3>2. rs[m] \in Reloc
      BY <3>1
    <3>3. QED
      BY <2>1, <3>2 DEF Reloc
  <2>4. b \in Nat /\ b \notin r.offset + 1 .. r.offset + w
    <3>1. sections[c].size \in Nat
      BY Ranges, SectionType DEF IInv
    <3>2. QED
      BY <2>1, <3>1
  <2>5. fields[m].offset = r.offset /\ fields[m].width \in {0, w}
    BY <2>1 DEF Field
  <2>6. QED
    BY <2>2, <2>3, <2>4, <2>5 DEF Covers
<1>2. b \in DOMAIN code /\ code[b] = <<"code", c, b>>
  OBVIOUS
<1>3. PatchedCode(c) = Patch(code, fields)
  BY DEF PatchedCode
<1> HIDE DEF code, fields
<1>4. Patch(code, fields)[b] = code[b]
  BY <1>1, <1>2, PatchKeeps
<1>5. QED
  BY <1>2, <1>3, <1>4

\* What a header of a short file says.
LEMMA HeaderFits ==
  ASSUME IInv, Laid, Short, pc = "write", NEW c \in DOMAIN sections, NEW sh, sh = Header(c)
  PROVE  IF NoBits(sections[c])
         THEN /\ sh.size = VirtualSize(sections[c])
              /\ sh.offset = 0 /\ sh.reloff = 0 /\ sh.nreloc = 0
         ELSE /\ LaidAt(c)
              /\ sh.size = sections[c].size /\ sh.offset = lay[c].offset
              /\ sh.nreloc = Len(recs[c])
              /\ Len(recs[c]) > 0 => sh.reloff = lay[c].offset + sections[c].size
<1>1. /\ DOMAIN lay = DOMAIN sections /\ pos \in Nat /\ DataStart \in Nat
  BY Ranges DEF IInv, Shape, TypeOK
<1>2. /\ sh.size = (IF NoBits(sections[c]) THEN VirtualSize(sections[c])
                    ELSE Uint32(sections[c].size))
      /\ sh.offset = Uint32(lay[c].offset) /\ sh.reloff = Uint32(lay[c].reloff)
      /\ sh.nreloc = Uint32(lay[c].nreloc)
  BY DEF Header
<1>3. CASE NoBits(sections[c])
  <2>1. lay[c] = NoPlace
    BY <1>1, <1>3 DEF Laid
  <2>2. Uint32(0) = 0
    BY Uint32Fits
  <2>3. QED
    BY <1>2, <1>3, <2>1, <2>2 DEF NoPlace
<1>4. CASE ~NoBits(sections[c])
  <2>1. LaidAt(c)
    BY <1>1, <1>4 DEF Laid
  <2>2. /\ Len(recs[c]) \in Nat /\ sections[c].size \in Nat /\ lay[c].offset \in Nat
    BY <1>1, PlaceFields
  <2>3. PICK at, size, n, top :
          at = lay[c].offset /\ size = sections[c].size /\ n = Len(recs[c]) /\ top = 2 * Half32
    OBVIOUS
  <2>4. at + size + 8 * n <= pos /\ pos < top /\ top \in Nat
    BY <2>1, <2>3, PositionsFit DEF LaidAt, EndOf
  <2>5. at < top /\ size < top /\ n < top /\ at + size < top /\ at + size \in Nat
    <3>1. at \in Nat /\ size \in Nat /\ n \in Nat
      BY <2>2, <2>3
    <3>2. QED
      BY <1>1, <2>4, <3>1
  <2>6. /\ Uint32(at) = at /\ Uint32(size) = size /\ Uint32(n) = n
        /\ Uint32(at + size) = at + size
    BY <2>2, <2>3, <2>5, Uint32Fits
  <2>7. lay[c].nreloc = n /\ (n > 0 => lay[c].reloff = at + size)
    BY <2>1, <2>3 DEF LaidAt
  <2>8. QED
    BY <1>2, <1>4, <2>1, <2>3, <2>6, <2>7
<1>5. QED
  BY <1>3, <1>4

LEMMA DeliverLaid ==
  ASSUME IInv, Laid, Filled, Short, Deliver
  PROVE  LayoutHonest'
<1>1. /\ pc = "write" /\ i > Len(sections) /\ last'.image = Image /\ last'.input = Input
      /\ last'.status = "built"
  BY DEF Deliver, Return
<1>2. /\ img' = Image /\ added' = sections /\ arch' = opts.arch /\ Built'
      /\ last'.input.opts = opts
  BY <1>1 DEF img, added, arch, Input, Built
<1>3. /\ img'.chunks = Tables.chunks /\ img'.symoff = pos /\ img'.nsyms = Len(syms)
      /\ img'.stroff = StrOff /\ img'.strsize = Len(strtab.data)
      /\ img'.sizeofcmds = SizeOfCmds /\ img'.version = opts.minOS
      /\ img'.ncmds = (IF HasVersion THEN 3 ELSE 2)
      /\ img'.segment.fileoff = DataStart
      /\ img'.shdrs = [n \in DOMAIN sections |-> Header(n)]
  BY <1>1, <1>2, PositionsFit DEF Image
<1>4. /\ \E to : Chained(Tables.chunks, DataStart, to)
      /\ HasChunk(Tables.chunks, pos, 16 * Len(syms), syms)
      /\ HasChunk(Tables.chunks, StrOff, Len(strtab.data), strtab.data)
      /\ \A a, s, b : HasChunk(out.chunks, a, s, b) => HasChunk(Tables.chunks, a, s, b)
  BY <1>1, TablesWritten
<1>5. /\ DOMAIN sections = 1 .. Len(sections) /\ Len(sections) \in Nat /\ i \in Nat
      /\ DOMAIN lay = DOMAIN sections
  BY <1>1, Ranges DEF IInv, Shape, TypeOK
<1>6. /\ Len(img'.shdrs) = Len(sections) /\ \A c \in DOMAIN sections : img'.shdrs[c] = Header(c)
  BY <1>3, <1>5
<1>7. /\ img'.sizeofcmds = 96 + 80 * Len(sections) + 24 * (img'.ncmds - 2)
      /\ img'.ncmds = 3 <=> opts.minOS # "none"
      /\ img'.version = opts.minOS
      /\ img'.segment.fileoff = 32 + img'.sizeofcmds
  BY <1>3, <1>5 DEF SizeOfCmds, HasVersion, DataStart
<1>8. Disjoint(img.chunks, 32 + img.sizeofcmds)'
  <2>1. Disjoint(Tables.chunks, DataStart)
    BY <1>4, ChainDisjoint
  <2>2. 32 + img'.sizeofcmds = DataStart
    BY <1>3 DEF DataStart
  <2>3. QED
    BY <1>3, <2>1, <2>2
<1>9. /\ StartsAt(img.chunks, img.symoff)'
      /\ (Extent(img.symoff, 16 * img.nsyms) # {})'
      /\ (Extent(img.stroff, img.strsize) # {})'
  BY <1>3, <1>4 DEF StartsAt, HasChunk, Extent
<1>10. ASSUME NEW c \in DOMAIN sections, NEW sh, sh = Header(c), NEW s, s = sections[c]
       PROVE  /\ IF NoBits(s)
                 THEN /\ sh.zerofill /\ sh.size = VirtualSize(s)
                      /\ sh.offset = 0 /\ sh.reloff = 0 /\ sh.nreloc = 0
                 ELSE /\ HasChunk(Tables.chunks, sh.offset, s.size, PatchedCode(c))
                      /\ sh.size = s.size
                      /\ sh.offset % 2 ^ sh.align = 0
                      /\ sh.nreloc > 0 => sh.reloff = sh.offset + sh.size
              /\ s.align > 0 => 2 ^ sh.align = s.align
  <2>1. /\ sh.zerofill = NoBits(s) /\ sh.align = Log2(EffectiveAlign(s))
    BY <1>10 DEF Header
  <2>2. IF NoBits(s)
        THEN sh.size = VirtualSize(s) /\ sh.offset = 0 /\ sh.reloff = 0 /\ sh.nreloc = 0
        ELSE /\ LaidAt(c) /\ sh.size = s.size /\ sh.offset = lay[c].offset
             /\ sh.nreloc = Len(recs[c])
             /\ Len(recs[c]) > 0 => sh.reloff = lay[c].offset + s.size
    BY <1>1, <1>10, HeaderFits
  <2>3. ASSUME ~NoBits(s)
        PROVE  /\ HasChunk(Tables.chunks, sh.offset, s.size, PatchedCode(c))
               /\ sh.offset % 2 ^ sh.align = 0
               /\ sh.nreloc > 0 => sh.reloff = sh.offset + sh.size
    <3>1. LaidAt(c) /\ sh.offset = lay[c].offset
      BY <2>2, <2>3
    <3>2. HasChunk(out.chunks, lay[c].offset, sections[c].size, PatchedCode(c))
      BY <1>1, <1>5, <1>10, <2>3 DEF Filled, InFile
    <3>3. HasChunk(Tables.chunks, lay[c].offset, sections[c].size, PatchedCode(c))
      BY <1>4, <3>2
    <3>4. sh.offset % 2 ^ sh.align = 0
      <4>1. lay[c].offset % 2 ^ Log2(EffectiveAlign(sections[c])) = 0
        BY <3>1 DEF LaidAt
      <4>2. QED
        BY <1>10, <2>1, <3>1, <4>1, Zenon
    <3>5. sh.nreloc > 0 => sh.reloff = sh.offset + sh.size
      BY <2>2, <2>3
    <3>6. QED
      BY <1>10, <3>1, <3>3, <3>4, <3>5
  <2>4. s.align > 0 => 2 ^ sh.align = s.align
    <3>1. PICK a : a = EffectiveAlign(sections[c])
      OBVIOUS
    <3>2. /\ a \in Nat /\ a >= 1 /\ 2 ^ Log2(a) = a
          /\ sections[c].align > 0 => a = sections[c].align
      BY <3>1, AlignExponent DEF IInv
    <3>3. QED
      BY <1>10, <2>1, <3>1, <3>2, Zenon
  <2>5. QED
    BY <2>1, <2>2, <2>3, <2>4
<1>11. ASSUME NEW c \in DOMAIN sections, NEW sh, sh = Header(c), ~NoBits(sections[c]),
              NEW b \in 1 .. sections[c].size,
              \A m \in DOMAIN sections[c].relocs :
                LET r == sections[c].relocs[m]
                IN  b \notin r.offset + 1 .. r.offset + RelocDesc(opts.arch, r.kind).width
       PROVE  CodeOf(sh)'[b] = <<"code", c, b>>
  <2>1. PICK chunks, at, size, bytes, from :
          /\ chunks = Tables.chunks /\ at = sh.offset /\ size = sections[c].size
          /\ bytes = PatchedCode(c) /\ from = DataStart
    OBVIOUS
  <2>2. HasChunk(chunks, at, size, bytes) /\ sh.size = size
    BY <1>10, <1>11, <2>1
  <2>3. size \in Nat \ {0}
    <3>1. sections[c].size \in Nat
      BY Ranges, SectionType DEF IInv
    <3>2. QED
      BY <2>1, <3>1
  <2>4. \E to : Chained(chunks, from, to)
    BY <1>4, <2>1
  <2>5. /\ StartsAt(chunks, at)
        /\ DataAt(chunks, at) = bytes
        /\ \A S : S = {n \in DOMAIN chunks : chunks[n].at = at /\ chunks[n].size = size}
                  => S # {} /\ chunks[Max(S)].data = bytes
    BY <2>2, <2>3, <2>4, DataFound
  <2>6. CodeOf(sh)' = bytes
    <3>1. Extent(at, size)' = {n \in DOMAIN chunks : chunks[n].at = at /\ chunks[n].size = size}
      BY <1>3, <2>1 DEF Extent
    <3>2. Contents(at, size)' = bytes
      BY <1>3, <2>1, <2>5, <3>1 DEF Contents
    <3>3. QED
      BY <1>11, <2>1, <2>2, <2>3, <3>2 DEF CodeOf
  <2>7. QED
    BY <1>1, <1>11, <2>1, <2>6, CodeKept
<1>12. ASSUME NEW c \in DOMAIN sections, NEW s, s = sections[c], NEW sh, sh = Header(c)
       PROVE  SectionHonest(s, c, sh)'
  <2>1. /\ IF NoBits(s)
           THEN /\ sh.zerofill /\ sh.size = VirtualSize(s)
                /\ sh.offset = 0 /\ sh.reloff = 0 /\ sh.nreloc = 0
           ELSE /\ HasChunk(Tables.chunks, sh.offset, s.size, PatchedCode(c))
                /\ sh.size = s.size
                /\ sh.offset % 2 ^ sh.align = 0
                /\ sh.nreloc > 0 => sh.reloff = sh.offset + sh.size
        /\ s.align > 0 => 2 ^ sh.align = s.align
    BY <1>10, <1>12
  <2>2. ~NoBits(s) => Extent(sh.offset, s.size)' # {}
    BY <1>3, <2>1 DEF HasChunk, Extent
  <2>3. ASSUME NEW b \in 1 .. s.size, ~NoBits(s),
               \A m \in DOMAIN s.relocs : b \notin Bytes(s.relocs[m])'
        PROVE  CodeOf(sh)'[b] = <<"code", c, b>>
    <3>1. \A m \in DOMAIN s.relocs :
            LET r == s.relocs[m]
            IN  b \notin r.offset + 1 .. r.offset + RelocDesc(opts.arch, r.kind).width
      BY <1>2, <2>3 DEF Bytes, Width
    <3>2. QED
      BY <1>11, <1>12, <2>3, <3>1
  <2>4. QED
    BY <2>1, <2>2, <2>3, Zenon DEF SectionHonest
<1>13. \A c \in DOMAIN added' : SectionHonest(added[c], c, img.shdrs[c])'
  BY <1>2, <1>6, <1>12
<1>14. QED
  BY <1>2, <1>6, <1>7, <1>8, <1>9, <1>13 DEF LayoutHonest

\* Every step but the return of a call leaves the last image alone, and a
\* call that fails leaves none.
LEMMA OtherSteps ==
  ASSUME [Next]_vars
  PROVE  /\ Deliver \/ ~Built' \/ UNCHANGED last
         /\ (Deliver /\ Short) \/ ~(Built /\ FewBytes)' \/ UNCHANGED last
<1>1. CASE KindFails \/ SectionFails \/ RelocFails
  <2>1. last'.status = "failed"
    BY <1>1 DEF KindFails, SectionFails, RelocFails, Fail, Return
  <2>2. QED
    BY <2>1 DEF Built
<1>2. CASE Caller
  BY <1>2 DEF Caller, AddSection, SetMinOS, EnableCodesignReserve, SetOption, WriteTo
<1>3. CASE \/ SectionSymbols \/ DefineSymbol \/ SkipSymbol \/ SymbolsNextSection \/ PassDone
           \/ ExternSymbol \/ ExternsDone
  BY <1>3 DEF SectionSymbols, DefineSymbol, SkipSymbol, SymbolsNextSection, PassDone,
     ExternSymbol, ExternsDone
<1>4. CASE \/ ConvertSection \/ RelocsDone \/ SkipSection \/ PlaceSection \/ LayoutDone
           \/ WriteSection
  BY <1>4 DEF ConvertSection, RelocsDone, SkipSection, PlaceSection, LayoutDone, WriteSection
<1>5. CASE UNCHANGED vars
  BY <1>5 DEF vars
<1>6. CASE Deliver
  <2>1. img'.extent = StrOff + Len(strtab.data)
    BY <1>6 DEF Deliver, Return, img, Image
  <2>2. QED
    BY <1>6, <2>1 DEF FewBytes, Short
<1>7. QED
  BY <1>1, <1>2, <1>3, <1>4, <1>5, <1>6 DEF Next, Build

LEMMA InitReader == Init => ~Built /\ Laid /\ Filled
BY DEF Init, Built, NoCall, Laid, Filled

\* The image and what is read in it stay those of the call that returned last
\* until the next one returns.
LEMMA SameImage ==
  ASSUME UNCHANGED last
  PROVE  /\ Built' = Built /\ FewBytes' = FewBytes
         /\ img' = img /\ added' = added /\ arch' = arch
         /\ \A a, s : Extent(a, s)' = Extent(a, s)
         /\ \A s, c, sh : SectionHonest(s, c, sh)' <=> SectionHonest(s, c, sh)
<1>1. /\ Built' = Built /\ FewBytes' = FewBytes
      /\ img' = img /\ added' = added /\ arch' = arch
  BY DEF Built, FewBytes, img, added, arch
<1>2. \A a, s : Extent(a, s)' = Extent(a, s)
  BY <1>1 DEF Extent
<1>3. \A sh : CodeOf(sh)' = CodeOf(sh)
  BY <1>1, <1>2 DEF CodeOf, Contents
<1>4. \A r : Bytes(r)' = Bytes(r)
  BY <1>1 DEF Bytes, Width
<1>5. \A s, c, sh : SectionHonest(s, c, sh)' <=> SectionHonest(s, c, sh)
  BY <1>2, <1>3, <1>4 DEF SectionHonest
<1>6. QED
  BY <1>1, <1>2, <1>5

\* In every image whose length a uint32 counts, the load commands have the
\* announced size, no two pieces behind them share a byte, each section with
\* bytes is where its header says, at a multiple of its alignment and with its
\* relocation records behind it, the tables are at their offsets, and a byte in
\* no relocated field is the caller's: the positions of the layout loop (build,
\* phase 6) are those at which the serialiser, which counts for itself, writes
\* (phases 7 and 8).
THEOREM SectionsWhereHeadersSay == Spec => []LayoutHonest
<1>1. Init => LayoutHonest
  BY InitReader DEF LayoutHonest
<1>2. IInv /\ Laid /\ Filled /\ LayoutHonest /\ [Next]_vars => LayoutHonest'
  <2> SUFFICES ASSUME IInv, Laid, Filled, LayoutHonest, [Next]_vars
               PROVE  LayoutHonest'
    OBVIOUS
  <2>1. CASE Deliver /\ Short
    BY <2>1, DeliverLaid
  <2>2. CASE ~(Built /\ FewBytes)'
    BY <2>2 DEF LayoutHonest
  <2>3. CASE UNCHANGED last
    <3>1. /\ Built' = Built /\ FewBytes' = FewBytes /\ img' = img /\ added' = added
          /\ last'.input.opts = last.input.opts
      BY <2>3, SameImage
    <3>2. \A s, c, sh : SectionHonest(s, c, sh)' <=> SectionHonest(s, c, sh)
      BY <2>3, SameImage
    <3>3. \A at, size : Extent(at, size)' = Extent(at, size)
      BY <2>3, SameImage
    <3>4. QED
      BY <3>1, <3>2, <3>3 DEF LayoutHonest
  <2>4. QED
    BY <2>1, <2>2, <2>3, OtherSteps
<1>3. QED
  BY Inductive, InitReader, LaidStep, <1>1, <1>2, PTL DEF Spec

-----------------------------------------------------------------------------
(***************************************************************************)
(* The symbol table and the map.  Entered are the definitions the passes   *)
(* have come by, Externs the undefined names entered behind them.  Tabled  *)
(* says which symbol is at which place of the table, Bound that the map    *)
(* holds for a name the last of its definitions entered so far; the passes *)
(* enter them in the order Sooner, so the last is the one meant.           *)
(***************************************************************************)
Passes == {"locals", "globals"}

AtFront(p) == p[1] < i \/ (p[1] = i /\ p[2] < k)

Reached(p) ==
  /\ pc = "locals" => IsLocal(sections, p) /\ AtFront(p)
  /\ pc = "globals" => IsLocal(sections, p) \/ AtFront(p)

Entered == {p \in Definitions(sections) : Reached(p)}
Externs == ExternalSymbols(sections) \cap DOMAIN symDefs

\* Symbol e is that of the definition at p, of the undefined name.
IsFor(e, p) ==
  LET def == SymAt(sections, p)
  IN  /\ ReadsAs(strtab.data, e.strx, Mangled(def.name))
      /\ e.sect = Uint8(p[1]) /\ e.value = def.offset
      /\ e.type = (IF def.binding = "Local" THEN "SECT" ELSE "EXT")
      /\ e.weak <=> def.binding # "Local"
                    /\ (def.binding = "Weak" \/ sections[p[1]].linkOnce)

IsForUndef(e, name) ==
  /\ ReadsAs(strtab.data, e.strx, Mangled(name))
  /\ e.type = "UNDEF" /\ e.sect = 0 /\ ~e.weak

HeadsIn ==
  /\ syms[1] = NullSym
  /\ \A c \in DOMAIN sections : syms[1 + c] = SectionSym(c)

Tabled ==
  pc \notin Before =>
    /\ HeadsIn /\ IsFiniteSet(Entered) /\ IsFiniteSet(Externs)
    /\ Len(syms) = 1 + Len(sections) + Cardinality(Entered) + Cardinality(Externs)
    /\ \A p \in Entered :
         /\ Turn(sections, p) \in 1 .. Cardinality(Entered)
         /\ IsFor(syms[1 + Len(sections) + Turn(sections, p)], p)
    /\ \A name \in Externs :
         /\ UndefTurn(sections, name) \in 1 .. Cardinality(Externs)
         /\ IsForUndef(syms[1 + Len(sections) + Cardinality(Entered)
                              + UndefTurn(sections, name)], name)
    /\ pc \in Passes => Externs = {}
    /\ \A a \in Externs, b \in ExternalSymbols(sections) \ DOMAIN symDefs : Rank(a) < Rank(b)

\* The map's entry for a name is that of the definition at p, of no definition.
Defines(p, name, def) ==
  /\ SymAt(sections, p).name = name
  /\ \A q \in Entered : SymAt(sections, q).name = name => q = p \/ Sooner(sections, q, p)
  /\ def = [index |-> Len(sections) + Turn(sections, p), section |-> p[1],
            local |-> IsLocal(sections, p)]

Undefines(name, def) ==
  /\ name \in Externs
  /\ def = [index |-> Len(sections) + Cardinality(Entered) + UndefTurn(sections, name),
            section |-> 0, local |-> FALSE]

Bound ==
  pc \notin Before => \A name \in DOMAIN symDefs :
    Undefines(name, symDefs[name]) \/ \E p \in Entered : Defines(p, name, symDefs[name])

\* The places of an input.
LEMMA AnyPlace ==
  ASSUME IInv, NEW p \in Definitions(sections)
  PROVE  /\ p = <<p[1], p[2]>> /\ p[1] \in DOMAIN sections
         /\ p[2] \in DOMAIN sections[p[1]].symbols
         /\ p[1] \in 1 .. Len(sections) /\ Len(sections) \in Nat
         /\ p[2] \in 1 .. Len(sections[p[1]].symbols) /\ Len(sections[p[1]].symbols) \in Nat
         /\ SymAt(sections, p) \in Symbol /\ SymAt(sections, p).name # NoName
<1>1. PICK c \in DOMAIN sections : p \in {c} \X DOMAIN sections[c].symbols
  BY DEF Definitions
<1>2. p = <<p[1], p[2]>> /\ p[1] = c /\ p[2] \in DOMAIN sections[c].symbols
  BY <1>1
<1>3. c \in 1 .. Len(sections) /\ Len(sections) \in Nat
  BY Ranges
<1>4. sections[c].symbols \in Seq(Symbol)
  BY <1>3, SectionType DEF IInv
<1>5. /\ p[2] \in 1 .. Len(sections[c].symbols) /\ Len(sections[c].symbols) \in Nat
      /\ sections[c].symbols[p[2]] \in Symbol
  BY <1>2, <1>4
<1>6. SymAt(sections, p).name # NoName
  BY DEF Definitions
<1>7. QED
  BY <1>2, <1>3, <1>5, <1>6 DEF SymAt

LEMMA PlaceOf ==
  ASSUME NEW a \in DOMAIN sections, NEW b \in DOMAIN sections[a].symbols,
         sections[a].symbols[b].name # NoName
  PROVE  /\ <<a, b>> \in Definitions(sections)
         /\ <<a, b>>[1] = a /\ <<a, b>>[2] = b
         /\ SymAt(sections, <<a, b>>) = sections[a].symbols[b]
<1>1. <<a, b>> \in {a} \X DOMAIN sections[a].symbols
  OBVIOUS
<1>2. SymAt(sections, <<a, b>>) = sections[a].symbols[b]
  BY DEF SymAt
<1>3. QED
  BY <1>1, <1>2 DEF Definitions

\* DefineSymbol enters a place that comes behind all those entered before.
LEMMA AtCursor ==
  ASSUME IInv, DefineSymbol, NEW c, c = <<i, k>>
  PROVE  /\ pc \in Passes /\ pc' = pc /\ UNCHANGED sections
         /\ c \in Definitions(sections) /\ c[1] = i /\ c[2] = k
         /\ IsLocal(sections, c) <=> pc = "locals"
         /\ c \notin Entered /\ Entered' = Entered \cup {c}
         /\ \A q \in Definitions(sections) : q \in Entered <=> Sooner(sections, q, c)
<1>1. /\ pc \in Passes /\ pc' = pc /\ i' = i /\ k' = k + 1 /\ UNCHANGED sections
      /\ i <= Len(sections) /\ k <= Len(sections[i].symbols)
      /\ Wanted(sections[i].symbols[k])
  BY DEF DefineSymbol, AtSymbol, file, Passes
<1>2. i \in DOMAIN sections /\ i \in Nat /\ k \in Nat \ {0}
  BY <1>1, Ranges DEF IInv, TypeOK
<1>3. k \in DOMAIN sections[i].symbols
  <2>1. sections[i].symbols \in Seq(Symbol)
    BY <1>2, Ranges, SectionType DEF IInv
  <2>2. QED
    BY <1>1, <1>2, <2>1
<1>4. PICK a, b : /\ a = i /\ b = k /\ a \in DOMAIN sections /\ b \in DOMAIN sections[a].symbols
                  /\ Wanted(sections[a].symbols[b])
  BY <1>1, <1>2, <1>3
<1>5. /\ c = <<a, b>> /\ c \in Definitions(sections) /\ c[1] = a /\ c[2] = b
      /\ SymAt(sections, c) = sections[a].symbols[b]
  BY <1>4, PlaceOf DEF Wanted
<1>6. IsLocal(sections, c) <=> pc = "locals"
  BY <1>4, <1>5 DEF Wanted, IsLocal
<1>7. ASSUME NEW q \in Definitions(sections)
      PROVE  /\ AtFront(q) <=> q[1] < c[1] \/ (q[1] = c[1] /\ q[2] < c[2])
             /\ AtFront(q)' <=> AtFront(q) \/ q = c
  <2>1. AtFront(q) <=> q[1] < c[1] \/ (q[1] = c[1] /\ q[2] < c[2])
    BY <1>4, <1>5 DEF AtFront
  <2>2. AtFront(q)' <=> q[1] < a \/ (q[1] = a /\ q[2] < b + 1)
    BY <1>1, <1>4 DEF AtFront
  <2>3. q = <<q[1], q[2]>> /\ q[1] \in Nat /\ q[2] \in Nat /\ a \in Nat /\ b \in Nat
    BY <1>2, <1>4, AnyPlace
  <2>4. q = c <=> q[1] = a /\ q[2] = b
    BY <1>5, <2>3
  <2>5. q[2] < b + 1 <=> q[2] < b \/ q[2] = b
    BY <2>3
  <2>6. QED
    BY <1>5, <2>1, <2>2, <2>4, <2>5
<1>8. ASSUME NEW q \in Definitions(sections)
      PROVE  /\ Reached(q) <=> Sooner(sections, q, c)
             /\ Reached(q)' <=> Reached(q) \/ q = c
  <2>1. CASE pc = "locals"
    <3>1. Reached(q) <=> IsLocal(sections, q) /\ AtFront(q)
      BY <2>1 DEF Reached
    <3>2. Reached(q)' <=> IsLocal(sections, q) /\ AtFront(q)'
      BY <1>1, <2>1 DEF Reached
    <3>3. q = c => IsLocal(sections, q)
      BY <1>6, <2>1
    <3>4. QED
      BY <1>6, <1>7, <2>1, <3>1, <3>2, <3>3, Zenon DEF Sooner
  <2>2. CASE pc = "globals"
    <3>1. Reached(q) <=> IsLocal(sections, q) \/ AtFront(q)
      BY <2>2 DEF Reached
    <3>2. Reached(q)' <=> IsLocal(sections, q) \/ AtFront(q)'
      BY <1>1, <2>2 DEF Reached
    <3>3. ~IsLocal(sections, c)
      BY <1>6, <2>2
    <3>4. QED
      BY <1>7, <3>1, <3>2, <3>3, Zenon DEF Sooner
  <2>3. QED
    BY <1>1, <2>1, <2>2 DEF Passes
<1>9. ~Sooner(sections, c, c)
  BY <1>2, <1>4, <1>5 DEF Sooner
<1>10. Definitions(sections)' = Definitions(sections)
  BY <1>1
<1>11. Entered' = Entered \cup {c}
  BY <1>5, <1>8, <1>10 DEF Entered
<1>12. c \notin Entered
  BY <1>5, <1>8, <1>9 DEF Entered
<1>13. \A q \in Definitions(sections) : q \in Entered <=> Sooner(sections, q, c)
  BY <1>8 DEF Entered
<1>14. QED
  BY <1>1, <1>4, <1>5, <1>6, <1>11, <1>12, <1>13

\* The other steps of the passes enter nothing.
LEMMA EnteredKeeps ==
  ASSUME IInv, SkipSymbol \/ SymbolsNextSection \/ PassDone
  PROVE  Entered' = Entered
<1> USE DEF file, tables
<1>1. pc \in Passes /\ UNCHANGED sections
  BY DEF SkipSymbol, AtSymbol, SymbolsNextSection, PassDone, Passes
<1> SUFFICES ASSUME NEW p \in Definitions(sections) PROVE Reached(p)' <=> Reached(p)
  BY <1>1 DEF Entered
<1>2. /\ p = <<p[1], p[2]>> /\ p[1] \in 1 .. Len(sections) /\ Len(sections) \in Nat
      /\ p[2] \in 1 .. Len(sections[p[1]].symbols) /\ Len(sections[p[1]].symbols) \in Nat
      /\ SymAt(sections, p).name # NoName /\ i \in Nat /\ k \in Nat
  BY AnyPlace DEF IInv, TypeOK
<1>3. CASE SkipSymbol
  <2>1. pc' = pc /\ i' = i /\ k' = k + 1 /\ ~Wanted(sections[i].symbols[k])
    BY <1>3 DEF SkipSymbol
  <2>2. CASE p[1] = i /\ p[2] = k
    <3>1. ~(IsLocal(sections, p) <=> pc = "locals")
      BY <1>2, <2>1, <2>2 DEF Wanted, SymAt, IsLocal
    <3>2. QED
      BY <1>1, <2>1, <3>1 DEF Reached, Passes
  <2>3. CASE ~(p[1] = i /\ p[2] = k)
    <3>1. AtFront(p)' <=> AtFront(p)
      BY <1>2, <2>1, <2>3 DEF AtFront
    <3>2. QED
      BY <1>1, <2>1, <3>1 DEF Reached
  <2>4. QED
    BY <2>2, <2>3
<1>4. CASE SymbolsNextSection
  <2>1. pc' = pc /\ i' = i + 1 /\ k' = 1 /\ k > Len(sections[i].symbols)
    BY <1>4 DEF SymbolsNextSection, NextSection
  <2>2. p[1] = i => p[2] < k
    BY <1>2, <2>1
  <2>3. AtFront(p)' <=> AtFront(p)
    BY <1>2, <2>1, <2>2 DEF AtFront
  <2>4. QED
    BY <1>1, <2>1, <2>3 DEF Reached
<1>5. CASE PassDone
  <2>1. /\ pc' = (IF pc = "locals" THEN "globals" ELSE "externs")
        /\ i' = 1 /\ k' = 1 /\ i > Len(sections)
    BY <1>5 DEF PassDone, Goto
  <2>2. AtFront(p) /\ ~AtFront(p)'
    BY <1>2, <2>1 DEF AtFront
  <2>3. QED
    BY <1>1, <2>1, <2>2 DEF Reached, Passes
<1>6. QED
  BY <1>3, <1>4, <1>5

\* sort.Strings puts the undefined names of any file in one order.
LEMMA Ranked ==
  ASSUME IInv
  PROVE  \A a, b \in ExternalSymbols(sections) :
           a \in Name /\ Rank(a) \in Nat /\ (Rank(a) = Rank(b) => a = b)
<1>1. ASSUME NEW name \in ExternalSymbols(sections)
      PROVE  name \in Name /\ name \in UNION {ReferencedNames(<<s>>) : s \in Sections}
  <2>1. PICK n \in DOMAIN sections : \E m \in DOMAIN sections[n].relocs :
          name = sections[n].relocs[m].symbol
    BY DEF ExternalSymbols, ReferencedNames
  <2>2. PICK m \in DOMAIN sections[n].relocs : name = sections[n].relocs[m].symbol
    BY <2>1
  <2>3. sections[n].relocs \in Seq(Reloc)
    BY Ranges, SectionType DEF IInv
  <2>4. sections[n].relocs[m] \in Reloc
    BY <2>3
  <2>5. name \in Name
    BY <2>2, <2>4 DEF Reloc
  <2>6. PICK s \in Sections : s = sections[n]
    BY DEF IInv, TypeOK
  <2>7. name \in ReferencedNames(<<s>>)
    <3>1. DOMAIN <<s>> = {1} /\ <<s>>[1] = s
      OBVIOUS
    <3>2. name \in {<<s>>[1].relocs[q].symbol : q \in DOMAIN <<s>>[1].relocs}
      BY <2>2, <2>6, <3>1
    <3>3. QED
      BY <3>1, <3>2 DEF ReferencedNames
  <2>8. QED
    BY <2>5, <2>7
<1>2. QED
  BY <1>1, RankAssumption

\* What a symbol added at the end leaves alone.
LEMMA EnterKeeps ==
  ASSUME IInv, HeadsIn, pc \notin Before, UNCHANGED sections, NEW name \in Name, NEW e, NEW def,
         syms' = Append(syms, e), symDefs' = Put(symDefs, name, def),
         strtab' = Intern(strtab, Mangled(name))
  PROVE  /\ HeadsIn'
         /\ Len(syms) \in Nat /\ Len(syms') = Len(syms) + 1
         /\ \A n \in 1 .. Len(syms) : syms'[n] = syms[n] /\ syms[n] \in Symbols
         /\ syms'[Len(syms) + 1] = e
         /\ DOMAIN symDefs' = DOMAIN symDefs \cup {name} /\ symDefs'[name] = def
         /\ \A other \in DOMAIN symDefs : other # name => symDefs'[other] = symDefs[other]
         /\ ReadsAs(strtab'.data, OffsetOf(strtab, Mangled(name)), Mangled(name))
         /\ \A x \in Symbols : \A p \in Definitions(sections) : IsFor(x, p) => IsFor(x, p)'
         /\ \A x \in Symbols : \A other \in Name : IsForUndef(x, other) => IsForUndef(x, other)'
<1>1. syms \in Seq(Symbols) /\ Len(syms) \in Nat /\ Len(sections) < Len(syms)
  BY DEF IInv, TypeOK, Shape
<1>2. /\ Len(syms') = Len(syms) + 1
      /\ \A n \in 1 .. Len(syms) : syms'[n] = syms[n] /\ syms[n] \in Symbols
      /\ syms'[Len(syms) + 1] = e
  BY <1>1
<1>3. HeadsIn'
  <2>1. 1 \in 1 .. Len(syms) /\ \A c \in DOMAIN sections : 1 + c \in 1 .. Len(syms)
    BY <1>1, Ranges
  <2>2. QED
    BY <1>2, <2>1 DEF HeadsIn
<1>4. /\ DOMAIN symDefs' = DOMAIN symDefs \cup {name} /\ symDefs'[name] = def
      /\ \A other \in DOMAIN symDefs : other # name => symDefs'[other] = symDefs[other]
  BY DEF Put
<1>5. /\ StrTabOK(strtab')
      /\ Extends(strtab'.data, strtab.data)
      /\ ReadsAs(strtab'.data, OffsetOf(strtab, Mangled(name)), Mangled(name))
  BY MangledType, InternLemma DEF IInv, TypeOK
<1>6. strtab.data \in Seq(Char \cup {NUL}) /\ strtab'.data \in Seq(Char \cup {NUL})
  BY <1>5 DEF IInv, TypeOK, StrTabOK, Consistent
<1>7. ASSUME NEW other \in Name, NEW x \in Symbols,
             ReadsAs(strtab.data, x.strx, Mangled(other))
      PROVE  ReadsAs(strtab'.data, x.strx, Mangled(other))
  <2>1. x.strx \in Nat /\ Mangled(other) \in Name
    BY MangledType DEF Symbols
  <2>2. QED
    BY <1>5, <1>6, <1>7, <2>1, ReadsAsExtends
<1>8. ASSUME NEW x \in Symbols, NEW p \in Definitions(sections), IsFor(x, p) PROVE IsFor(x, p)'
  <2>1. SymAt(sections, p).name \in Name
    BY AnyPlace DEF Symbol
  <2>2. ReadsAs(strtab'.data, x.strx, Mangled(SymAt(sections, p).name))
    BY <1>7, <1>8, <2>1 DEF IsFor
  <2>3. QED
    BY <1>8, <2>2 DEF IsFor
<1>9. ASSUME NEW x \in Symbols, NEW other \in Name, IsForUndef(x, other)
      PROVE  IsForUndef(x, other)'
  BY <1>7, <1>9 DEF IsForUndef
<1>10. QED
  BY <1>1, <1>2, <1>3, <1>4, <1>5, <1>8, <1>9

\* A pass enters one more definition: its symbol is the last, for the passes
\* run before any undefined name is entered, and comes behind all the others.
LEMMA DefineTabled ==
  ASSUME IInv, Tabled, Bound, DefineSymbol PROVE Tabled' /\ Bound'
<1>1. PICK c, ss, E : c = <<i, k>> /\ ss = sections /\ E = Entered
  OBVIOUS
<1>2. /\ pc \in Passes /\ pc' = pc /\ sections' = ss
      /\ c \in Definitions(ss) /\ c[1] = i /\ c[2] = k
      /\ IsLocal(ss, c) <=> pc = "locals"
      /\ c \notin E /\ Entered' = E \cup {c}
      /\ \A q \in Definitions(ss) : q \in E <=> Sooner(ss, q, c)
  BY <1>1, AtCursor
<1>3. pc \notin Before /\ pc' \notin Before
  BY <1>2 DEF Passes, Before
<1>4. PICK def : def = SymAt(ss, c)
  OBVIOUS
<1>5. PICK e, entry, name :
        /\ name = def.name /\ e.strx = OffsetOf(strtab, Mangled(name))
        /\ e.sect = Uint8(c[1]) /\ e.value = def.offset
        /\ e.type = (IF def.binding = "Local" THEN "SECT" ELSE "EXT")
        /\ e.weak <=> def.binding # "Local" /\ (def.binding = "Weak" \/ ss[c[1]].linkOnce)
        /\ entry = [index |-> Len(syms), section |-> c[1], local |-> IsLocal(ss, c)]
        /\ syms' = Append(syms, e) /\ symDefs' = Put(symDefs, name, entry)
        /\ strtab' = Intern(strtab, Mangled(name))
  <2> DEFINE sym   == sections[i].symbols[k]
             local == pc = "locals"
             weak  == ~local /\ (sym.binding = "Weak" \/ sections[i].linkOnce)
             x     == Sym(sym.name, IF local THEN "SECT" ELSE "EXT", Uint8(i), weak, sym.offset)
  <2>1. sym = def /\ (local <=> def.binding = "Local")
    BY <1>1, <1>2, <1>4 DEF SymAt, IsLocal
  <2>2. /\ x.strx = OffsetOf(strtab, Mangled(def.name))
        /\ x.sect = Uint8(c[1]) /\ x.value = def.offset
        /\ x.type = (IF def.binding = "Local" THEN "SECT" ELSE "EXT")
        /\ x.weak <=> def.binding # "Local" /\ (def.binding = "Weak" \/ ss[c[1]].linkOnce)
    BY <1>1, <1>2, <2>1 DEF Sym
  <2>3. Enter(sym.name, x, i, local)
    BY DEF DefineSymbol
  <2> HIDE DEF x
  <2>4. IsLocal(ss, c) = local
    BY <1>2 DEF IsLocal
  <2>5. /\ syms' = Append(syms, x) /\ strtab' = Intern(strtab, Mangled(def.name))
        /\ symDefs' = Put(symDefs, def.name,
                          [index |-> Len(syms), section |-> c[1], local |-> IsLocal(ss, c)])
    BY <1>2, <2>1, <2>3, <2>4 DEF Enter
  <2>6. QED
    BY <2>2, <2>5
<1>6. name \in Name /\ def.name # NoName
  BY <1>1, <1>2, <1>4, <1>5, AnyPlace DEF Symbol
<1>7. /\ HeadsIn /\ IsFiniteSet(E) /\ Externs = {}
      /\ Len(syms) = 1 + Len(ss) + Cardinality(E) + Cardinality(Externs)
      /\ \A p \in E : /\ Turn(ss, p) \in 1 .. Cardinality(E)
                      /\ IsFor(syms[1 + Len(ss) + Turn(ss, p)], p)
  BY <1>1, <1>2, <1>3 DEF Tabled
<1>8. /\ Cardinality(E) \in Nat /\ Len(ss) \in Nat /\ Len(syms) = 1 + Len(ss) + Cardinality(E)
      /\ E \subseteq Definitions(ss)
  <2>1. Cardinality(E) \in Nat /\ Cardinality({}) = 0
    BY <1>7, FS_CardinalityType, FS_EmptySet
  <2>2. Len(ss) \in Nat /\ E \subseteq Definitions(ss)
    BY <1>1, Ranges DEF Entered
  <2>3. QED
    BY <1>7, <2>1, <2>2
<1>9. /\ HeadsIn'
      /\ Len(syms) \in Nat /\ Len(syms') = Len(syms) + 1
      /\ \A n \in 1 .. Len(syms) : syms'[n] = syms[n] /\ syms[n] \in Symbols
      /\ syms'[Len(syms) + 1] = e
      /\ DOMAIN symDefs' = DOMAIN symDefs \cup {name} /\ symDefs'[name] = entry
      /\ \A other \in DOMAIN symDefs : other # name => symDefs'[other] = symDefs[other]
      /\ ReadsAs(strtab'.data, OffsetOf(strtab, Mangled(name)), Mangled(name))
      /\ \A x \in Symbols : \A p \in Definitions(sections) : IsFor(x, p) => IsFor(x, p)'
  <2>1. HeadsIn /\ pc \notin Before /\ UNCHANGED sections /\ name \in Name
    BY <1>1, <1>2, <1>3, <1>6, <1>7
  <2>2. /\ syms' = Append(syms, e) /\ symDefs' = Put(symDefs, name, entry)
        /\ strtab' = Intern(strtab, Mangled(name))
    BY <1>5
  <2>3. QED
    BY <2>1, <2>2, EnterKeeps, Zenon
<1>10. /\ IsFiniteSet(E \cup {c}) /\ Cardinality(E \cup {c}) = Cardinality(E) + 1
       /\ Turn(ss, c) = Cardinality(E) + 1
  <2>1. IsFiniteSet(E \cup {c}) /\ Cardinality(E \cup {c}) = Cardinality(E) + 1
    BY <1>2, <1>7, FS_AddElement
  <2>2. {q \in Definitions(ss) : q = c \/ Sooner(ss, q, c)} = E \cup {c}
    BY <1>2, <1>8
  <2>3. QED
    BY <2>1, <2>2 DEF Turn
<1>11. Externs' = {}
  <2>1. name \in DefinedNames(ss)
    <3>1. PICK n, m : n = c[1] /\ m = c[2] /\ n \in DOMAIN ss /\ m \in DOMAIN ss[n].symbols
      BY <1>1, <1>2, AnyPlace
    <3>2. name = ss[n].symbols[m].name
      BY <1>4, <1>5, <3>1 DEF SymAt
    <3>3. QED
      BY <3>1, <3>2 DEF DefinedNames
  <2>2. QED
    BY <1>1, <1>2, <1>7, <1>9, <2>1 DEF Externs, ExternalSymbols
<1>12. ASSUME NEW p \in E \cup {c}
       PROVE  /\ Turn(ss, p) \in 1 .. Cardinality(E) + 1
              /\ \E x : x = syms'[1 + Len(ss) + Turn(ss, p)] /\ IsFor(x, p)'
  <2>1. CASE p \in E
    <3>1. PICK n, x : n = 1 + Len(ss) + Turn(ss, p) /\ x = syms[n]
      OBVIOUS
    <3>2. Turn(ss, p) \in 1 .. Cardinality(E) /\ IsFor(x, p)
      BY <1>7, <2>1, <3>1
    <3>3. n \in 1 .. Len(syms) /\ Turn(ss, p) \in 1 .. Cardinality(E) + 1
      BY <1>8, <3>1, <3>2
    <3>4. x \in Symbols /\ syms'[n] = x /\ p \in Definitions(sections)
      BY <1>1, <1>8, <1>9, <2>1, <3>1, <3>3
    <3>5. IsFor(x, p)'
      BY <1>9, <3>2, <3>4
    <3>6. QED
      BY <3>1, <3>3, <3>4, <3>5
  <2>2. CASE p = c
    <3>1. 1 + Len(ss) + Turn(ss, p) = Len(syms) + 1 /\ Turn(ss, p) \in 1 .. Cardinality(E) + 1
      BY <1>8, <1>10, <2>2
    <3>2. IsFor(e, p)'
      BY <1>2, <1>4, <1>5, <1>9, <2>2 DEF IsFor
    <3>3. QED
      BY <1>9, <3>1, <3>2
  <2>3. QED
    BY <2>1, <2>2
<1>13. Tabled'
  <2>1. Len(syms') = 1 + Len(ss) + (Cardinality(E) + 1) + 0 /\ Cardinality({}) = 0
    BY <1>8, <1>9, FS_EmptySet
  <2>2. \A p \in Entered' : IsFor(syms[1 + Len(sections) + Turn(sections, p)], p)'
    <3> SUFFICES ASSUME NEW p \in E \cup {c}
                 PROVE  IsFor(syms[1 + Len(sections) + Turn(sections, p)], p)'
      BY <1>2
    <3>1. PICK x : x = syms'[1 + Len(ss) + Turn(ss, p)] /\ IsFor(x, p)'
      BY <1>12
    <3>2. QED
      BY <1>2, <3>1
  <2>3. IsFiniteSet(Externs')
    BY <1>11, FS_EmptySet
  <2>4. QED
    BY <1>2, <1>9, <1>10, <1>11, <1>12, <2>1, <2>2, <2>3 DEF Tabled
<1>14. ASSUME NEW other \in DOMAIN symDefs', NEW d, d = symDefs'[other]
       PROVE  \E p \in Entered' : Defines(p, other, d)'
  <2>1. CASE other = name
    <3>1. d = [index |-> Len(ss) + Turn(ss, c), section |-> c[1], local |-> IsLocal(ss, c)]
      BY <1>5, <1>8, <1>9, <1>10, <1>14, <2>1
    <3>2. \A q \in E \cup {c} : q = c \/ Sooner(ss, q, c)
      BY <1>2, <1>8
    <3>3. Defines(c, other, d)'
      BY <1>2, <1>4, <1>5, <2>1, <3>1, <3>2 DEF Defines
    <3>4. QED
      BY <1>2, <3>3
  <2>2. CASE other # name
    <3>1. other \in DOMAIN symDefs /\ d = symDefs[other]
      BY <1>9, <1>14, <2>2
    <3>2. PICK p \in E : Defines(p, other, d)
      BY <1>1, <1>3, <1>7, <3>1 DEF Bound, Undefines
    <3>3. \A q \in E \cup {c} : SymAt(ss, q).name = other => q = p \/ Sooner(ss, q, p)
      BY <1>1, <1>4, <1>5, <2>2, <3>2 DEF Defines
    <3>4. Defines(p, other, d)'
      BY <1>1, <1>2, <3>2, <3>3 DEF Defines
    <3>5. QED
      BY <1>2, <3>2, <3>4
  <2>3. QED
    BY <2>1, <2>2
<1>15. Bound'
  <2> SUFFICES ASSUME NEW other \in DOMAIN symDefs'
               PROVE  \E p \in Entered' : Defines(p, other, symDefs[other])'
    BY DEF Bound
  <2>1. PICK d : d = symDefs'[other]
    OBVIOUS
  <2>2. PICK p \in Entered' : Defines(p, other, d)'
    BY <1>14, <2>1
  <2>3. QED
    BY <2>1, <2>2
<1>16. QED
  BY <1>13, <1>15

\* An undefined name is entered behind all definitions and all undefined names
\* before it in the order of sort.Strings.
LEMMA ExternTabled ==
  ASSUME IInv, Tabled, Bound, ExternSymbol PROVE Tabled' /\ Bound'
<1>1. PICK ss, E, X : ss = sections /\ E = Entered /\ X = Externs
  OBVIOUS
<1>2. /\ pc = "externs" /\ pc' = pc /\ i' = i /\ k' = k /\ sections' = ss
      /\ pc \notin Before /\ pc' \notin Before /\ pc' \notin Passes
  BY <1>1 DEF ExternSymbol, file, Before, Passes
<1>3. Entered' = E /\ E \subseteq Definitions(ss)
  <2>1. ASSUME NEW p PROVE Reached(p)' <=> Reached(p)
    BY <1>1, <1>2 DEF Reached, AtFront
  <2>2. Definitions(sections)' = Definitions(sections)
    BY <1>1, <1>2
  <2>3. QED
    BY <1>1, <2>1, <2>2 DEF Entered
<1>4. PICK name, e, entry :
        /\ name \in ExternalSymbols(ss) \ DOMAIN symDefs
        /\ \A other \in ExternalSymbols(ss) \ DOMAIN symDefs : Rank(name) <= Rank(other)
        /\ e = Sym(name, "UNDEF", 0, FALSE, 0)
        /\ entry = [index |-> Len(syms), section |-> 0, local |-> FALSE]
        /\ syms' = Append(syms, e) /\ symDefs' = Put(symDefs, name, entry)
        /\ strtab' = Intern(strtab, Mangled(name))
  BY <1>1 DEF ExternSymbol, Enter
<1>5. /\ name \in Name /\ name \notin X /\ X \subseteq ExternalSymbols(ss)
      /\ \A a, b \in ExternalSymbols(ss) : Rank(a) \in Nat /\ (Rank(a) = Rank(b) => a = b)
  BY <1>1, <1>4, Ranked DEF Externs
<1>6. /\ HeadsIn /\ IsFiniteSet(E) /\ IsFiniteSet(X)
      /\ Len(syms) = 1 + Len(ss) + Cardinality(E) + Cardinality(X)
      /\ \A p \in E : /\ Turn(ss, p) \in 1 .. Cardinality(E)
                      /\ IsFor(syms[1 + Len(ss) + Turn(ss, p)], p)
      /\ \A other \in X :
           /\ UndefTurn(ss, other) \in 1 .. Cardinality(X)
           /\ IsForUndef(syms[1 + Len(ss) + Cardinality(E) + UndefTurn(ss, other)], other)
      /\ \A a \in X, b \in ExternalSymbols(ss) \ DOMAIN symDefs : Rank(a) < Rank(b)
  BY <1>1, <1>2 DEF Tabled
<1>7. Cardinality(E) \in Nat /\ Cardinality(X) \in Nat /\ Len(ss) \in Nat
  BY <1>1, <1>6, FS_CardinalityType, Ranges
<1>8. /\ HeadsIn'
      /\ Len(syms) \in Nat /\ Len(syms') = Len(syms) + 1
      /\ \A n \in 1 .. Len(syms) : syms'[n] = syms[n] /\ syms[n] \in Symbols
      /\ syms'[Len(syms) + 1] = e
      /\ DOMAIN symDefs' = DOMAIN symDefs \cup {name} /\ symDefs'[name] = entry
      /\ \A other \in DOMAIN symDefs : other # name => symDefs'[other] = symDefs[other]
      /\ ReadsAs(strtab'.data, OffsetOf(strtab, Mangled(name)), Mangled(name))
      /\ \A x \in Symbols : \A p \in Definitions(sections) : IsFor(x, p) => IsFor(x, p)'
      /\ \A x \in Symbols : \A other \in Name : IsForUndef(x, other) => IsForUndef(x, other)'
  <2>1. HeadsIn /\ pc \notin Before /\ UNCHANGED sections /\ name \in Name
    BY <1>1, <1>2, <1>5, <1>6
  <2>2. /\ syms' = Append(syms, e) /\ symDefs' = Put(symDefs, name, entry)
        /\ strtab' = Intern(strtab, Mangled(name))
    BY <1>4
  <2>3. QED
    BY <2>1, <2>2, EnterKeeps, Zenon
<1>9. Externs' = X \cup {name}
  BY <1>1, <1>2, <1>4, <1>8 DEF Externs
<1>10. /\ IsFiniteSet(X \cup {name}) /\ Cardinality(X \cup {name}) = Cardinality(X) + 1
       /\ UndefTurn(ss, name) = Cardinality(X) + 1
  <2>1. IsFiniteSet(X \cup {name}) /\ Cardinality(X \cup {name}) = Cardinality(X) + 1
    BY <1>5, <1>6, FS_AddElement
  <2>2. ASSUME NEW u \in ExternalSymbols(ss)
        PROVE  Rank(u) <= Rank(name) <=> u \in X \cup {name}
    <3>1. u \in X <=> u \in DOMAIN symDefs
      BY <1>1 DEF Externs
    <3>2. CASE u \in X
      BY <1>4, <1>5, <1>6, <3>2
    <3>3. CASE u \notin X
      BY <1>4, <1>5, <3>1, <3>3
    <3>4. QED
      BY <3>2, <3>3
  <2>3. {u \in ExternalSymbols(ss) : Rank(u) <= Rank(name)} = X \cup {name}
    BY <1>4, <1>5, <2>2
  <2>4. QED
    BY <2>1, <2>3 DEF UndefTurn
<1>11. ASSUME NEW p \in E
       PROVE  \E x : x = syms'[1 + Len(ss) + Turn(ss, p)] /\ IsFor(x, p)'
  <2>1. PICK n, x : n = 1 + Len(ss) + Turn(ss, p) /\ x = syms[n]
    OBVIOUS
  <2>2. Turn(ss, p) \in 1 .. Cardinality(E) /\ IsFor(x, p)
    BY <1>6, <2>1
  <2>3. n \in 1 .. Len(syms)
    BY <1>6, <1>7, <2>1, <2>2
  <2>4. x \in Symbols /\ syms'[n] = x /\ p \in Definitions(sections)
    BY <1>1, <1>3, <1>8, <2>1, <2>3
  <2>5. QED
    BY <1>8, <2>1, <2>2, <2>4
<1>12. ASSUME NEW other \in X \cup {name}
       PROVE  /\ UndefTurn(ss, other) \in 1 .. Cardinality(X) + 1
              /\ \E x : /\ x = syms'[1 + Len(ss) + Cardinality(E) + UndefTurn(ss, other)]
                        /\ IsForUndef(x, other)'
  <2>1. CASE other \in X
    <3>1. PICK n, x : n = 1 + Len(ss) + Cardinality(E) + UndefTurn(ss, other) /\ x = syms[n]
      OBVIOUS
    <3>2. UndefTurn(ss, other) \in 1 .. Cardinality(X) /\ IsForUndef(x, other)
      BY <1>6, <2>1, <3>1
    <3>3. n \in 1 .. Len(syms) /\ UndefTurn(ss, other) \in 1 .. Cardinality(X) + 1
      BY <1>6, <1>7, <3>1, <3>2
    <3>4. x \in Symbols /\ syms'[n] = x /\ other \in Name
      BY <1>1, <1>5, <1>8, <2>1, <3>1, <3>3, Ranked
    <3>5. QED
      BY <1>8, <3>1, <3>2, <3>3, <3>4
  <2>2. CASE other = name
    <3>1. /\ 1 + Len(ss) + Cardinality(E) + UndefTurn(ss, other) = Len(syms) + 1
          /\ UndefTurn(ss, other) \in 1 .. Cardinality(X) + 1
      BY <1>6, <1>7, <1>10, <2>2
    <3>2. /\ e.strx = OffsetOf(strtab, Mangled(name))
          /\ e.type = "UNDEF" /\ e.sect = 0 /\ ~e.weak
      BY <1>4 DEF Sym
    <3>3. IsForUndef(e, name)'
      BY <1>8, <3>2 DEF IsForUndef
    <3>4. QED
      BY <1>8, <2>2, <3>1, <3>3
  <2>3. QED
    BY <2>1, <2>2
<1>13. Tabled'
  <2>1. Len(syms') = 1 + Len(ss) + Cardinality(E) + (Cardinality(X) + 1)
    BY <1>6, <1>7, <1>8
  <2>2. \A p \in Entered' : IsFor(syms[1 + Len(sections) + Turn(sections, p)], p)'
    <3> SUFFICES ASSUME NEW p \in E
                 PROVE  IsFor(syms[1 + Len(sections) + Turn(sections, p)], p)'
      BY <1>3
    <3>1. PICK x : x = syms'[1 + Len(ss) + Turn(ss, p)] /\ IsFor(x, p)'
      BY <1>11
    <3>2. QED
      BY <1>2, <3>1
  <2>3. \A other \in Externs' :
          IsForUndef(syms[1 + Len(sections) + Cardinality(Entered)
                            + UndefTurn(sections, other)], other)'
    <3> SUFFICES ASSUME NEW other \in X \cup {name}
                 PROVE  IsForUndef(syms[1 + Len(sections) + Cardinality(Entered)
                                          + UndefTurn(sections, other)], other)'
      BY <1>9
    <3>1. PICK x : /\ x = syms'[1 + Len(ss) + Cardinality(E) + UndefTurn(ss, other)]
                   /\ IsForUndef(x, other)'
      BY <1>12
    <3>2. QED
      BY <1>2, <1>3, <3>1
  <2>4. \A a \in X \cup {name}, b \in ExternalSymbols(ss) \ DOMAIN symDefs' : Rank(a) < Rank(b)
    <3> SUFFICES ASSUME NEW a \in X \cup {name}, NEW b \in ExternalSymbols(ss) \ DOMAIN symDefs'
                 PROVE  Rank(a) < Rank(b)
      OBVIOUS
    <3>1. b \in ExternalSymbols(ss) \ DOMAIN symDefs /\ b # name
      BY <1>8
    <3>2. CASE a \in X
      BY <1>6, <3>1, <3>2
    <3>3. CASE a = name
      BY <1>4, <1>5, <3>1, <3>3
    <3>4. QED
      BY <3>2, <3>3
  <2>5. QED
    BY <1>2, <1>3, <1>6, <1>8, <1>9, <1>10, <1>12, <2>1, <2>2, <2>3, <2>4 DEF Tabled
<1>14. ASSUME NEW other \in DOMAIN symDefs', NEW d, d = symDefs'[other]
       PROVE  Undefines(other, d)' \/ \E p \in Entered' : Defines(p, other, d)'
  <2>1. CASE other = name
    <3>0. Len(syms) = Len(ss) + Cardinality(E) + UndefTurn(ss, other)
      BY <1>6, <1>7, <1>10, <2>1
    <3>1. d = [index |-> Len(ss) + Cardinality(E) + UndefTurn(ss, other), section |-> 0,
               local |-> FALSE]
      BY <1>4, <1>8, <1>14, <2>1, <3>0
    <3>2. QED
      BY <1>2, <1>3, <1>9, <2>1, <3>1 DEF Undefines
  <2>2. CASE other # name
    <3>1. other \in DOMAIN symDefs /\ d = symDefs[other]
      BY <1>8, <1>14, <2>2
    <3>2. CASE Undefines(other, d)
      BY <1>1, <1>2, <1>3, <1>9, <3>2 DEF Undefines
    <3>3. CASE \E p \in E : Defines(p, other, d)
      BY <1>1, <1>2, <1>3, <3>3 DEF Defines
    <3>4. QED
      BY <1>1, <1>2, <3>1, <3>2, <3>3 DEF Bound
  <2>3. QED
    BY <2>1, <2>2
<1>15. Bound'
  BY <1>14 DEF Bound
<1>16. QED
  BY <1>13, <1>15

\* The other steps leave the table and the map alone, or start them.
LEMMA KeepTabled ==
  ASSUME Tabled, Bound, pc \notin Before, pc' \in Passes => pc \in Passes, Entered' = Entered,
         UNCHANGED <<sections, strtab, symDefs, syms>>
  PROVE  Tabled' /\ Bound'
<1>1. /\ sections' = sections /\ strtab' = strtab /\ symDefs' = symDefs /\ syms' = syms
      /\ HeadsIn' = HeadsIn /\ Externs' = Externs
  BY DEF HeadsIn, Externs
<1>2. \A p, n : IsFor(syms[n], p) => IsFor(syms[n], p)'
  BY <1>1 DEF IsFor
<1>3. \A name, n : IsForUndef(syms[n], name) => IsForUndef(syms[n], name)'
  BY <1>1 DEF IsForUndef
<1>4. Tabled'
  <2>1. \A p \in Entered' : IsFor(syms[1 + Len(sections) + Turn(sections, p)], p)'
    <3> SUFFICES ASSUME NEW p \in Entered
                 PROVE  IsFor(syms[1 + Len(sections) + Turn(sections, p)], p)'
      OBVIOUS
    <3>1. PICK n : n = 1 + Len(sections) + Turn(sections, p)
      OBVIOUS
    <3>2. IsFor(syms[n], p)
      BY <3>1 DEF Tabled
    <3>3. IsFor(syms[n], p)'
      BY <1>2, <3>2
    <3>4. QED
      BY <1>1, <3>1, <3>3 DEF IsFor
  <2>2. \A name \in Externs' :
          IsForUndef(syms[1 + Len(sections) + Cardinality(Entered)
                            + UndefTurn(sections, name)], name)'
    <3> SUFFICES ASSUME NEW name \in Externs
                 PROVE  IsForUndef(syms[1 + Len(sections) + Cardinality(Entered)
                                          + UndefTurn(sections, name)], name)'
      BY <1>1
    <3>1. PICK n : n = 1 + Len(sections) + Cardinality(Entered) + UndefTurn(sections, name)
      OBVIOUS
    <3>2. IsForUndef(syms[n], name)
      BY <3>1 DEF Tabled
    <3>3. IsForUndef(syms[n], name)'
      BY <1>3, <3>2
    <3>4. QED
      BY <1>1, <3>1, <3>3 DEF IsForUndef
  <2>3. QED
    BY <1>1, <2>1, <2>2 DEF Tabled
<1>5. Bound'
  BY <1>1 DEF Bound, Defines, Undefines
<1>6. QED
  BY <1>4, <1>5

LEMMA StartTabled ==
  ASSUME IInv, SectionSymbols PROVE Tabled' /\ Bound'
<1>1. PICK n : n = Len(sections) /\ n \in Nat /\ DOMAIN sections = 1 .. n
  BY Ranges
<1>2. /\ sections' = sections /\ symDefs' = EmptyMap /\ pc' = "locals" /\ i' = 1 /\ k' = 1
      /\ syms' = <<NullSym>> \o [c \in 1 .. n |-> SectionSym(c)]
  BY <1>1 DEF SectionSymbols, Goto, IInv, Shape, Before, file
<1>3. /\ Len(syms') = 1 + n /\ syms'[1] = NullSym
      /\ \A c \in 1 .. n : syms'[1 + c] = SectionSym(c)
  <2>1. PICK heads : heads = [c \in 1 .. n |-> SectionSym(c)]
    OBVIOUS
  <2>2. heads \in Seq({SectionSym(c) : c \in 1 .. n}) /\ Len(heads) = n
    BY <1>1, <2>1
  <2>3. QED
    BY <1>1, <1>2, <2>1, <2>2
<1>4. HeadsIn'
  BY <1>1, <1>2, <1>3 DEF HeadsIn, SectionSym
<1>5. Entered' = {}
  <2> SUFFICES ASSUME NEW p \in Definitions(sections) PROVE ~Reached(p)'
    BY <1>2 DEF Entered
  <2>1. ~(p[1] < 1 \/ (p[1] = 1 /\ p[2] < 1))
    BY AnyPlace
  <2>2. QED
    BY <1>2, <2>1 DEF Reached, AtFront
<1>6. Externs' = {} /\ DOMAIN symDefs' = {}
  BY <1>2 DEF Externs, EmptyMap
<1>7. IsFiniteSet({}) /\ Cardinality({}) = 0
  BY FS_EmptySet
<1>8. QED
  BY <1>1, <1>2, <1>3, <1>4, <1>5, <1>6, <1>7 DEF Tabled, Bound

LEMMA TabledStep == IInv /\ Tabled /\ Bound /\ [Next]_vars => Tabled' /\ Bound'
<1> SUFFICES ASSUME IInv, Tabled, Bound, [Next]_vars PROVE Tabled' /\ Bound'
  OBVIOUS
<1> USE DEF file, tables, layout
<1>1. CASE pc' \in Before
  BY <1>1 DEF Tabled, Bound
<1>2. ASSUME pc \notin Before, pc' \notin Passes, pc \notin Passes,
             UNCHANGED <<sections, strtab, symDefs, syms>>
      PROVE  Tabled' /\ Bound'
  <2>1. Entered' = Entered
    BY <1>2 DEF Entered, Reached, Passes
  <2>2. QED
    BY <1>2, <2>1, KeepTabled
<1>3. CASE UNCHANGED vars
  <2>1. UNCHANGED <<sections, strtab, symDefs, syms, pc, i, k>>
    BY <1>3 DEF vars
  <2>2. Entered' = Entered
    BY <2>1 DEF Entered, Reached, AtFront
  <2>3. QED
    BY <1>1, <2>1, <2>2, KeepTabled
<1>4. CASE Caller
  <2>1. pc' \in Before
    BY <1>4 DEF Caller, AddSection, SetMinOS, EnableCodesignReserve, SetOption, WriteTo, Before
  <2>2. QED
    BY <1>1, <2>1
<1>5. CASE Build
  <2>1. CASE KindFails \/ SectionFails \/ RelocFails \/ Deliver
    <3>1. pc' = "idle"
      BY <2>1 DEF KindFails, SectionFails, RelocFails, Deliver, Fail, Return
    <3>2. QED
      BY <1>1, <3>1 DEF Before
  <2>2. CASE SectionSymbols
    BY <2>2, StartTabled
  <2>3. CASE DefineSymbol
    BY <2>3, DefineTabled
  <2>4. CASE SkipSymbol \/ SymbolsNextSection \/ PassDone
    <3>1. pc \in Passes /\ UNCHANGED <<sections, strtab, symDefs, syms>>
      BY <2>4 DEF SkipSymbol, AtSymbol, SymbolsNextSection, PassDone, Passes
    <3>2. pc \notin Before
      BY <3>1 DEF Passes, Before
    <3>3. QED
      BY <2>4, <3>1, <3>2, EnteredKeeps, KeepTabled
  <2>5. CASE ExternSymbol
    BY <2>5, ExternTabled
  <2>6. CASE ExternsDone
    BY <1>2, <2>6 DEF ExternsDone, Goto, Before, Passes
  <2>7. CASE ConvertSection \/ RelocsDone
    BY <1>2, <2>7 DEF ConvertSection, RelocsDone, Goto, Before, Passes
  <2>8. CASE SkipSection \/ PlaceSection \/ LayoutDone
    BY <1>2, <2>8 DEF SkipSection, PlaceSection, LayoutDone, Goto, Before, Passes
  <2>9. CASE WriteSection
    BY <1>2, <2>9 DEF WriteSection, Before, Passes
  <2>10. QED
    BY <1>5, <2>1, <2>2, <2>3, <2>4, <2>5, <2>6, <2>7, <2>8, <2>9 DEF Build
<1>6. QED
  BY <1>3, <1>4, <1>5 DEF Next

-----------------------------------------------------------------------------
(***************************************************************************)
(* The relocation records are converted when the map is complete, and a    *)
(* linker finds them, the symbols and the code where the headers say.      *)
(***************************************************************************)
Converted ==
  \A c \in DOMAIN recs : \A m \in DOMAIN recs[c] :
    /\ sections[c].relocs[m].symbol \in DOMAIN symDefs
    /\ recs[c][m] = Record(sections[c].relocs[m])

LEMMA ConvertSectionConverted == ASSUME IInv, Converted, ConvertSection PROVE Converted'
<1>0. PICK c : c = i
  OBVIOUS
<1> DEFINE rs  == sections[c].relocs
           new == [m \in DOMAIN rs |-> Record(rs[m])]
<1>1. /\ pc = "relocs" /\ c <= Len(sections) /\ recs' = Append(recs, new)
      /\ \A m \in DOMAIN rs : rs[m].symbol \in DOMAIN symDefs
      /\ UNCHANGED <<opts, sections, symDefs>>
  BY <1>0 DEF ConvertSection, tables, file
<1>2. /\ recs \in Seq(Seq(Records)) /\ Len(recs) = c - 1 /\ c \in Nat \ {0}
  BY <1>0, <1>1 DEF IInv, TypeOK, Shape
<1>3. \A m \in DOMAIN new : rs[m].symbol \in DOMAIN symDefs /\ new[m] = Record(rs[m])
  BY <1>1
<1> HIDE DEF new
<1>4. /\ recs'[c] = new /\ \A d \in 1 .. c - 1 : recs'[d] = recs[d]
      /\ DOMAIN recs' = 1 .. c /\ DOMAIN recs = 1 .. c - 1
  BY <1>1, <1>2
<1>5. ASSUME NEW d \in 1 .. c, NEW m \in DOMAIN recs'[d]
      PROVE  /\ sections[d].relocs[m].symbol \in DOMAIN symDefs
             /\ recs'[d][m] = Record(sections[d].relocs[m])
  <2>1. CASE d = c
    BY <1>3, <1>4, <2>1
  <2>2. CASE d \in 1 .. c - 1
    BY <1>4, <2>2 DEF Converted
  <2>3. QED
    BY <1>2, <2>1, <2>2
<1>6. \A r : Record(r)' = Record(r)
  BY <1>1 DEF Record
<1>7. QED
  BY <1>1, <1>4, <1>5, <1>6 DEF Converted

LEMMA ConvertedStep == IInv /\ Converted /\ [Next]_vars => Converted'
<1> SUFFICES ASSUME IInv, Converted, [Next]_vars PROVE Converted'
  OBVIOUS
<1>1. CASE ConvertSection
  BY <1>1, ConvertSectionConverted
<1>2. CASE RelocsDone \/ SkipSection \/ PlaceSection \/ LayoutDone \/ WriteSection
           \/ UNCHANGED vars
  <2>1. UNCHANGED <<opts, sections, symDefs, recs>>
    BY <1>2 DEF RelocsDone, SkipSection, PlaceSection, LayoutDone, WriteSection, vars, tables,
       file
  <2>2. \A r : Record(r)' = Record(r)
    BY <2>1 DEF Record
  <2>3. QED
    BY <2>1, <2>2 DEF Converted
<1>3. CASE \/ Caller \/ KindFails \/ SectionFails \/ RelocFails \/ Deliver
           \/ SectionSymbols \/ DefineSymbol \/ SkipSymbol \/ SymbolsNextSection \/ PassDone
           \/ ExternSymbol \/ ExternsDone
  <2>1. recs' = << >>
    <3>1. CASE KindFails \/ SectionFails \/ RelocFails \/ Deliver
      BY <3>1 DEF KindFails, SectionFails, RelocFails, Deliver, Fail, Return
    <3>2. CASE Caller
      <4>1. pc = "idle" /\ UNCHANGED recs
        BY <3>2 DEF Caller, AddSection, SetMinOS, EnableCodesignReserve, SetOption, WriteTo
      <4>2. QED
        BY <4>1 DEF IInv, Shape, Before
    <3>3. CASE \/ SectionSymbols \/ DefineSymbol \/ SkipSymbol \/ SymbolsNextSection
               \/ PassDone \/ ExternSymbol \/ ExternsDone
      <4>1. pc \in Before \cup {"locals", "globals", "externs"} /\ UNCHANGED recs
        BY <3>3 DEF SectionSymbols, DefineSymbol, SkipSymbol, AtSymbol, SymbolsNextSection,
           PassDone, ExternSymbol, ExternsDone, Before
      <4>2. QED
        BY <4>1 DEF IInv, Shape
    <3>4. QED
      BY <1>3, <3>1, <3>2, <3>3
  <2>2. QED
    BY <2>1 DEF Converted
<1>4. QED
  BY <1>1, <1>2, <1>3 DEF Next, Build

\* What a reader of the image finds behind the load commands.
LEMMA PiecesFound ==
  ASSUME IInv, Laid, Filled, Short, Deliver
  PROVE  /\ Built' /\ added' = sections /\ arch' = opts.arch /\ pc = "write"
         /\ img'.nsyms = Len(syms) /\ Symtab' = syms /\ Strings' = strtab.data
         /\ \A c \in DOMAIN sections : ~NoBits(sections[c]) =>
              /\ sections[c].size > 0 => CodeOf(img.shdrs[c])' = PatchedCode(c)
              /\ RecordsOf(img.shdrs[c])' = recs[c]
<1>1. /\ pc = "write" /\ i > Len(sections) /\ last'.image = Image /\ last'.input = Input
      /\ last'.status = "built" /\ sections' = sections
  BY DEF Deliver, Return, file
<1>2. img' = Image /\ added' = sections /\ arch' = opts.arch /\ Built'
  BY <1>1 DEF img, added, arch, Input, Built
<1>3. /\ img'.chunks = Tables.chunks /\ img'.symoff = pos /\ img'.nsyms = Len(syms)
      /\ img'.stroff = StrOff /\ img'.strsize = Len(strtab.data)
      /\ img'.shdrs = [n \in DOMAIN sections |-> Header(n)]
  BY <1>1, <1>2, PositionsFit DEF Image
<1>4. PICK chunks, from, to :
        /\ chunks = Tables.chunks /\ Chained(chunks, from, to)
        /\ HasChunk(chunks, pos, 16 * Len(syms), syms)
        /\ HasChunk(chunks, StrOff, Len(strtab.data), strtab.data)
        /\ \A a, s, b : HasChunk(out.chunks, a, s, b) => HasChunk(chunks, a, s, b)
  BY <1>1, TablesWritten
<1>5. ASSUME NEW at, NEW size \in Nat \ {0}, NEW bytes, HasChunk(chunks, at, size, bytes)
      PROVE  Contents(at, size)' = bytes /\ DataAt(img.chunks, at)' = bytes
  <2>1. PICK S : S = {n \in DOMAIN chunks : chunks[n].at = at /\ chunks[n].size = size}
    OBVIOUS
  <2>2. /\ DataAt(chunks, at) = bytes
        /\ \A T : T = {n \in DOMAIN chunks : chunks[n].at = at /\ chunks[n].size = size}
                  => T # {} /\ chunks[Max(T)].data = bytes
    <3>1. Chained(chunks, from, to)
      BY <1>4
    <3>2. QED
      BY <1>5, <3>1, DataFound
  <2>3. Extent(at, size)' = S
    BY <1>3, <1>4, <2>1 DEF Extent
  <2>4. Contents(at, size)' = bytes
    BY <1>3, <1>4, <2>1, <2>2, <2>3 DEF Contents
  <2>5. QED
    BY <1>3, <1>4, <2>2, <2>4
<1>6. Symtab' = syms
  <2>1. PICK at, size, bytes : at = pos /\ size = 16 * Len(syms) /\ bytes = syms
    OBVIOUS
  <2>2. size \in Nat \ {0}
    <3>1. Len(syms) \in Nat /\ Len(sections) < Len(syms) /\ Len(sections) \in Nat
      BY <1>1, Ranges DEF IInv, TypeOK, Shape, Before
    <3>2. QED
      BY <2>1, <3>1
  <2>3. DataAt(img.chunks, at)' = bytes
    BY <1>4, <1>5, <2>1, <2>2
  <2>4. QED
    BY <1>3, <2>1, <2>3 DEF Symtab
<1>7. Strings' = strtab.data
  <2>1. PICK at, size, bytes : at = StrOff /\ size = Len(strtab.data) /\ bytes = strtab.data
    OBVIOUS
  <2>2. size \in Nat \ {0}
    BY <2>1 DEF IInv, TypeOK, StrTabOK, Consistent
  <2>3. DataAt(img.chunks, at)' = bytes
    BY <1>4, <1>5, <2>1, <2>2
  <2>4. QED
    BY <1>3, <2>1, <2>3 DEF Strings
<1>8. ASSUME NEW c \in DOMAIN sections, ~NoBits(sections[c]), NEW sh, sh = Header(c)
      PROVE  /\ sections[c].size > 0 => CodeOf(sh)' = PatchedCode(c)
             /\ RecordsOf(sh)' = recs[c]
  <2>1. /\ sh.size = sections[c].size /\ sh.offset = lay[c].offset
        /\ sh.nreloc = Len(recs[c])
        /\ Len(recs[c]) > 0 => sh.reloff = lay[c].offset + sections[c].size
    BY <1>1, <1>8, HeaderFits
  <2>2. c \in DOMAIN lay /\ c \in 1 .. i - 1 /\ LaidAt(c) /\ InFile(c)
    <3>1. DOMAIN lay = DOMAIN sections /\ c \in 1 .. i - 1
      BY <1>1, Ranges DEF IInv, Shape, TypeOK
    <3>2. QED
      BY <1>1, <1>8, <3>1 DEF Laid, Filled
  <2>3. sections[c].size \in Nat /\ Len(recs[c]) \in Nat /\ recs[c] \in Seq(Records)
    BY <1>1, PlaceFields
  <2>4. ASSUME sections[c].size > 0 PROVE CodeOf(sh)' = PatchedCode(c)
    <3>1. PICK at, size, bytes :
            at = lay[c].offset /\ size = sections[c].size /\ bytes = PatchedCode(c)
      OBVIOUS
    <3>2. size \in Nat \ {0} /\ HasChunk(chunks, at, size, bytes)
      BY <1>4, <2>2, <2>3, <2>4, <3>1 DEF InFile
    <3>3. Contents(at, size)' = bytes
      BY <1>5, <3>2
    <3>4. sh.offset = at /\ sh.size = size /\ sh.size # 0
      BY <2>1, <3>1, <3>2
    <3>5. Contents(sh.offset, sh.size)' = bytes
      BY <3>3, <3>4
    <3>6. QED
      BY <3>1, <3>4, <3>5 DEF CodeOf
  <2>5. RecordsOf(sh)' = recs[c]
    <3>1. CASE Len(recs[c]) = 0
      BY <2>1, <2>3, <3>1 DEF RecordsOf
    <3>2. CASE Len(recs[c]) > 0
      <4>1. PICK at, size, bytes :
              at = lay[c].offset + sections[c].size /\ size = 8 * Len(recs[c])
              /\ bytes = recs[c]
        OBVIOUS
      <4>2. recs[c] # << >>
        BY <3>2
      <4>3. HasChunk(chunks, at, size, bytes)
        BY <1>4, <2>2, <4>1, <4>2 DEF InFile
      <4>4. size \in Nat \ {0}
        BY <2>3, <3>2, <4>1
      <4>5. Contents(at, size)' = bytes
        BY <1>5, <4>3, <4>4
      <4>6. sh.reloff = at /\ 8 * sh.nreloc = size /\ sh.nreloc # 0
        BY <2>1, <2>3, <3>2, <4>1
      <4>7. Contents(sh.reloff, 8 * sh.nreloc)' = bytes
        BY <4>5, <4>6
      <4>8. QED
        BY <4>1, <4>6, <4>7 DEF RecordsOf
    <3>3. QED
      BY <2>3, <3>1, <3>2
  <2>6. QED
    BY <2>4, <2>5
<1>9. ASSUME NEW c \in DOMAIN sections, ~NoBits(sections[c])
      PROVE  /\ sections[c].size > 0 => CodeOf(img.shdrs[c])' = PatchedCode(c)
             /\ RecordsOf(img.shdrs[c])' = recs[c]
  <2>1. PICK sh : sh = Header(c)
    OBVIOUS
  <2>2. img'.shdrs[c] = sh
    BY <1>3, <2>1
  <2>3. QED
    BY <1>8, <1>9, <2>1, <2>2
<1>10. QED
  BY <1>1, <1>2, <1>3, <1>6, <1>7, <1>9

\* Behind the passes the table is complete.
LEMMA AtEnd ==
  ASSUME IInv, Answers, Tabled, Bound, pc \in Behind
  PROVE  /\ Entered = Definitions(sections) /\ Externs = ExternalSymbols(sections)
         /\ pc \notin Before
<1>1. pc \notin Before /\ pc # "locals" /\ pc # "globals"
  BY DEF Behind, Before
<1>2. Entered = Definitions(sections)
  BY <1>1 DEF Entered, Reached
<1>3. Externs = ExternalSymbols(sections)
  BY DEF Externs, ExternalSymbols, Answers
<1>4. QED
  BY <1>1, <1>2, <1>3

\* Of the definitions of a name at most one is meant.
LEMMA OneMeant ==
  ASSUME IInv, NEW name, NEW p \in Meant(sections, name)
  PROVE  Meant(sections, name) = {p}
<1> SUFFICES ASSUME NEW q \in Meant(sections, name), q # p PROVE FALSE
  OBVIOUS
<1>1. /\ Sooner(sections, p, q) /\ Sooner(sections, q, p)
      /\ p \in Definitions(sections) /\ q \in Definitions(sections)
  BY DEF Meant, Named
<1>2. p[1] \in Nat /\ p[2] \in Nat /\ q[1] \in Nat /\ q[2] \in Nat
  BY <1>1, AnyPlace
<1>3. QED
  BY <1>1, <1>2 DEF Sooner

\* What the map holds for a name when the relocations are converted.
LEMMA EntryMeant ==
  ASSUME IInv, Answers, Tabled, Bound, pc \in Behind,
         NEW name \in DOMAIN symDefs, NEW def, def = symDefs[name],
         NEW sym, sym = syms[def.index + 1]
  PROVE  \/ /\ Meant(sections, name) = {} /\ ~def.local /\ IsForUndef(sym, name)
         \/ \E p \in Definitions(sections) :
              /\ Meant(sections, name) = {p} /\ def.section = p[1]
              /\ def.local = IsLocal(sections, p) /\ IsFor(sym, p)
<1>1. /\ Entered = Definitions(sections) /\ Externs = ExternalSymbols(sections)
      /\ pc \notin Before
  BY AtEnd
<1>2. /\ Cardinality(Entered) \in Nat /\ Len(sections) \in Nat
      /\ \A p \in Entered :
           /\ Turn(sections, p) \in Nat
           /\ IsFor(syms[1 + Len(sections) + Turn(sections, p)], p)
      /\ \A other \in Externs :
           /\ UndefTurn(sections, other) \in Nat
           /\ IsForUndef(syms[1 + Len(sections) + Cardinality(Entered)
                                + UndefTurn(sections, other)], other)
  BY <1>1, FS_CardinalityType, Ranges DEF Tabled
<1>3. CASE Undefines(name, def)
  <2>1. PICK n, u : n = Len(sections) + Cardinality(Entered) + u /\ u = UndefTurn(sections, name)
    OBVIOUS
  <2>2. /\ name \in Externs /\ ~def.local /\ def.index = n
        /\ u \in Nat /\ n + 1 = 1 + Len(sections) + Cardinality(Entered) + u
    BY <1>2, <1>3, <2>1 DEF Undefines
  <2>3. IsForUndef(sym, name)
    <3>1. sym = syms[1 + Len(sections) + Cardinality(Entered) + u]
      BY <2>2
    <3>2. QED
      BY <1>2, <2>1, <2>2, <3>1
  <2>4. Meant(sections, name) = {}
    <3>1. ASSUME NEW p \in Named(sections, name) PROVE name \in DefinedNames(sections)
      <4>1. PICK a, b : /\ a = p[1] /\ b = p[2] /\ a \in DOMAIN sections
                        /\ b \in DOMAIN sections[a].symbols
                        /\ sections[a].symbols[b].name = name
        BY <3>1, AnyPlace DEF Named, SymAt
      <4>2. QED
        BY <4>1 DEF DefinedNames
    <3>2. name \notin DefinedNames(sections)
      BY <1>1, <2>2 DEF ExternalSymbols
    <3>3. QED
      BY <3>1, <3>2 DEF Meant
  <2>5. QED
    BY <2>2, <2>3, <2>4
<1>4. ASSUME NEW p \in Entered, Defines(p, name, def)
      PROVE  /\ Meant(sections, name) = {p} /\ def.section = p[1]
             /\ def.local = IsLocal(sections, p) /\ IsFor(sym, p)
  <2>1. p \in Meant(sections, name)
    BY <1>1, <1>4 DEF Defines, Meant, Named
  <2>2. PICK n, t : n = Len(sections) + t /\ t = Turn(sections, p)
    OBVIOUS
  <2>3. /\ def.index = n /\ def.section = p[1] /\ def.local = IsLocal(sections, p)
        /\ t \in Nat /\ n + 1 = 1 + Len(sections) + t
    BY <1>2, <1>4, <2>2 DEF Defines
  <2>4. IsFor(sym, p)
    <3>1. sym = syms[1 + Len(sections) + t]
      BY <2>3
    <3>2. QED
      BY <1>2, <2>2, <3>1
  <2>5. QED
    BY <2>1, <2>3, <2>4, OneMeant
<1>5. QED
  BY <1>1, <1>3, <1>4 DEF Bound

\* The tests of the code and of the reader for a symbol they describe alike.
LEMMA ReadAlike ==
  ASSUME IInv, Laid, Filled, Short, Deliver, NEW sym
  PROVE  /\ \A p \in Definitions(sections) : IsFor(sym, p) => StandsFor(sym, p)'
         /\ \A name : IsForUndef(sym, name) => StandsForUndefined(sym, name)'
<1>1. added' = sections /\ Strings' = strtab.data /\ sections' = sections
  BY PiecesFound DEF Deliver, Return, file
<1>2. ASSUME NEW p \in Definitions(sections), IsFor(sym, p) PROVE StandsFor(sym, p)'
  <2>1. InSection(sym, p[1])
    <3>1. \A n \in Nat : n < Byte => n % Byte = n
      BY WidthAssumption
    <3>2. p[1] \in Nat
      BY AnyPlace
    <3>3. sym.sect = Uint8(p[1])
      BY <1>2 DEF IsFor
    <3>4. QED
      BY <3>1, <3>2, <3>3 DEF InSection, Uint8
  <2>2. PICK def : def = SymAt(sections, p)
    OBVIOUS
  <2>3. def = SymAt(added, p)' /\ added'[p[1]] = sections[p[1]]
    BY <1>1, <2>2 DEF SymAt
  <2>4. /\ ReadsAs(strtab.data, sym.strx, Mangled(def.name))
        /\ sym.value = def.offset
        /\ sym.type = (IF def.binding = "Local" THEN "SECT" ELSE "EXT")
        /\ sym.weak <=> def.binding # "Local"
                        /\ (def.binding = "Weak" \/ sections[p[1]].linkOnce)
    BY <1>2, <2>2 DEF IsFor
  <2>5. QED
    BY <1>1, <2>1, <2>3, <2>4 DEF StandsFor
<1>3. ASSUME NEW name, IsForUndef(sym, name) PROVE StandsForUndefined(sym, name)'
  BY <1>1, <1>3 DEF IsForUndef, StandsForUndefined
<1>4. QED
  BY <1>2, <1>3

\* Which form a record takes.
LEMMA PageKinds ==
  ASSUME NEW target, NEW kind, Supported(target, kind)
  PROVE  PageReloc(target, RelocDesc(target, kind))
         <=> target = "ARM64" /\ kind \in {"ADRPage21", "AddOff12"}
<1>1. CASE target = "ARM64"
  <2> DEFINE arm == RelocTable["ARM64"]
  <2>1. /\ DOMAIN arm = {"Abs64", "PCRel26", "ADRPage21", "AddOff12", "GOTPage21",
                         "GOTOff12", "TLSGD"}
        /\ arm["Abs64"].type = 0 /\ arm["PCRel26"].type = 2
        /\ arm["ADRPage21"].type = 3 /\ arm["AddOff12"].type = 4
        /\ arm["GOTPage21"].type = 5 /\ arm["GOTOff12"].type = 6 /\ arm["TLSGD"].type = 7
    BY DEF RelocTable, Desc
  <2>2. Machine(target) = "ARM64" /\ RelocDesc(target, kind) = arm[kind] /\ kind \in DOMAIN arm
    BY <1>1 DEF Machine, RelocDesc, Supported
  <2> HIDE DEF arm
  <2>3. QED
    BY <1>1, <2>1, <2>2 DEF PageReloc
<1>2. CASE target # "ARM64"
  BY <1>2 DEF PageReloc, Machine
<1>3. QED
  BY <1>1, <1>2

LEMMA RecordReaches ==
  ASSUME IInv, Answers, Tabled, Bound, Laid, Filled, Converted, Deliver, Short,
         NEW c \in DOMAIN sections, NEW m \in DOMAIN sections[c].relocs,
         NEW r, r = sections[c].relocs[m], NEW rec, rec = recs[c][m]
  PROVE  Reaches(rec, r)'
<1>1. /\ added' = sections /\ arch' = opts.arch /\ Symtab' = syms /\ pc \in Behind
      /\ sections' = sections
  BY PiecesFound DEF Behind, Deliver, Return, file
<1>2. /\ r \in Reloc /\ Supported(opts.arch, r.kind) /\ r.symbol \in DOMAIN symDefs
      /\ rec = Record(r)
  <2>1. sections[c].relocs \in Seq(Reloc)
    BY Ranges, SectionType DEF IInv
  <2>2. r \in Reloc /\ Supported(opts.arch, r.kind)
    BY <1>1, <2>1 DEF Behind, IInv, Shape, Before, KindsOK
  <2>3. c \in DOMAIN recs /\ m \in DOMAIN recs[c]
    <3>1. c \in DOMAIN recs /\ Len(recs[c]) = Len(sections[c].relocs) /\ recs[c] \in Seq(Records)
      BY PiecesFound, PlaceFields DEF IInv, IndexSound
    <3>2. QED
      BY <2>1, <3>1
  <2>4. QED
    BY <2>2, <2>3 DEF Converted
<1>3. PICK def, sym, desc, page :
        /\ def = symDefs[r.symbol] /\ sym = syms[def.index + 1]
        /\ desc = RelocDesc(opts.arch, r.kind)
        /\ page = PageReloc(opts.arch, desc)
  OBVIOUS
<1>4. /\ rec.address = r.offset /\ rec.type = desc.type /\ rec.width = desc.width
      /\ rec.pcrel = desc.pcrel /\ rec.extern = (~def.local \/ page)
      /\ rec.num = (IF ~def.local \/ page THEN def.index ELSE def.section) % Word24
  BY <1>2, <1>3 DEF Record
<1>5. [type |-> rec.type, width |-> rec.width, pcrel |-> rec.pcrel] = desc
  <2>1. desc \in Descs
    BY <1>2, <1>3, RelocDescType
  <2>2. QED
    BY <1>4, <2>1 DEF Descs
<1>6. page <=> opts.arch = "ARM64" /\ r.kind \in {"ADRPage21", "AddOff12"}
  BY <1>2, <1>3, PageKinds
<1>7. PICK places : places = Meant(sections, r.symbol)
  OBVIOUS
<1>8. \/ places = {} /\ ~def.local /\ IsForUndef(sym, r.symbol)
      \/ \E p \in Definitions(sections) :
           places = {p} /\ def.section = p[1] /\ def.local = IsLocal(sections, p) /\ IsFor(sym, p)
  BY <1>1, <1>2, <1>3, <1>7, EntryMeant
<1>9. /\ Meant(added, r.symbol)' = places
      /\ \A p : IsLocal(added, p)' <=> IsLocal(sections, p)
  BY <1>1, <1>7
<1>10. ByOrdinal(r)' <=> def.local /\ ~page
  <2>1. ByOrdinal(r)' <=> (\E p \in places : IsLocal(sections, p)) /\ ~page
    BY <1>1, <1>6, <1>9 DEF ByOrdinal
  <2>2. (\E p \in places : IsLocal(sections, p)) <=> def.local
    BY <1>8
  <2>3. QED
    BY <2>1, <2>2
<1>11. rec.extern = ~ByOrdinal(r)'
  <2>1. (~def.local \/ page) = ~(def.local /\ ~page)
    BY <1>2, <1>3 DEF IInv, TypeOK, Defs
  <2>2. QED
    BY <1>4, <1>10, <2>1
<1>12. \A n \in Nat : n < Word24 => n % Word24 = n
  BY WidthAssumption
<1>13. ASSUME ByOrdinal(r)', Len(added') < Word24
       PROVE  \E p \in places : rec.num = p[1]
  <2>1. PICK p \in Definitions(sections) : places = {p} /\ def.section = p[1]
    BY <1>8, <1>10, <1>13
  <2>2. p[1] \in Nat /\ p[1] < Word24
    BY <1>1, <1>13, AnyPlace, WidthAssumption
  <2>3. rec.num = p[1] % Word24
    BY <1>4, <1>10, <1>13, <2>1
  <2>4. QED
    BY <1>12, <2>1, <2>2, <2>3
<1>14. ASSUME ~ByOrdinal(r)', Len(Symtab') <= Word24
       PROVE  /\ rec.num + 1 \in DOMAIN Symtab'
              /\ IF places = {} THEN StandsForUndefined(Symtab[rec.num + 1], r.symbol)'
                 ELSE \E p \in places : StandsFor(Symtab[rec.num + 1], p)'
  <2>1. def.index \in Nat /\ def.index + 1 \in DOMAIN syms /\ Len(syms) \in Nat
    <3>1. /\ \A name \in DOMAIN symDefs :
               symDefs[name].index \in Nat /\ Carries(symDefs[name].index, name)
          /\ syms \in Seq(Symbols)
      BY DEF IInv, TypeOK, IndexSound
    <3>2. def.index \in Nat /\ Carries(def.index, r.symbol)
      BY <1>2, <1>3, <3>1
    <3>3. QED
      BY <3>1, <3>2 DEF Carries
  <2>2. def.index < Word24
    BY <1>1, <1>14, <2>1, WidthAssumption
  <2>3. rec.num = def.index
    BY <1>4, <1>10, <1>12, <1>14, <2>1, <2>2
  <2>4. Symtab'[rec.num + 1] = sym
    BY <1>1, <1>3, <2>3
  <2>5. rec' = rec /\ r' = r
    OBVIOUS
  <2>6. CASE places = {}
    <3>1. StandsForUndefined(sym, r.symbol)'
      BY <1>8, <2>6, ReadAlike
    <3>2. QED
      BY <1>1, <2>1, <2>3, <2>4, <2>6, <3>1
  <2>7. CASE places # {}
    <3>1. PICK p \in Definitions(sections) : places = {p} /\ IsFor(sym, p)
      BY <1>8, <2>7
    <3>2. StandsFor(sym, p)'
      BY <3>1, ReadAlike
    <3>3. QED
      BY <1>1, <2>1, <2>3, <2>4, <2>7, <3>1, <3>2
  <2>8. QED
    BY <2>6, <2>7
<1>15. QED
  BY <1>1, <1>3, <1>4, <1>5, <1>9, <1>11, <1>13, <1>14 DEF Reaches

\* The addend of a relocation whose bytes are its own is found in the code.
LEMMA AddendStored ==
  ASSUME IInv, Laid, Filled, Deliver, Short,
         NEW c \in DOMAIN sections, ~NoBits(sections[c]), NEW s, s = sections[c],
         NEW m \in DOMAIN s.relocs, Owned(s, m)'
  PROVE  Stored(c, m, s.relocs[m].addend)'
<1>1. /\ added' = sections /\ arch' = opts.arch /\ pc = "write"
      /\ s.size > 0 => CodeOf(img.shdrs[c])' = PatchedCode(c)
  BY PiecesFound
<1>2. /\ DOMAIN s.relocs = 1 .. Len(s.relocs) /\ Len(s.relocs) \in Nat /\ s.size \in Nat
      /\ \A n \in DOMAIN s.relocs : s.relocs[n].offset \in Nat
  <2>1. s.relocs \in Seq(Reloc) /\ s.size \in Nat
    BY Ranges, SectionType DEF IInv
  <2>2. \A n \in DOMAIN s.relocs : s.relocs[n] \in Reloc
    BY <2>1
  <2>3. QED
    BY <2>1, <2>2 DEF Reloc
<1>3. PICK w : w = [n \in DOMAIN s.relocs |-> RelocDesc(opts.arch, s.relocs[n].kind).width]
  OBVIOUS
<1>4. \A n \in DOMAIN s.relocs : w[n] \in {4, 8} /\ Width(s.relocs[n])' = w[n]
  <2> SUFFICES ASSUME NEW n \in DOMAIN s.relocs
               PROVE  w[n] \in {4, 8} /\ Width(s.relocs[n])' = w[n]
    OBVIOUS
  <2>1. Supported(opts.arch, s.relocs[n].kind)
    BY <1>1 DEF IInv, Shape, Before, KindsOK
  <2>2. RelocDesc(opts.arch, s.relocs[n].kind) \in Descs
    BY <2>1, RelocDescType
  <2>3. QED
    BY <1>1, <1>3, <2>2 DEF Descs, Width
<1>5. \A n \in DOMAIN s.relocs :
        Bytes(s.relocs[n])' = s.relocs[n].offset + 1 .. s.relocs[n].offset + w[n]
  BY <1>4 DEF Bytes
<1>6. /\ s.relocs[m].addend # 0 /\ Bytes(s.relocs[m])' \subseteq 1 .. s.size
      /\ \A n \in m + 1 .. Len(s.relocs) :
           s.relocs[n].addend # 0 => Bytes(s.relocs[m])' \cap Bytes(s.relocs[n])' = {}
  BY DEF Owned
<1>7. PICK plain, fields :
        /\ plain = [b \in 1 .. s.size |-> <<"code", c, b>>]
        /\ fields = [n \in DOMAIN s.relocs |-> Field(s.relocs[n])]
  OBVIOUS
<1>8. \A n \in DOMAIN s.relocs :
        /\ fields[n].offset = s.relocs[n].offset
        /\ fields[n].width = (IF s.relocs[n].addend = 0 THEN 0 ELSE w[n])
        /\ fields[n].value = (IF w[n] = 8 THEN s.relocs[n].addend ELSE Int32(s.relocs[n].addend))
  BY <1>3, <1>7 DEF Field
<1>9. PatchedCode(c) = Patch(plain, fields)
  BY <1>7 DEF PatchedCode
<1>10. DOMAIN plain = 1 .. Len(plain) /\ Len(plain) = s.size
  BY <1>2, <1>7
<1>11. /\ DOMAIN fields = DOMAIN s.relocs /\ DOMAIN fields \subseteq Int
  BY <1>2, <1>7
<1>12. PICK off, ww : off = s.relocs[m].offset /\ ww = w[m]
  OBVIOUS
<1>13. /\ fields[m].offset = off /\ fields[m].width = ww /\ off \in Nat /\ ww \in {4, 8}
       /\ Bytes(s.relocs[m])' = off + 1 .. off + ww
  BY <1>2, <1>4, <1>5, <1>6, <1>8, <1>12
<1>14. off + ww <= s.size /\ s.size > 0
  <2>1. off + ww \in off + 1 .. off + ww
    BY <1>13
  <2>2. off + ww \in 1 .. s.size
    BY <1>6, <1>13, <2>1
  <2>3. QED
    BY <1>2, <2>2
<1>15. ASSUME NEW n \in DOMAIN fields, NEW b \in DOMAIN plain,
              Covers(fields[m], b), Covers(fields[n], b)
       PROVE  n <= m
  <2>1. SUFFICES ASSUME n \in m + 1 .. Len(s.relocs) PROVE FALSE
    BY <1>2, <1>11
  <2>2. PICK o2, w2 : o2 = s.relocs[n].offset /\ w2 = w[n]
    OBVIOUS
  <2>3. o2 \in Nat /\ w2 \in {4, 8} /\ b \in Nat
    BY <1>2, <1>4, <1>10, <1>11, <2>2
  <2>4. s.relocs[n].addend # 0
    BY <1>8, <1>11, <1>15, <2>2, <2>3 DEF Covers
  <2>5. b \in Bytes(s.relocs[n])'
    BY <1>5, <1>8, <1>11, <1>15, <2>2, <2>3, <2>4 DEF Covers
  <2>6. b \in Bytes(s.relocs[m])'
    BY <1>13, <1>15, <2>3 DEF Covers
  <2>7. QED
    BY <1>6, <2>1, <2>4, <2>5, <2>6
<1>16. HoldsNumber(Patch(plain, fields), fields[m].offset, fields[m].width, fields[m].value)
  <2>1. m \in DOMAIN fields /\ fields[m].offset \in Nat /\ fields[m].width \in Nat
        /\ Len(plain) \in Nat
    BY <1>2, <1>10, <1>11, <1>13
  <2>2. Inside(fields[m], Len(plain))
    BY <1>10, <1>13, <1>14 DEF Inside
  <2>3. QED
    BY <1>10, <1>11, <1>15, <2>1, <2>2, PatchHolds
<1>17. QED
  <2>1. PICK a, v : a = s.relocs[m].addend /\ v = (IF ww = 8 THEN a ELSE Int32(a))
    OBVIOUS
  <2>2. HoldsNumber(PatchedCode(c), off, ww, v)
    BY <1>8, <1>9, <1>12, <1>13, <1>16, <2>1
  <2>3. /\ added'[c].relocs[m].offset = off /\ Width(added[c].relocs[m])' = ww
        /\ CodeOf(img.shdrs[c])' = PatchedCode(c)
    <3>1. added'[c] = s
      BY <1>1
    <3>2. Width(added[c].relocs[m])' = Width(s.relocs[m])'
      BY <3>1
    <3>3. QED
      BY <1>1, <1>4, <1>12, <1>14, <3>1, <3>2
  <2>4. HoldsNumber(CodeOf(img.shdrs[c]), added[c].relocs[m].offset,
                    Width(added[c].relocs[m]), v)'
    BY <2>2, <2>3 DEF HoldsNumber
  <2>5. QED
    BY <2>1, <2>3, <2>4 DEF Stored

LEMMA DeliverReaches ==
  ASSUME IInv, Answers, Tabled, Bound, Laid, Filled, Converted, Deliver, Short
  PROVE  RelocationsReach'
<1>1. /\ added' = sections /\ pc = "write"
      /\ \A c \in DOMAIN sections : ~NoBits(sections[c]) => RecordsOf(img.shdrs[c])' = recs[c]
  BY PiecesFound
<1>2. ASSUME NEW c \in DOMAIN sections, ~NoBits(sections[c])
      PROVE  /\ Len(RecordsOf(img.shdrs[c])') = Len(added'[c].relocs)
             /\ \A m \in DOMAIN RecordsOf(img.shdrs[c])' :
                  /\ Reaches(RecordsOf(img.shdrs[c])[m], added[c].relocs[m])'
                  /\ Owned(added[c], m)' => Stored(c, m, added[c].relocs[m].addend)'
  <2>1. PICK rs, s : rs = recs[c] /\ s = sections[c]
    OBVIOUS
  <2>2. /\ RecordsOf(img.shdrs[c])' = rs /\ added'[c] = s
        /\ Len(rs) = Len(s.relocs) /\ DOMAIN rs = DOMAIN s.relocs
    <3>1. /\ c \in DOMAIN recs /\ Len(recs[c]) = Len(sections[c].relocs)
          /\ recs[c] \in Seq(Records) /\ sections[c].relocs \in Seq(Reloc)
      BY <1>1, PlaceFields, Ranges, SectionType DEF IInv, IndexSound
    <3>2. QED
      BY <1>1, <1>2, <2>1, <3>1
  <2>3. ASSUME NEW m \in DOMAIN rs
        PROVE  /\ Reaches(RecordsOf(img.shdrs[c])[m], added[c].relocs[m])'
               /\ Owned(added[c], m)' => Stored(c, m, added[c].relocs[m].addend)'
    <3>1. PICK r, rec : r = s.relocs[m] /\ rec = rs[m]
      OBVIOUS
    <3>2. Reaches(rec, r)'
      BY <2>1, <2>2, <3>1, RecordReaches
    <3>3. Reaches(RecordsOf(img.shdrs[c])[m], added[c].relocs[m])'
      BY <2>2, <3>1, <3>2
    <3>4. Owned(s, m)' => Stored(c, m, s.relocs[m].addend)'
      BY <1>2, <2>1, <2>2, AddendStored
    <3>5. QED
      BY <2>2, <3>3, <3>4
  <2>4. QED
    BY <2>2, <2>3
<1>3. QED
  BY <1>1, <1>2 DEF RelocationsReach

-----------------------------------------------------------------------------
\* The first string of the table is the empty one, that of the symbols of the
\* sections.
Sentinel == ReadsAs(strtab.data, 0, NoName)

LEMMA NewSentinel == ReadsAs(NewStrTab.data, 0, NoName)
BY DEF NewStrTab, ReadsAs, NoName

LEMMA SentinelStep == IInv /\ Sentinel /\ [Next]_vars => Sentinel'
<1> SUFFICES ASSUME IInv, Sentinel, [Next]_vars PROVE Sentinel'
  OBVIOUS
<1> USE DEF file, tables
<1>1. CASE KindFails \/ SectionFails \/ RelocFails \/ Deliver
  <2>1. strtab' = NewStrTab
    BY <1>1 DEF KindFails, SectionFails, RelocFails, Deliver, Fail, Return
  <2>2. QED
    BY <2>1, NewSentinel DEF Sentinel
<1>2. ASSUME NEW name \in Name, strtab' = Intern(strtab, Mangled(name)) PROVE Sentinel'
  <2>1. StrTabOK(strtab') /\ Extends(strtab'.data, strtab.data)
    BY <1>2, MangledType, InternLemma DEF IInv, TypeOK
  <2>2. strtab.data \in Seq(Char \cup {NUL}) /\ strtab'.data \in Seq(Char \cup {NUL})
    BY <2>1 DEF IInv, TypeOK, StrTabOK, Consistent
  <2>3. NoName \in Name /\ 0 \in Nat
    BY DEF NoName, Name
  <2>4. QED
    BY <2>1, <2>2, <2>3, ReadsAsExtends DEF Sentinel
<1>3. CASE DefineSymbol
  <2>1. PICK name : strtab' = Intern(strtab, Mangled(name))
                    /\ name = sections[i].symbols[k].name
    BY <1>3 DEF DefineSymbol, Enter
  <2>2. PICK c : c = <<i, k>>
    OBVIOUS
  <2>3. c \in Definitions(sections) /\ c[1] = i /\ c[2] = k
    BY <1>3, <2>2, AtCursor
  <2>4. name \in Name
    BY <2>1, <2>3, AnyPlace DEF SymAt, Symbol
  <2>5. QED
    BY <1>2, <2>1, <2>4
<1>4. CASE ExternSymbol
  <2>1. PICK name \in ExternalSymbols(sections) : strtab' = Intern(strtab, Mangled(name))
    BY <1>4 DEF ExternSymbol, Enter
  <2>2. QED
    BY <1>2, <2>1, Ranked
<1>5. CASE Caller
  BY <1>5 DEF Caller, AddSection, SetMinOS, EnableCodesignReserve, SetOption, WriteTo, Sentinel
<1>6. CASE \/ SectionSymbols \/ SkipSymbol \/ SymbolsNextSection \/ PassDone \/ ExternsDone
           \/ ConvertSection \/ RelocsDone \/ SkipSection \/ PlaceSection \/ LayoutDone
           \/ WriteSection \/ UNCHANGED vars
  BY <1>6 DEF SectionSymbols, SkipSymbol, SymbolsNextSection, PassDone, ExternsDone,
     ConvertSection, RelocsDone, SkipSection, PlaceSection, LayoutDone, WriteSection, vars,
     Sentinel
<1>7. QED
  BY <1>1, <1>3, <1>4, <1>5, <1>6 DEF Next, Build

LEMMA DeliverOrder ==
  ASSUME IInv, Answers, Tabled, Bound, Laid, Filled, Sentinel, Deliver, Short
  PROVE  SymbolOrder'
<1>1. /\ added' = sections /\ img'.nsyms = Len(syms) /\ Symtab' = syms
      /\ Strings' = strtab.data /\ pc \in Behind
  BY PiecesFound DEF Behind
<1>2. PICK n, d, u :
        /\ n = Len(sections) /\ d = Cardinality(Definitions(sections))
        /\ u = Cardinality(ExternalSymbols(sections))
  OBVIOUS
<1>3. /\ HeadsIn /\ Len(syms) = 1 + n + d + u
      /\ \A p \in Definitions(sections) : IsFor(syms[1 + n + Turn(sections, p)], p)
      /\ \A name \in ExternalSymbols(sections) :
           IsForUndef(syms[1 + n + d + UndefTurn(sections, name)], name)
  BY <1>1, <1>2, AtEnd DEF Tabled
<1>4. \A c \in 1 .. n : Symtab'[1 + c].strx = 0 /\ InSection(Symtab[1 + c], c)'
  <2> SUFFICES ASSUME NEW c \in 1 .. n
               PROVE  Symtab'[1 + c].strx = 0 /\ InSection(Symtab[1 + c], c)'
    OBVIOUS
  <2>1. c \in Nat /\ syms[1 + c] = SectionSym(c)
    BY <1>2, <1>3, Ranges DEF HeadsIn
  <2>2. c < Byte => Uint8(c) = c
    BY <2>1, WidthAssumption DEF Uint8
  <2>3. Symtab'[1 + c].strx = 0 /\ Symtab'[1 + c].sect = Uint8(c)
    BY <1>1, <2>1 DEF SectionSym
  <2>4. QED
    BY <2>2, <2>3 DEF InSection
<1>5. ASSUME NEW p \in Definitions(sections)
      PROVE  StandsFor(Symtab[1 + n + Turn(added, p)], p)'
  <2>1. PICK sym : sym = syms[1 + n + Turn(sections, p)]
    OBVIOUS
  <2>2. StandsFor(sym, p)'
    BY <1>3, <2>1, ReadAlike
  <2>3. Symtab'[1 + n + Turn(added', p)] = sym
    BY <1>1, <2>1
  <2>4. QED
    BY <2>2, <2>3
<1>6. ASSUME NEW name \in ExternalSymbols(sections)
      PROVE  StandsForUndefined(Symtab[1 + n + d + UndefTurn(added, name)], name)'
  <2>1. PICK sym : sym = syms[1 + n + d + UndefTurn(sections, name)]
    OBVIOUS
  <2>2. StandsForUndefined(sym, name)'
    BY <1>3, <2>1, ReadAlike
  <2>3. Symtab'[1 + n + d + UndefTurn(added', name)] = sym
    BY <1>1, <2>1
  <2>4. QED
    BY <2>2, <2>3
<1>7. ReadsAs(Strings, 0, NoName)'
  BY <1>1 DEF Sentinel
<1>8. Symtab'[1] = NullSym
  BY <1>1, <1>3 DEF HeadsIn
<1>9. /\ Len(Symtab') = img'.nsyms /\ Len(Symtab') = 1 + n + d + u
      /\ Len(added') = n /\ Definitions(added)' = Definitions(sections)
      /\ ExternalSymbols(added)' = ExternalSymbols(sections)
  BY <1>1, <1>2, <1>3
<1>10. QED
  BY <1>1, <1>2, <1>4, <1>5, <1>6, <1>7, <1>8, <1>9 DEF SymbolOrder

LEMMA InitTables == Init => Tabled /\ Bound /\ Converted /\ Sentinel
<1>1. Init => pc \in Before /\ recs = << >> /\ strtab = NewStrTab
  BY DEF Init, Before
<1>2. QED
  BY <1>1, NewSentinel DEF Tabled, Bound, Converted, Sentinel

\* In every image whose length a uint32 counts, a linker that follows a
\* relocation of a section with bytes reaches what the caller asked for: the
\* record is at its place and of its type; it names a section exactly if the
\* last definition of the name, in the order of the symbol table, is local and
\* the field is not that of a page instruction, and then that section, else the
\* symbol of that definition or the undefined one; and an addend no later field
\* overlaps is in the code (the map symDefs of build, phases 3 and 4,
\* applyImplicitAddends).
THEOREM ReferencesReach == Spec => []RelocationsReach
<1>1. Init => RelocationsReach
  BY InitReader DEF RelocationsReach
<1>2. IInv /\ Answers /\ Tabled /\ Bound /\ Laid /\ Filled /\ Converted /\ RelocationsReach
      /\ [Next]_vars => RelocationsReach'
  <2> SUFFICES ASSUME IInv, Answers, Tabled, Bound, Laid, Filled, Converted, RelocationsReach,
                      [Next]_vars
               PROVE  RelocationsReach'
    OBVIOUS
  <2>1. CASE Deliver /\ Short
    BY <2>1, DeliverReaches
  <2>2. CASE ~(Built /\ FewBytes)'
    BY <2>2 DEF RelocationsReach
  <2>3. CASE UNCHANGED last
    <3>1. /\ Built' = Built /\ FewBytes' = FewBytes /\ img' = img /\ added' = added
          /\ arch' = arch /\ Symtab' = Symtab /\ Strings' = Strings
      BY <2>3 DEF Built, FewBytes, img, added, arch, Symtab, Strings
    <3>2. /\ \A sh : RecordsOf(sh)' = RecordsOf(sh) /\ CodeOf(sh)' = CodeOf(sh)
          /\ \A r : Width(r)' = Width(r)
      BY <3>1 DEF RecordsOf, CodeOf, Contents, Extent, Width
    <3>3. /\ \A r : Bytes(r)' = Bytes(r) /\ (ByOrdinal(r)' <=> ByOrdinal(r))
          /\ \A sym, p : StandsFor(sym, p)' <=> StandsFor(sym, p)
          /\ \A sym, name : StandsForUndefined(sym, name)' <=> StandsForUndefined(sym, name)
      BY <3>1, <3>2 DEF Bytes, ByOrdinal, StandsFor, StandsForUndefined
    <3>4. \A rec, r : Reaches(rec, r)' <=> Reaches(rec, r)
      BY <3>1, <3>3 DEF Reaches
    <3>5. /\ \A s, m : Owned(s, m)' <=> Owned(s, m)
          /\ \A s, m, v : Stored(s, m, v)' <=> Stored(s, m, v)
      BY <3>1, <3>2, <3>3 DEF Owned, Stored
    <3>6. QED
      BY <3>1, <3>2, <3>4, <3>5 DEF RelocationsReach
  <2>4. QED
    BY <2>1, <2>2, <2>3, OtherSteps
<1>3. QED
  BY Inductive, InitAnswers, AnswersStep, InitReader, LaidStep, InitTables, TabledStep,
     ConvertedStep, <1>1, <1>2, PTL DEF Spec

\* In every image whose length a uint32 counts, the symbol table is the null
\* symbol, one symbol for each section, then the local and the exported
\* definitions as the caller gave them, then the undefined names in increasing
\* order, each with its underscore, section, value and flags, and nothing else
\* (build, phase 3).
THEOREM SymbolsInOrder == Spec => []SymbolOrder
<1>1. Init => SymbolOrder
  BY InitReader DEF SymbolOrder
<1>2. IInv /\ Answers /\ Tabled /\ Bound /\ Laid /\ Filled /\ Sentinel /\ SymbolOrder
      /\ [Next]_vars => SymbolOrder'
  <2> SUFFICES ASSUME IInv, Answers, Tabled, Bound, Laid, Filled, Sentinel, SymbolOrder,
                      [Next]_vars
               PROVE  SymbolOrder'
    OBVIOUS
  <2>1. CASE Deliver /\ Short
    BY <2>1, DeliverOrder
  <2>2. CASE ~(Built /\ FewBytes)'
    BY <2>2 DEF SymbolOrder
  <2>3. CASE UNCHANGED last
    <3>1. /\ Built' = Built /\ FewBytes' = FewBytes /\ img' = img /\ added' = added
          /\ Symtab' = Symtab /\ Strings' = Strings
      BY <2>3 DEF Built, FewBytes, img, added, Symtab, Strings
    <3>2. /\ \A sym, p : StandsFor(sym, p)' <=> StandsFor(sym, p)
          /\ \A sym, name : StandsForUndefined(sym, name)' <=> StandsForUndefined(sym, name)
      BY <3>1 DEF StandsFor, StandsForUndefined
    <3>3. \A p : StandsFor(Symtab[1 + Len(added) + Turn(added, p)], p)'
                 <=> StandsFor(Symtab[1 + Len(added) + Turn(added, p)], p)
      BY <3>1 DEF StandsFor
    <3>4. \A name :
            StandsForUndefined(Symtab[1 + Len(added) + Cardinality(Definitions(added))
                                        + UndefTurn(added, name)], name)'
            <=> StandsForUndefined(Symtab[1 + Len(added) + Cardinality(Definitions(added))
                                            + UndefTurn(added, name)], name)
      BY <3>1 DEF StandsForUndefined
    <3>5. \A c : InSection(Symtab[1 + c], c)' <=> InSection(Symtab[1 + c], c)
      BY <3>1 DEF InSection
    <3>6. QED
      BY <3>1, <3>3, <3>4, <3>5 DEF SymbolOrder
  <2>4. QED
    BY <2>1, <2>2, <2>3, OtherSteps
<1>3. QED
  BY Inductive, InitAnswers, AnswersStep, InitReader, LaidStep, InitTables, TabledStep,
     SentinelStep, <1>1, <1>2, PTL DEF Spec

=============================================================================
