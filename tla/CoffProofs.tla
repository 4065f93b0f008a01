----------------------------- MODULE CoffProofs -----------------------------
(***************************************************************************)
(* CoffFile's symbol slots and records are right for every set of          *)
(* sections, every number of calls and every value of the scaled widths.   *)
(*                                                                         *)
(* IInv adds Shape to the invariants the run checks: what the control      *)
(* location says about the tables, and how many slots, records and places  *)
(* there are in each loop.  Behind that, what a linker finds in the image: *)
(* Laid and Filled follow the layout and the output, Bound and Converted   *)
(* the name map and the records, Announced, Headed and Tabled the slots in *)
(* order with their names, Told the text of .drectve.                      *)
(* The last part has the build as a function of the sections and proves    *)
(* that two calls with the same sections have the same outcome.            *)
(***************************************************************************)
EXTENDS CoffReader, FormatLemmas, FiniteSetTheorems

Before == {"idle", "exports", "check", "names", "headers"}

Shape ==
  /\ pc \in Before => symIdx = EmptyMap
  /\ pc \in Before \ {"headers"} => slots = << >>
  /\ pc = "headers" => i - 1 <= Len(slots) /\ i <= Len(work) + 1
  /\ pc \notin Before => Len(work) <= Len(slots)
  /\ pc \in Before \cup {"symbols"} => recs = << >>
  /\ pc \in Before \cup {"symbols", "relocs"} => lay = << >>
  /\ pc = "relocs" => Len(recs) = i - 1 /\ i <= Len(work) + 1
  /\ pc = "layout" => Len(recs) = Len(work) /\ Len(lay) = i - 1 /\ i <= Len(work) + 1
  /\ pc = "write" => Len(recs) = Len(work) /\ Len(lay) = Len(work)

IInv == TypeOK /\ Shape /\ SlotsSound

-----------------------------------------------------------------------------
(***************************************************************************)
(* The values the actions store have the types TypeOK gives them.          *)
(***************************************************************************)
LEMMA JoinType ==
  ASSUME NEW S, NEW p \in Seq(S), NEW q \in Seq(S) PROVE p \o q \in Seq(S)
OBVIOUS

LEMMA SubsetType ==
  ASSUME NEW S, NEW T, S \subseteq T, NEW p \in Seq(S) PROVE p \in Seq(T)
OBVIOUS

LEMMA SectionFields ==
  ASSUME NEW s \in Section
  PROVE  /\ s.symbols \in Seq(Symbol) /\ s.relocs \in Seq(Reloc)
         /\ s.size \in Nat /\ s.align \in Nat /\ s.custom \in Name
         /\ s.kind \in SectionKinds /\ s.linkOnce \in BOOLEAN
BY DEF Section

LEMMA WorkType ==
  ASSUME TypeOK, NEW n \in 1 .. Len(work)
  PROVE  /\ work[n] \in Section
         /\ work[n].symbols \in Seq(Symbol) /\ work[n].relocs \in Seq(Reloc)
         /\ work[n].size \in Nat
<1>1. work[n] \in Section
  BY DEF TypeOK
<1>2. QED
  BY <1>1, SectionFields

LEMMA BaseNameType == ASSUME NEW s \in Section PROVE BaseName(s) \in Name
<1>1. s.kind \in SectionKinds /\ s.custom \in Name
  BY SectionFields
<1>2. CASE s.kind = "Custom"
  BY <1>1, <1>2 DEF BaseName
<1>3. CASE s.kind = "TLS"
  <2>1. <<".tls">> \in Name /\ <<".tls$ZZZ">> \in Name
    BY CoffNamesAssumption DEF Name
  <2>2. BaseName(s) \in {<<".tls">>, <<".tls$ZZZ">>}
    BY <1>3 DEF BaseName
  <2>3. QED
    BY <2>1, <2>2
<1>4. CASE s.kind \notin {"Custom", "TLS"}
  <2>1. s.kind \in DOMAIN FixedName
    BY <1>1, <1>4 DEF SectionKinds, FixedName
  <2>2. FixedName[s.kind] \in Char
    BY <2>1, CoffNamesAssumption
  <2>3. BaseName(s) = <<FixedName[s.kind]>>
    BY <1>4 DEF BaseName
  <2>4. QED
    BY <2>2, <2>3 DEF Name
<1>5. QED
  BY <1>2, <1>3, <1>4

\* A COMDAT section's name is that of its first global symbol.
LEMMA SectionNameType == ASSUME NEW s \in Section PROVE SectionName(s) \in Name
<1> DEFINE gs == {m \in DOMAIN s.symbols : s.symbols[m].binding = "Global"}
<1>1. s.symbols \in Seq(Symbol) /\ DOMAIN s.symbols \subseteq Nat
  BY SectionFields
<1>2. \A m \in DOMAIN s.symbols : s.symbols[m].name \in Name
  <2> SUFFICES ASSUME NEW m \in DOMAIN s.symbols PROVE s.symbols[m].name \in Name
    OBVIOUS
  <2>1. s.symbols[m] \in Symbol
    BY <1>1
  <2>2. QED
    BY <2>1 DEF Symbol
<1>3. ASSUME gs # {} PROVE s.symbols[Min(gs)].name \in Name
  <2>1. gs \subseteq Nat
    BY <1>1
  <2>2. Min(gs) \in gs
    BY <1>3, <2>1, LeastExists
  <2>3. Min(gs) \in DOMAIN s.symbols
    BY <2>2
  <2>4. QED
    BY <1>2, <2>3, Zenon
<1>4. QED
  BY <1>3, BaseNameType DEF SectionName

LEMMA Int16Type == ASSUME NEW n \in Nat PROVE Int16(n) \in Int /\ Uint16(n) \in Nat
<1>1. Word16 \div 2 \in Nat
  BY WidthAssumption
<1>2. QED
  BY <1>1, WidthAssumption DEF Int16, Uint16

LEMMA Uint32Fits ==
  ASSUME NEW n \in Nat
  PROVE  Uint32(n) \in Nat /\ Uint32(n) <= n /\ (n < 2 * Half32 => Uint32(n) = n)
<1>1. PICK w : w = 2 * Half32 /\ w \in Nat /\ w > 0
  BY WidthAssumption
<1>2. n % w \in Nat /\ n % w <= n /\ (n < w => n % w = n)
  BY <1>1
<1>3. QED
  BY <1>1, <1>2 DEF Uint32

\* padTo lands on a target that a uint32 holds.
LEMMA ReachFits ==
  ASSUME NEW len \in Nat, NEW x \in Nat
  PROVE  Reach(len, x) \in Nat /\ (len <= x /\ x < 2 * Half32 => Reach(len, x) = x)
<1>1. PICK a, b : a = Uint32(len) /\ b = Uint32(x)
  OBVIOUS
<1>2. /\ a \in Nat /\ b \in Nat /\ a <= len
      /\ len < 2 * Half32 => a = len
      /\ x < 2 * Half32 => b = x
  BY <1>1, Uint32Fits
<1>3. Reach(len, x) = len - a + b
  BY <1>1 DEF Reach
<1>4. len <= x /\ x < 2 * Half32 => len < 2 * Half32
  BY WidthAssumption
<1>5. QED
  BY <1>2, <1>3, <1>4

LEMMA RelocTypeType ==
  ASSUME NEW target, NEW kind, Supported(target, kind)
  PROVE  RelocType(target, kind) \in Nat
<1>1. Machine(target) \in {"AMD64", "ARM64"}
  BY DEF Machine
<1>2. \A n \in DOMAIN RelocTable["AMD64"] : RelocTable["AMD64"][n] \in Nat
  BY DEF RelocTable
<1>3. \A n \in DOMAIN RelocTable["ARM64"] : RelocTable["ARM64"][n] \in Nat
  BY DEF RelocTable
<1>4. QED
  BY <1>1, <1>2, <1>3 DEF Supported, RelocType

LEMMA EffectiveAlignType ==
  ASSUME NEW s \in Section PROVE EffectiveAlign(s) \in Nat
<1>1. s.align \in Nat
  BY SectionFields
<1>2. QED
  BY <1>1 DEF EffectiveAlign

\* The synthetic section is one the later phases can take.
LEMMA DrectveType == TypeOK => Drectve \in Section
<1> SUFFICES ASSUME TypeOK PROVE Drectve \in Section
  OBVIOUS
<1>1. <<".drectve">> \in Name
  BY CoffNamesAssumption DEF Name
<1>2. Len(directives) \in Nat
  BY DEF TypeOK
<1>3. QED
  BY <1>1, <1>2 DEF Drectve, Section, SectionKinds

LEMMA DrectveFields ==
  /\ Drectve.kind = "Custom" /\ Drectve.custom = <<".drectve">> /\ Drectve.linkOnce = FALSE
  /\ Drectve.size = Len(directives) /\ Drectve.symbols = << >> /\ Drectve.relocs = << >>
  /\ IsDrectve(Drectve) /\ ~Unnamed(Drectve) /\ ~NoBits(Drectve)
BY DEF Drectve, IsDrectve, Unnamed, NoBits, NoName

\* Only long names enter the string table, which stays consistent and grows
\* at its end.
LEMMA InternLongLemma ==
  ASSUME Consistent(strtab), NEW name \in Name
  PROVE  LET t == InternLong(strtab, name)
         IN  /\ Consistent(t)
             /\ Extends(t.data, strtab.data)
             /\ NameField(strtab, name) \in NameFields
             /\ NameReads(NameField(strtab, name), t.data, name)
<1>1. CASE name \in LongNames
  <2> DEFINE t == Intern(strtab, name)
             at == OffsetOf(strtab, name)
  <2>1. /\ Consistent(t) /\ Extends(t.data, strtab.data)
        /\ at \in Nat /\ ReadsAs(t.data, at, name)
    BY InternConsistent
  <2>2. InternLong(strtab, name) = t
    BY <1>1 DEF InternLong
  <2>3. NameField(strtab, name) = [inline |-> NoName, at |-> 4 + at]
    BY <1>1 DEF NameField
  <2>4. NoName \in Name
    BY DEF NoName, Name
  <2> HIDE DEF t, at
  <2>5. NameField(strtab, name) \in NameFields
    BY <2>1, <2>3, <2>4 DEF NameFields
  <2>6. 4 + at >= 4 /\ (4 + at) - 4 = at
    BY <2>1
  <2>7. NameReads(NameField(strtab, name), t.data, name)
    BY <2>1, <2>3, <2>6 DEF NameReads
  <2>8. QED
    BY <2>1, <2>2, <2>5, <2>7
<1>2. CASE name \notin LongNames
  <2>1. InternLong(strtab, name) = strtab
    BY <1>2 DEF InternLong
  <2>2. NameField(strtab, name) = [inline |-> name, at |-> 0]
    BY <1>2 DEF NameField
  <2>3. Extends(strtab.data, strtab.data)
    BY DEF Extends, Consistent
  <2>4. NameField(strtab, name) \in NameFields
    BY <2>2 DEF NameFields
  <2>5. NameReads(NameField(strtab, name), strtab.data, name)
    BY <1>2, <2>2 DEF NameReads
  <2>6. QED
    BY <2>1, <2>3, <2>4, <2>5
<1>3. QED
  BY <1>1, <1>2

\* A stored name still reads the same when the table has grown.
LEMMA NameReadsExtends ==
  ASSUME NEW d \in Seq(Char \cup {NUL}), NEW d2 \in Seq(Char \cup {NUL}), Extends(d2, d),
         NEW f \in NameFields, NEW name \in Name, NameReads(f, d, name)
  PROVE  NameReads(f, d2, name)
<1>1. f.at \in Nat
  BY DEF NameFields
<1>2. CASE name \notin LongNames /\ f.inline = name /\ f.at = 0
  BY <1>2 DEF NameReads
<1>3. CASE f.inline = NoName /\ f.at >= 4 /\ ReadsAs(d, f.at - 4, name)
  <2>1. f.at - 4 \in Nat
    BY <1>1, <1>3
  <2>2. ReadsAs(d2, f.at - 4, name)
    BY <1>3, <2>1, ReadsAsExtends
  <2>3. QED
    BY <1>3, <2>2 DEF NameReads
<1>4. QED
  BY <1>2, <1>3 DEF NameReads

-----------------------------------------------------------------------------
(***************************************************************************)
(* The steps, one lemma for each action or group of alike actions.         *)
(***************************************************************************)
LEMMA EmptyTables ==
  /\ Consistent(NewTable)
  /\ DOMAIN EmptyMap = {}
  /\ EmptyOut.len = 0
BY DEF NewTable, Consistent, EmptyMap, EmptyOut

LEMMA InitIInv == Init => IInv
<1> SUFFICES ASSUME Init PROVE IInv
  OBVIOUS
<1> USE DEF Init
<1>1. TypeOK
  <2>1. opts \in [arch : Targets, subsystem : Subsystems \cup {"console"}]
    OBVIOUS
  <2>2. /\ sections \in Seq(Sections) /\ work \in Seq(Section) /\ slots \in Seq(Slots)
        /\ directives \in Seq(Char \cup {"/EXPORT:"})
        /\ recs \in Seq(Seq(Records)) /\ lay \in Seq(Places)
        /\ pc \in Phases /\ i \in Nat \ {0} /\ k \in Nat \ {0} /\ pos \in Nat
    BY DEF Phases
  <2>3. Consistent(strtab) /\ DOMAIN symIdx = {} /\ out.len \in Nat
    BY EmptyTables
  <2>4. QED
    BY <2>1, <2>2, <2>3 DEF TypeOK
<1>2. Shape
  BY DEF Shape, Before
<1>3. SlotsSound
  BY EmptyTables DEF SlotsSound
<1>4. QED
  BY <1>1, <1>2, <1>3 DEF IInv

\* A returned call leaves empty tables behind, whatever its outcome.
LEMMA ReturnStep == ASSUME IInv, NEW outcome, Return(outcome) PROVE IInv'
<1> USE DEF Return, file
<1>1. TypeOK'
  BY EmptyTables DEF IInv, TypeOK, Phases
<1>2. Shape'
  BY DEF Shape, Before
<1>3. SlotsSound'
  BY EmptyTables DEF SlotsSound
<1>4. QED
  BY <1>1, <1>2, <1>3 DEF IInv

\* While no call runs, and until the symbol table is begun, the tables are
\* empty; whatever is done keeps them so.
LEMMA EarlyLemma ==
  ASSUME IInv, pc \in Before \ {"headers"}, pc' \in Before,
         pc' = "headers" => i' = 1,
         opts' \in [arch : Targets, subsystem : Subsystems \cup {"console"}],
         sections' \in Seq(Sections), work' \in Seq(Section),
         i' \in Nat \ {0}, k' \in Nat \ {0},
         directives' \in Seq(Char \cup {"/EXPORT:"}), Consistent(strtab'),
         UNCHANGED <<symIdx, slots, recs, lay, pos, out>>
  PROVE  IInv'
<1>1. symIdx = EmptyMap /\ slots = << >> /\ recs = << >> /\ lay = << >>
  BY DEF IInv, Shape, Before
<1>2. TypeOK'
  BY <1>1 DEF IInv, TypeOK, Before, Phases
<1>3. Shape'
  <2>1. Len(work') \in Nat
    OBVIOUS
  <2>2. slots' = << >> /\ Len(slots') = 0
    BY <1>1
  <2>3. pc' = "headers" => i' - 1 <= Len(slots') /\ i' <= Len(work') + 1
    BY <2>1, <2>2
  <2>4. QED
    BY <1>1, <2>2, <2>3 DEF Shape, Before
<1>4. SlotsSound'
  BY <1>1, EmptyTables DEF SlotsSound
<1>5. QED
  BY <1>2, <1>3, <1>4 DEF IInv

LEMMA CallerStep == ASSUME IInv, Caller PROVE IInv'
<1> USE DEF names, layout
<1>1. /\ sections \in Seq(Sections) /\ work \in Seq(Section)
      /\ i \in Nat \ {0} /\ k \in Nat \ {0} /\ Consistent(strtab)
      /\ directives \in Seq(Char \cup {"/EXPORT:"})
      /\ opts \in [arch : Targets, subsystem : Subsystems \cup {"console"}]
  BY DEF IInv, TypeOK
<1>2. CASE \E s \in Sections : AddSection(s)
  <2>1. PICK s \in Sections : AddSection(s)
    BY <1>2
  <2>2. /\ pc = "idle" /\ pc' = "idle" /\ sections' = Append(sections, s)
        /\ UNCHANGED <<opts, i, k, directives, work, strtab, symIdx, slots, recs, lay, pos, out>>
    BY <2>1 DEF AddSection
  <2>3. sections' \in Seq(Sections)
    BY <1>1, <2>2
  <2>4. QED
    BY <1>1, <2>2, <2>3, EarlyLemma DEF Before
<1>3. CASE \E v \in Subsystems : SetSubsystem(v)
  <2>1. /\ pc = "idle" /\ pc' = "idle"
        /\ opts' \in [arch : Targets, subsystem : Subsystems \cup {"console"}]
        /\ UNCHANGED <<sections, i, k, directives, work, strtab, symIdx, slots, recs, lay, pos, out>>
    BY <1>1, <1>3 DEF SetSubsystem
  <2>2. QED
    BY <1>1, <2>1, EarlyLemma DEF Before
<1>4. CASE WriteTo
  <2>1. /\ pc = "idle" /\ pc' = "exports"
        /\ UNCHANGED <<opts, sections, i, k, directives, work, strtab, symIdx, slots, recs, lay,
                      pos, out>>
    BY <1>4 DEF WriteTo, file
  <2>2. QED
    BY <1>1, <2>1, EarlyLemma DEF Before
<1>5. QED
  BY <1>2, <1>3, <1>4 DEF Caller

LEMMA ScanStep == ASSUME IInv, ScanSymbol \/ ScanNextSection \/ ScanDone PROVE IInv'
<1> USE DEF file, names, layout
<1>1. /\ sections \in Seq(Sections) /\ work \in Seq(Section) /\ Len(sections) \in Nat
      /\ i \in Nat \ {0} /\ k \in Nat \ {0} /\ Consistent(strtab)
      /\ directives \in Seq(Char \cup {"/EXPORT:"})
      /\ opts \in [arch : Targets, subsystem : Subsystems \cup {"console"}]
  BY DEF IInv, TypeOK
<1>2. sections \in Seq(Section)
  BY <1>1, SectionsAssumption, SubsetType
<1>3. CASE ScanSymbol
  <2> DEFINE sym == sections[i].symbols[k]
  <2>1. /\ pc = "exports" /\ pc' = "exports" /\ i <= Len(sections)
        /\ k <= Len(sections[i].symbols) /\ k' = k + 1
        /\ directives' = IF sym.dllExport THEN directives \o <<"/EXPORT:">> \o sym.name
                         ELSE directives
        /\ UNCHANGED <<opts, sections, i, work, strtab, symIdx, slots, recs, lay, pos, out>>
    BY <1>3 DEF ScanSymbol
  <2>2. sections[i] \in Section
    BY <1>1, <1>2, <2>1
  <2>3. sections[i].symbols \in Seq(Symbol)
    BY <2>2, SectionFields
  <2>4. sym \in Symbol
    BY <1>1, <2>1, <2>3
  <2>5. sym.name \in Seq(Char)
    BY <2>4 DEF Symbol, Name
  <2>6. sym.name \in Seq(Char \cup {"/EXPORT:"})
    BY <2>5, SubsetType
  <2>7. <<"/EXPORT:">> \in Seq(Char \cup {"/EXPORT:"})
    OBVIOUS
  <2> HIDE DEF sym
  <2>8. directives \o <<"/EXPORT:">> \in Seq(Char \cup {"/EXPORT:"})
    BY <1>1, <2>7, JoinType
  <2>9. directives \o <<"/EXPORT:">> \o sym.name \in Seq(Char \cup {"/EXPORT:"})
    BY <2>6, <2>8, JoinType
  <2>10. directives' \in Seq(Char \cup {"/EXPORT:"})
    BY <1>1, <2>1, <2>9
  <2>11. k' \in Nat \ {0}
    BY <1>1, <2>1
  <2>12. QED
    BY <1>1, <2>1, <2>10, <2>11, EarlyLemma DEF Before
<1>4. CASE ScanNextSection
  <2>1. /\ pc = "exports" /\ pc' = "exports" /\ i' \in Nat \ {0} /\ k' \in Nat \ {0}
        /\ UNCHANGED <<opts, sections, directives, work, strtab, symIdx, slots, recs, lay, pos, out>>
    BY <1>1, <1>4 DEF ScanNextSection, NextSection
  <2>2. QED
    BY <1>1, <2>1, EarlyLemma DEF Before
<1>5. CASE ScanDone
  <2>1. /\ pc = "exports" /\ pc' = "check" /\ i' \in Nat \ {0} /\ k' \in Nat \ {0}
        /\ work' = IF directives = << >> THEN sections ELSE Append(sections, Drectve)
        /\ UNCHANGED <<opts, sections, directives, strtab, symIdx, slots, recs, lay, pos, out>>
    BY <1>5 DEF ScanDone, Goto
  <2>2. Drectve \in Section
    BY DrectveType DEF IInv
  <2>3. work' \in Seq(Section)
    BY <1>2, <2>1, <2>2
  <2>4. QED
    BY <1>1, <2>1, <2>3, EarlyLemma DEF Before
<1>6. QED
  BY <1>3, <1>4, <1>5

LEMMA ReferencedType ==
  ASSUME TypeOK, NEW name \in ReferencedNames(work)
  PROVE  name \in Name
<1>1. PICK n \in DOMAIN work : \E m \in DOMAIN work[n].relocs : name = work[n].relocs[m].symbol
  BY DEF ReferencedNames
<1>2. n \in 1 .. Len(work)
  BY DEF TypeOK
<1>3. work[n].relocs \in Seq(Reloc)
  BY <1>2, WorkType
<1>4. PICK m \in DOMAIN work[n].relocs : name = work[n].relocs[m].symbol
  BY <1>1
<1>5. work[n].relocs[m] \in Reloc
  BY <1>3
<1>6. QED
  BY <1>4, <1>5 DEF Reloc

LEMMA NamesStep ==
  ASSUME IInv, Accept \/ InternName \/ InternNextSection \/ InternExtern \/ NamesDone
  PROVE  IInv'
<1> USE DEF file, names, layout
<1>1. /\ sections \in Seq(Sections) /\ work \in Seq(Section) /\ Len(work) \in Nat
      /\ i \in Nat \ {0} /\ k \in Nat \ {0} /\ Consistent(strtab)
      /\ directives \in Seq(Char \cup {"/EXPORT:"})
      /\ opts \in [arch : Targets, subsystem : Subsystems \cup {"console"}]
  BY DEF IInv, TypeOK
<1>2. CASE InternName
  <2> DEFINE name == NameAt(work[i], k)
  <2>1. /\ pc = "names" /\ pc' = "names" /\ i <= Len(work) /\ k <= Len(work[i].symbols) + 1
        /\ k' = k + 1 /\ strtab' = InternLong(strtab, name)
        /\ UNCHANGED <<opts, sections, i, directives, work, symIdx, slots, recs, lay, pos, out>>
    BY <1>2 DEF InternName
  <2>2. work[i] \in Section /\ work[i].symbols \in Seq(Symbol)
    BY <1>1, <2>1, WorkType DEF IInv
  <2>3. name \in Name
    <3>1. CASE k = 1
      BY <2>2, <3>1, SectionNameType DEF NameAt
    <3>2. CASE k # 1
      <4>1. k - 1 \in 1 .. Len(work[i].symbols)
        BY <1>1, <2>1, <2>2, <3>2
      <4>2. work[i].symbols[k - 1] \in Symbol
        BY <2>2, <4>1
      <4>3. QED
        BY <3>2, <4>2 DEF NameAt, Symbol
    <3>3. QED
      BY <3>1, <3>2
  <2> HIDE DEF name
  <2>4. Consistent(strtab')
    BY <1>1, <2>1, <2>3, InternLongLemma
  <2>5. k' \in Nat \ {0}
    BY <1>1, <2>1
  <2>6. QED
    BY <1>1, <2>1, <2>4, <2>5, EarlyLemma DEF Before
<1>3. CASE InternExtern
  <2>1. /\ pc = "names" /\ pc' = "names"
        /\ UNCHANGED <<opts, sections, i, k, directives, work, symIdx, slots, recs, lay, pos, out>>
    BY <1>3 DEF InternExtern
  <2>2. PICK name \in LongNames : strtab' = Intern(strtab, name)
    BY <1>3 DEF InternExtern, First
  <2>3. Consistent(strtab')
    BY <1>1, <2>2, LongNamesAssumption, InternConsistent
  <2>4. QED
    BY <1>1, <2>1, <2>3, EarlyLemma DEF Before
<1>4. CASE Accept \/ InternNextSection \/ NamesDone
  <2>1. /\ pc \in {"check", "names"} /\ pc' \in {"names", "headers"}
        /\ pc' = "headers" => i' = 1
        /\ i' \in Nat \ {0} /\ k' \in Nat \ {0}
        /\ UNCHANGED <<opts, sections, directives, work, strtab, symIdx, slots, recs, lay, pos, out>>
    BY <1>1, <1>4 DEF Accept, InternNextSection, NamesDone, NextSection, Goto
  <2>2. QED
    BY <1>1, <2>1, EarlyLemma DEF Before
<1>5. QED
  BY <1>2, <1>3, <1>4

-----------------------------------------------------------------------------
\* An auxiliary record has no name: a slot that is none has a typed one.
LEMMA HeadName ==
  ASSUME NEW slot \in Slots, slot.class # "AUX" PROVE slot.name \in NameFields
BY DEF Slots

LEMMA SlotType ==
  ASSUME Consistent(strtab), NEW name \in Name, NEW value \in Nat, NEW section \in Int,
         NEW type \in {"NULL", "FUNC"}, NEW class \in {"STATIC", "EXTERNAL"}, NEW aux \in {0, 1}
  PROVE  LET slot == Slot(name, value, section, type, class, aux)
         IN  /\ slot \in Slots /\ slot.class # "AUX"
             /\ slot.name = NameField(strtab, name)
<1>1. NameField(strtab, name) \in NameFields
  BY InternLongLemma
<1>2. QED
  BY <1>1 DEF Slot, Slots

\* The heart of the symbol table: slots are added at the end, no name moves.
LEMMA CarriesExtends ==
  ASSUME TypeOK, Consistent(strtab'), Extends(strtab'.data, strtab.data),
         slots' \in Seq(Slots), Len(slots) <= Len(slots'),
         \A n \in 1 .. Len(slots) : slots'[n] = slots[n],
         NEW n \in Nat, NEW name \in Name, Carries(n, name)
  PROVE  Carries(n, name)'
<1>1. /\ n + 1 \in 1 .. Len(slots) /\ slots[n + 1].class # "AUX"
      /\ NameReads(slots[n + 1].name, strtab.data, name)
  BY DEF Carries, TypeOK
<1>2. slots[n + 1] \in Slots
  BY <1>1 DEF TypeOK
<1>3. slots[n + 1].name \in NameFields
  BY <1>1, <1>2, HeadName
<1>4. strtab.data \in Seq(Char \cup {NUL}) /\ strtab'.data \in Seq(Char \cup {NUL})
  BY DEF TypeOK, Consistent
<1>5. NameReads(slots[n + 1].name, strtab'.data, name)
  BY <1>1, <1>3, <1>4, NameReadsExtends
<1>6. slots'[n + 1] = slots[n + 1] /\ n + 1 \in DOMAIN slots'
  BY <1>1 DEF TypeOK
<1>7. QED
  BY <1>1, <1>5, <1>6 DEF Carries

LEMMA EnterLemma ==
  ASSUME IInv, pc = "symbols", UNCHANGED <<work, recs>>,
         NEW name \in Name, NEW value \in Nat, NEW section \in Int,
         NEW type \in {"NULL", "FUNC"}, NEW class \in {"STATIC", "EXTERNAL"},
         EnterSymbol(name, value, section, type, class)
  PROVE  /\ Consistent(strtab')
         /\ DOMAIN symIdx' \subseteq Name
         /\ slots' \in Seq(Slots)
         /\ Len(slots') = Len(slots) + 1
         /\ SlotsSound'
<1> DEFINE slot == Slot(name, value, section, type, class, 0)
<1>1. /\ Consistent(strtab') /\ Extends(strtab'.data, strtab.data)
      /\ NameReads(NameField(strtab, name), strtab'.data, name)
  BY InternLongLemma DEF EnterSymbol, IInv, TypeOK
<1>2. slot \in Slots /\ slot.class # "AUX" /\ slot.name = NameField(strtab, name)
  <2>1. Consistent(strtab)
    BY DEF IInv, TypeOK
  <2>2. 0 \in {0, 1}
    OBVIOUS
  <2>3. QED
    BY <2>1, <2>2, SlotType
<1>3. slots \in Seq(Slots) /\ slots' = Append(slots, slot)
  BY DEF IInv, TypeOK, EnterSymbol
<1> HIDE DEF slot
<1>4. /\ slots' \in Seq(Slots) /\ Len(slots') = Len(slots) + 1
      /\ \A n \in 1 .. Len(slots) : slots'[n] = slots[n]
      /\ slots'[Len(slots) + 1] = slot /\ Len(slots) + 1 \in DOMAIN slots'
      /\ Len(slots) \in Nat
  BY <1>2, <1>3
<1>5. /\ DOMAIN symIdx' = DOMAIN symIdx \cup {name}
      /\ symIdx'[name] = Len(slots)
      /\ \A n \in DOMAIN symIdx : n # name => symIdx'[n] = symIdx[n]
  BY DEF EnterSymbol, Put
<1>6. DOMAIN symIdx \subseteq Name /\ TypeOK
  BY DEF IInv, TypeOK
<1>7. ASSUME NEW n \in DOMAIN symIdx, n # name
      PROVE  (symIdx[n] \in Nat /\ Len(work) <= symIdx[n] /\ Carries(symIdx[n], n))'
  <2>1. symIdx[n] \in Nat /\ Len(work) <= symIdx[n] /\ Carries(symIdx[n], n)
    BY DEF IInv, SlotsSound
  <2>2. PICK x \in Nat : x = symIdx[n]
    BY <2>1
  <2>3. Carries(x, n)'
    BY <1>1, <1>4, <1>6, <2>1, <2>2, CarriesExtends
  <2>4. symIdx'[n] = x
    BY <1>5, <1>7, <2>2
  <2>5. QED
    BY <2>1, <2>2, <2>3, <2>4
<1>8. (symIdx[name] \in Nat /\ Len(work) <= symIdx[name] /\ Carries(symIdx[name], name))'
  <2>1. Len(work) <= Len(slots)
    BY DEF IInv, Shape, Before
  <2>2. NameReads(slots'[Len(slots) + 1].name, strtab'.data, name)
    BY <1>1, <1>2, <1>4
  <2>3. QED
    BY <1>2, <1>4, <1>5, <2>1, <2>2 DEF Carries
<1>9. SlotsSound'
  <2>1. recs' = << >>
    BY DEF IInv, Shape
  <2>2. QED
    BY <1>5, <1>7, <1>8, <2>1 DEF SlotsSound
<1>10. QED
  BY <1>1, <1>4, <1>5, <1>6, <1>9

LEMMA HeadersStep == ASSUME IInv, SectionSymbol \/ SectionSymbolsDone PROVE IInv'
<1> USE DEF file, names, layout
<1>1. /\ work \in Seq(Section) /\ Len(work) \in Nat /\ slots \in Seq(Slots)
      /\ i \in Nat \ {0} /\ k \in Nat \ {0} /\ Consistent(strtab)
  BY DEF IInv, TypeOK
<1>2. ASSUME pc = "headers" PROVE symIdx = EmptyMap /\ recs = << >> /\ lay = << >>
  BY <1>2 DEF IInv, Shape, Before
<1>3. CASE SectionSymbol
  <2> DEFINE s    == work[i]
             n    == IF s.linkOnce THEN 1 ELSE 0
             head == Slot(SectionName(s), 0, Int16(i), "NULL", "STATIC", n)
             tail == IF s.linkOnce THEN <<AuxSlot(s)>> ELSE << >>
  <2>1. /\ pc = "headers" /\ pc' = "headers" /\ i <= Len(work) /\ i' = i + 1 /\ k' = k
        /\ slots' = slots \o <<head>> \o tail
        /\ strtab' = InternLong(strtab, SectionName(s))
        /\ UNCHANGED <<opts, sections, directives, work, symIdx, recs, lay, pos, out>>
    BY <1>3 DEF SectionSymbol
  <2>2. s \in Section /\ s.relocs \in Seq(Reloc) /\ s.size \in Nat
    BY <1>1, <2>1, WorkType DEF IInv
  <2>3. SectionName(s) \in Name
    BY <2>2, SectionNameType
  <2>4. Int16(i) \in Int /\ n \in {0, 1}
    BY <1>1, Int16Type
  <2>5. head \in Slots
    <3> HIDE DEF n, s
    <3>1. QED
      BY <1>1, <2>3, <2>4, SlotType
  <2>6. AuxSlot(s) \in Slots
    <3>1. RawSize(s) \in Nat
      BY <2>2, Uint32Fits DEF RawSize
    <3>2. Uint16(Len(s.relocs)) \in Nat
      <4>1. Len(s.relocs) \in Nat
        BY <2>2
      <4>2. QED
        BY <4>1, Int16Type
    <3>3. QED
      BY <3>1, <3>2 DEF AuxSlot, Slots
  <2> HIDE DEF head, s
  <2>7. tail \in Seq(Slots)
    BY <2>6
  <2> HIDE DEF tail
  <2>8. slots \o <<head>> \in Seq(Slots) /\ Len(slots \o <<head>>) = Len(slots) + 1
    BY <1>1, <2>5
  <2>9. slots' \in Seq(Slots) /\ Len(slots') >= Len(slots) + 1
    BY <2>1, <2>7, <2>8
  <2>10. Consistent(strtab')
    BY <1>1, <2>1, <2>3, InternLongLemma
  <2>11. TypeOK'
    BY <1>1, <2>1, <2>9, <2>10 DEF IInv, TypeOK
  <2>12. Shape'
    <3>1. i - 1 <= Len(slots) /\ Len(slots) \in Nat
      BY <1>1, <2>1 DEF IInv, Shape
    <3>2. Len(slots') \in Nat
      BY <2>9
    <3>3. i' - 1 <= Len(slots') /\ i' <= Len(work') + 1
      BY <1>1, <2>1, <2>9, <3>1, <3>2
    <3>4. QED
      BY <1>2, <2>1, <3>3 DEF Shape, Before
  <2>13. SlotsSound'
    BY <1>2, <2>1, EmptyTables DEF SlotsSound
  <2>14. QED
    BY <2>11, <2>12, <2>13 DEF IInv
<1>4. CASE SectionSymbolsDone
  <2>1. /\ pc = "headers" /\ pc' = "symbols" /\ i > Len(work) /\ i' = 1 /\ k' = 1
        /\ UNCHANGED <<opts, sections, directives, work, strtab, symIdx, slots, recs, lay, pos, out>>
    BY <1>4 DEF SectionSymbolsDone, Goto
  <2>2. TypeOK'
    BY <2>1 DEF IInv, TypeOK, Phases
  <2>3. Shape'
    <3>1. Len(work) <= Len(slots)
      BY <1>1, <2>1 DEF IInv, Shape
    <3>2. QED
      BY <1>2, <2>1, <3>1 DEF Shape, Before
  <2>4. SlotsSound'
    BY <1>2, <2>1, EmptyTables DEF SlotsSound
  <2>5. QED
    BY <2>2, <2>3, <2>4 DEF IInv
<1>5. QED
  BY <1>3, <1>4

LEMMA EnteredLemma ==
  ASSUME IInv, pc = "symbols", i' = i, k' \in Nat \ {0},
         UNCHANGED <<opts, sections, pc, directives, work, recs, lay, pos, out>>,
         Consistent(strtab'), DOMAIN symIdx' \subseteq Name, slots' \in Seq(Slots),
         Len(slots') = Len(slots) + 1, SlotsSound'
  PROVE  IInv'
<1>1. TypeOK'
  BY DEF IInv, TypeOK
<1>2. Shape'
  BY DEF IInv, TypeOK, Shape, Before
<1>3. QED
  BY <1>1, <1>2 DEF IInv

LEMMA DefineSymbolStep == ASSUME IInv, DefineSymbol PROVE IInv'
<1> USE DEF file, layout
<1> DEFINE sym == work[i].symbols[k]
<1>1. /\ pc = "symbols" /\ i <= Len(work) /\ k <= Len(work[i].symbols) /\ k' = k + 1
      /\ EnterSymbol(sym.name, sym.offset, Int16(i), Type(sym.kind), Class(sym.binding))
      /\ UNCHANGED <<opts, sections, pc, i, directives, work, recs, lay, pos, out>>
  BY DEF DefineSymbol
<1>2. i \in 1 .. Len(work) /\ i \in Nat /\ k \in Nat \ {0}
  BY <1>1 DEF IInv, TypeOK
<1>3. work[i].symbols \in Seq(Symbol)
  BY <1>2, WorkType DEF IInv
<1>4. sym \in Symbol
  BY <1>1, <1>2, <1>3
<1>5. sym.name \in Name /\ sym.offset \in Nat
  BY <1>4 DEF Symbol
<1>6. /\ Int16(i) \in Int
      /\ Type(sym.kind) \in {"NULL", "FUNC"} /\ Class(sym.binding) \in {"STATIC", "EXTERNAL"}
  BY <1>2, Int16Type DEF Type, Class
<1> HIDE DEF sym
<1>7. /\ Consistent(strtab') /\ DOMAIN symIdx' \subseteq Name /\ slots' \in Seq(Slots)
      /\ Len(slots') = Len(slots) + 1 /\ SlotsSound'
  BY <1>1, <1>5, <1>6, EnterLemma
<1>8. k' \in Nat \ {0}
  BY <1>1, <1>2
<1>9. QED
  BY <1>1, <1>7, <1>8, EnteredLemma

LEMMA UndefinedSymbolStep == ASSUME IInv, UndefinedSymbol PROVE IInv'
<1> USE DEF file, layout
<1>1. /\ pc = "symbols"
      /\ UNCHANGED <<opts, sections, pc, i, k, directives, work, recs, lay, pos, out>>
  BY DEF UndefinedSymbol
<1>2. PICK name \in ReferencedNames(work) : EnterSymbol(name, 0, 0, "NULL", "EXTERNAL")
  BY DEF UndefinedSymbol, First, ExternalRefs
<1>3. name \in Name
  BY ReferencedType DEF IInv
<1>4. /\ Consistent(strtab') /\ DOMAIN symIdx' \subseteq Name /\ slots' \in Seq(Slots)
      /\ Len(slots') = Len(slots) + 1 /\ SlotsSound'
  BY <1>1, <1>2, <1>3, EnterLemma
<1>5. k' \in Nat \ {0}
  BY <1>1 DEF IInv, TypeOK
<1>6. QED
  BY <1>1, <1>4, <1>5, EnteredLemma

LEMMA MoveStep == ASSUME IInv, DefineNextSection \/ SymbolsDone PROVE IInv'
<1> USE DEF file, names, layout
<1>1. /\ pc = "symbols" /\ pc' \in {"symbols", "relocs"} /\ (pc' = "relocs" => i' = 1)
      /\ i' \in Nat \ {0} /\ k' \in Nat \ {0}
      /\ UNCHANGED <<opts, sections, directives, work, strtab, symIdx, slots, recs, lay, pos, out>>
  BY DEF DefineNextSection, SymbolsDone, NextSection, Goto, IInv, TypeOK
<1>2. TypeOK'
  BY <1>1 DEF IInv, TypeOK, Phases
<1>3. Shape'
  <2>1. recs = << >> /\ lay = << >> /\ Len(work) <= Len(slots)
    BY <1>1 DEF IInv, Shape, Before
  <2>2. Len(work) \in Nat
    BY DEF IInv, TypeOK
  <2>3. QED
    BY <1>1, <2>1, <2>2 DEF Shape, Before
<1>4. SlotsSound'
  BY <1>1 DEF IInv, SlotsSound, Carries
<1>5. QED
  BY <1>2, <1>3, <1>4 DEF IInv

LEMMA ConvertSectionStep == ASSUME IInv, ConvertSection PROVE IInv'
<1> USE DEF file, names, layout
<1> DEFINE rs  == work[i].relocs
           new == [m \in DOMAIN rs |-> Record(rs[m])]
<1>1. /\ pc = "relocs" /\ i <= Len(work)
      /\ \A m \in DOMAIN rs : RelocOK(rs[m])
      /\ recs' = Append(recs, new) /\ i' = i + 1
      /\ UNCHANGED <<opts, sections, pc, k, directives, work, strtab, symIdx, slots, lay, pos, out>>
  BY DEF ConvertSection
<1>2. i \in 1 .. Len(work) /\ DOMAIN work = 1 .. Len(work)
  BY <1>1 DEF IInv, TypeOK
<1>3. rs \in Seq(Reloc) /\ Len(rs) \in Nat /\ DOMAIN rs = 1 .. Len(rs)
  BY <1>2, WorkType DEF IInv
<1>4. ASSUME NEW m \in DOMAIN rs
      PROVE  /\ Record(rs[m]) \in Records
             /\ Record(rs[m]).offset = rs[m].offset
             /\ Carries(Record(rs[m]).sym, rs[m].symbol)
  <2> DEFINE r == rs[m]
  <2>1. r \in Reloc
    BY <1>3
  <2>2. r.offset \in Nat
    BY <2>1 DEF Reloc
  <2>3. r.symbol \in DOMAIN symIdx /\ Supported(opts.arch, r.kind)
    BY <1>1 DEF RelocOK
  <2> HIDE DEF r
  <2>4. symIdx[r.symbol] \in Nat /\ Carries(symIdx[r.symbol], r.symbol)
    BY <2>3 DEF IInv, SlotsSound
  <2>5. RelocType(opts.arch, r.kind) \in Nat
    BY <2>3, RelocTypeType
  <2>6. /\ Record(r) \in Records /\ Record(r).offset = r.offset
        /\ Record(r).sym = symIdx[r.symbol]
    BY <2>2, <2>4, <2>5 DEF Record, Records
  <2>7. QED
    BY <2>4, <2>6 DEF r
<1>5. new \in Seq(Records) /\ Len(new) = Len(rs)
  BY <1>3, <1>4
<1>6. \A m \in DOMAIN new :
        new[m].offset = rs[m].offset /\ Carries(new[m].sym, rs[m].symbol)
  BY <1>4
<1> HIDE DEF new
<1>7. recs \in Seq(Seq(Records)) /\ Len(recs) = i - 1
  BY <1>1 DEF IInv, TypeOK, Shape
<1>8. /\ recs' \in Seq(Seq(Records)) /\ Len(recs') = i
      /\ \A c \in 1 .. i - 1 : recs'[c] = recs[c]
      /\ recs'[i] = new
      /\ DOMAIN recs = 1 .. i - 1 /\ DOMAIN recs' = 1 .. i
  BY <1>1, <1>2, <1>5, <1>7
<1>9. TypeOK'
  BY <1>1, <1>2, <1>8 DEF IInv, TypeOK
<1>10. Shape'
  <2>1. Len(recs') = i' - 1 /\ i' <= Len(work) + 1
    BY <1>1, <1>2, <1>8
  <2>2. QED
    BY <1>1, <2>1 DEF IInv, Shape, Before
<1>11. SlotsSound'
  <2>1. ASSUME NEW c \in DOMAIN recs'
        PROVE  /\ c \in DOMAIN work
               /\ Len(recs'[c]) = Len(work[c].relocs)
               /\ \A m \in DOMAIN recs'[c] :
                    /\ recs'[c][m].offset = work[c].relocs[m].offset
                    /\ Carries(recs'[c][m].sym, work[c].relocs[m].symbol)
    <3>1. CASE c = i
      BY <1>2, <1>5, <1>6, <1>8, <3>1
    <3>2. CASE c \in 1 .. i - 1
      BY <1>8, <3>2 DEF IInv, SlotsSound
    <3>3. QED
      BY <1>2, <1>8, <3>1, <3>2
  <2>2. QED
    BY <1>1, <2>1 DEF IInv, SlotsSound, Carries
<1>12. QED
  BY <1>9, <1>10, <1>11 DEF IInv

\* Phases 6 and 7 leave the slots and the records alone.
LEMMA LayoutLemma ==
  ASSUME IInv, pc \in {"relocs", "layout", "write"}, pc' \in {"layout", "write"},
         i' \in Nat \ {0}, k' \in Nat \ {0}, lay' \in Seq(Places),
         pos' \in Nat, out'.len \in Nat, Len(recs) = Len(work),
         pc' = "layout" => Len(lay') = i' - 1 /\ i' <= Len(work) + 1,
         pc' = "write" => Len(lay') = Len(work),
         UNCHANGED <<opts, sections, directives, work, strtab, symIdx, slots, recs>>
  PROVE  IInv'
<1>1. TypeOK'
  BY DEF IInv, TypeOK, Phases
<1>2. Shape'
  BY DEF IInv, Shape, Before
<1>3. SlotsSound'
  BY DEF IInv, SlotsSound, Carries
<1>4. QED
  BY <1>1, <1>2, <1>3 DEF IInv

LEMMA RelocsDoneStep == ASSUME IInv, RelocsDone PROVE IInv'
<1>1. /\ pc = "relocs" /\ pc' = "layout" /\ i > Len(work) /\ i' = 1 /\ k' = 1
      /\ pos' = 20 + 40 * Len(work)
      /\ UNCHANGED <<opts, sections, directives, work, strtab, symIdx, slots, recs, lay, out>>
  BY DEF RelocsDone, Goto, file, names
<1>2. /\ Len(work) \in Nat /\ i \in Nat /\ out.len \in Nat
      /\ lay = << >> /\ Len(recs) = i - 1 /\ i <= Len(work) + 1
  BY <1>1 DEF IInv, TypeOK, Shape
<1>3. pos' \in Nat
  BY <1>1, <1>2
<1>4. Len(recs) = Len(work)
  BY <1>1, <1>2
<1>5. lay' \in Seq(Places) /\ Len(lay') = i' - 1 /\ i' <= Len(work) + 1
  BY <1>1, <1>2
<1>6. QED
  BY <1>1, <1>2, <1>3, <1>4, <1>5, LayoutLemma

LEMMA PlaceStep == ASSUME IInv, SkipSection \/ PlaceSection PROVE IInv'
<1> DEFINE n   == Len(recs[i])
           at  == AlignUp(pos, EffectiveAlign(work[i]))
           end == at + work[i].size
           placed == [raw |-> at, relocs |-> IF n > 0 THEN end ELSE 0, count |-> n]
<1>1. /\ pc = "layout" /\ pc' = "layout" /\ i <= Len(work) /\ i' = i + 1 /\ k' = k
      /\ UNCHANGED <<opts, sections, directives, work, strtab, symIdx, slots, recs, out>>
  BY DEF SkipSection, PlaceSection, file, names
<1>2. i \in 1 .. Len(work) /\ Len(work) \in Nat
  BY <1>1 DEF IInv, TypeOK
<1>3. Len(recs) = Len(work) /\ Len(lay) = i - 1
  BY <1>1 DEF IInv, Shape
<1>4. lay \in Seq(Places) /\ pos \in Nat /\ out.len \in Nat /\ recs \in Seq(Seq(Records))
  BY DEF IInv, TypeOK
<1>5. n \in Nat
  BY <1>2, <1>3, <1>4
<1>6. at \in Nat /\ end \in Nat
  <2>1. work[i] \in Section /\ work[i].size \in Nat
    BY <1>2, WorkType DEF IInv
  <2>2. at \in Nat
    BY <1>4, <2>1, EffectiveAlignType, AlignUpLemma
  <2> HIDE DEF at
  <2>3. QED
    BY <2>1, <2>2
<1> HIDE DEF n, at, end
<1>7. placed \in Places /\ NoPlace \in Places
  BY <1>5, <1>6 DEF Places, NoPlace
<1>8. \E p \in Places : lay' = Append(lay, p)
  <2>1. CASE SkipSection
    BY <1>7, <2>1 DEF SkipSection
  <2>2. CASE PlaceSection
    BY <1>7, <2>2 DEF PlaceSection, n, at, end
  <2>3. QED
    BY <2>1, <2>2
<1>9. pos' \in Nat
  <2>1. CASE SkipSection
    BY <1>4, <2>1 DEF SkipSection
  <2>2. CASE PlaceSection
    <3>1. pos' = end + 10 * n
      BY <2>2 DEF PlaceSection, n, at, end
    <3>2. QED
      BY <1>5, <1>6, <3>1
  <2>3. QED
    BY <2>1, <2>2
<1>10. lay' \in Seq(Places) /\ Len(lay') = i
  BY <1>2, <1>3, <1>4, <1>8
<1>11. /\ i' \in Nat \ {0} /\ k' \in Nat \ {0}
       /\ Len(lay') = i' - 1 /\ i' <= Len(work) + 1
  BY <1>1, <1>2, <1>10 DEF IInv, TypeOK
<1>12. QED
  BY <1>1, <1>3, <1>4, <1>9, <1>10, <1>11, LayoutLemma

LEMMA LayoutDoneStep == ASSUME IInv, LayoutDone PROVE IInv'
<1>1. /\ pc = "layout" /\ pc' = "write" /\ i > Len(work) /\ i' = 1 /\ k' = 1
      /\ out' = [EmptyOut EXCEPT !.len = 20 + 40 * Len(work)]
      /\ UNCHANGED <<opts, sections, directives, work, strtab, symIdx, slots, recs, lay, pos>>
  BY DEF LayoutDone, Goto, file, names
<1>2. /\ Len(work) \in Nat /\ i \in Nat /\ pos \in Nat /\ lay \in Seq(Places)
  BY DEF IInv, TypeOK
<1>3. Len(recs) = Len(work) /\ Len(lay) = i - 1 /\ i <= Len(work) + 1
  BY <1>1 DEF IInv, Shape
<1>4. out'.len = 20 + 40 * Len(work)
  BY <1>1 DEF EmptyOut
<1>5. Len(lay') = Len(work) /\ out'.len \in Nat
  BY <1>1, <1>2, <1>3, <1>4
<1>6. QED
  BY <1>1, <1>2, <1>3, <1>5, LayoutLemma

LEMMA WriteSectionStep == ASSUME IInv, WriteSection PROVE IInv'
<1> DEFINE to  == Reach(out.len, lay[i].raw)
           raw == Emit(out, to, work[i].size, PatchedCode(i))
           all == Emit(raw, 0, 10 * Len(recs[i]), recs[i])
<1>1. /\ pc = "write" /\ pc' = "write" /\ i <= Len(work) /\ i' = i + 1 /\ k' = k
      /\ out' = out \/ out' = raw \/ out' = all
      /\ UNCHANGED <<opts, sections, directives, work, strtab, symIdx, slots, recs, lay, pos>>
  BY DEF WriteSection, file, names
<1>2. i \in 1 .. Len(work) /\ Len(work) \in Nat
  BY <1>1 DEF IInv, TypeOK
<1>3. Len(recs) = Len(work) /\ Len(lay) = Len(work)
  BY <1>1 DEF IInv, Shape
<1>4. lay \in Seq(Places) /\ pos \in Nat /\ out.len \in Nat /\ recs \in Seq(Seq(Records))
  BY DEF IInv, TypeOK
<1>5. lay[i].raw \in Nat
  <2>1. lay[i] \in Places
    BY <1>2, <1>3, <1>4
  <2>2. QED
    BY <2>1 DEF Places
<1>6. work[i].size \in Nat
  BY <1>2, WorkType DEF IInv
<1>7. 10 * Len(recs[i]) \in Nat
  BY <1>2, <1>3, <1>4
<1>8. raw.len \in Nat
  <2>1. to \in Nat
    BY <1>4, <1>5, ReachFits
  <2> HIDE DEF to
  <2>2. QED
    BY <1>4, <1>6, <2>1, EmitLength
<1>9. all.len \in Nat
  BY <1>7, <1>8, EmitLength
<1> HIDE DEF raw, all
<1>10. out'.len \in Nat /\ i' \in Nat \ {0} /\ k' \in Nat \ {0}
  BY <1>1, <1>2, <1>4, <1>8, <1>9 DEF IInv, TypeOK
<1>11. QED
  BY <1>1, <1>3, <1>4, <1>10, LayoutLemma

LEMMA BuildStep == IInv /\ Build => IInv'
<1> SUFFICES ASSUME IInv, Build PROVE IInv'
  OBVIOUS
<1>1. CASE \/ TooManySections \/ UnnamedSection \/ RelocFails \/ TooManyRelocs \/ Deliver
  BY <1>1, ReturnStep DEF TooManySections, UnnamedSection, RelocFails, TooManyRelocs,
                          Deliver, Fail
<1>2. CASE ScanSymbol \/ ScanNextSection \/ ScanDone
  BY <1>2, ScanStep
<1>3. CASE Accept \/ InternName \/ InternNextSection \/ InternExtern \/ NamesDone
  BY <1>3, NamesStep
<1>4. CASE SectionSymbol \/ SectionSymbolsDone
  BY <1>4, HeadersStep
<1>5. CASE DefineSymbol
  BY <1>5, DefineSymbolStep
<1>6. CASE UndefinedSymbol
  BY <1>6, UndefinedSymbolStep
<1>7. CASE DefineNextSection \/ SymbolsDone
  BY <1>7, MoveStep
<1>8. CASE ConvertSection
  BY <1>8, ConvertSectionStep
<1>9. CASE RelocsDone
  BY <1>9, RelocsDoneStep
<1>10. CASE SkipSection \/ PlaceSection
  BY <1>10, PlaceStep
<1>11. CASE LayoutDone
  BY <1>11, LayoutDoneStep
<1>12. CASE WriteSection
  BY <1>12, WriteSectionStep
<1>13. QED
  BY <1>1, <1>2, <1>3, <1>4, <1>5, <1>6, <1>7, <1>8, <1>9, <1>10, <1>11, <1>12 DEF Build

LEMMA StutterStep == IInv /\ UNCHANGED vars => IInv'
<1> SUFFICES ASSUME IInv, UNCHANGED vars PROVE IInv'
  OBVIOUS
<1> USE DEF vars, file, names, layout
<1>1. TypeOK'
  BY DEF IInv, TypeOK
<1>2. Shape'
  BY DEF IInv, Shape
<1>3. SlotsSound'
  BY DEF IInv, SlotsSound, Carries
<1>4. QED
  BY <1>1, <1>2, <1>3 DEF IInv

-----------------------------------------------------------------------------
\* The tables of the build satisfy IInv in every reachable state.
THEOREM Inductive == Spec => []IInv
<1>1. IInv /\ [Next]_vars => IInv'
  BY BuildStep, CallerStep, StutterStep DEF Next
<1>2. QED
  BY InitIInv, <1>1, PTL DEF Spec

\* Every variable keeps its type and the string table stays consistent.
THEOREM TypeCorrect == Spec => []TypeOK
<1>1. IInv => TypeOK
  BY DEF IInv
<1>2. QED
  BY Inductive, <1>1, PTL

\* The map of slot indices never points at an auxiliary record and never lies,
\* and every record names its symbol through it (symIdx in build).
THEOREM RecordsKeepTheirSlot == Spec => []SlotsSound
<1>1. IInv => SlotsSound
  BY DEF IInv
<1>2. QED
  BY Inductive, <1>1, PTL

-----------------------------------------------------------------------------
(***************************************************************************)
(* A call answers rightly: it fails when it must and only then, and the    *)
(* build is an object.Builder.  Answers adds what the build knows of its   *)
(* input: whether a symbol exported to the linker has been seen, that the  *)
(* work list is the File's and at most .drectve, that every name referred  *)
(* to is in the map behind the symbols, and that the sections converted    *)
(* and laid out so far were in order.                                      *)
(***************************************************************************)
Exporting(n, m) == sections[n].symbols[m].dllExport

Exports ==
  \E n \in DOMAIN sections : \E m \in DOMAIN sections[n].symbols : Exporting(n, m)

\* Place m of section n is before the cursor.
Passed(n, m) == n < i \/ (n = i /\ m < k)

Scanned ==
  /\ pc = "idle" => i = 1 /\ k = 1 /\ directives = << >>
  /\ pc = "exports" =>
       (directives # << >> <=>
          \E n \in DOMAIN sections : \E m \in DOMAIN sections[n].symbols :
            Passed(n, m) /\ Exporting(n, m))

\* The work list once it is there, and what the check has found of it.
Listed ==
  pc \notin {"idle", "exports"} =>
    /\ Len(work) = Len(sections) + (IF Exports THEN 1 ELSE 0)
    /\ \A n \in DOMAIN sections : n \in DOMAIN work /\ work[n] = sections[n]
    /\ \A n \in DOMAIN work \ DOMAIN sections : work[n] = Drectve
    /\ pc # "check" => Len(work) < Word16 /\ \A n \in DOMAIN work : ~Unnamed(work[n])

NamesIn ==
  /\ pc = "symbols" =>
       \A n \in DOMAIN work : \A m \in DOMAIN work[n].symbols :
         Passed(n, m) => work[n].symbols[m].name \in DOMAIN symIdx
  /\ pc \in {"relocs", "layout", "write"} => ReferencedNames(work) \subseteq DOMAIN symIdx

InOrder ==
  /\ \A n \in DOMAIN recs : \A m \in DOMAIN work[n].relocs :
       Supported(opts.arch, work[n].relocs[m].kind)
  /\ \A n \in DOMAIN lay : NoBits(work[n]) \/ Len(work[n].relocs) < Word16

Answers == Scanned /\ Listed /\ NamesIn /\ InOrder

\* Places in the File and in the work list are positive numbers.
LEMMA PlaceType ==
  ASSUME IInv
  PROVE  /\ i \in Nat \ {0} /\ k \in Nat \ {0}
         /\ DOMAIN sections = 1 .. Len(sections) /\ Len(sections) \in Nat
         /\ DOMAIN work = 1 .. Len(work) /\ Len(work) \in Nat
         /\ \A n \in DOMAIN sections :
              /\ DOMAIN sections[n].symbols = 1 .. Len(sections[n].symbols)
              /\ Len(sections[n].symbols) \in Nat
         /\ \A n \in DOMAIN work :
              /\ DOMAIN work[n].symbols = 1 .. Len(work[n].symbols)
              /\ Len(work[n].symbols) \in Nat
<1>1. sections \in Seq(Section) /\ work \in Seq(Section)
  BY SectionsAssumption, SubsetType DEF IInv, TypeOK
<1>2. \A s \in Section : s.symbols \in Seq(Symbol)
  BY SectionFields
<1>3. \A n \in DOMAIN sections : sections[n].symbols \in Seq(Symbol)
  BY <1>1, <1>2
<1>4. \A n \in DOMAIN work : work[n].symbols \in Seq(Symbol)
  BY <1>1, <1>2
<1>5. QED
  BY <1>1, <1>3, <1>4 DEF IInv, TypeOK

LEMMA InitAnswers == Init => Answers
BY DEF Init, Answers, Scanned, Listed, NamesIn, InOrder

LEMMA ReturnAnswers == ASSUME NEW outcome, Return(outcome) PROVE Answers'
BY DEF Return, Answers, Scanned, Listed, NamesIn, InOrder

LEMMA CallerAnswers == ASSUME IInv, Answers, Caller PROVE Answers'
<1> USE DEF names, layout, file
<1>1. /\ pc = "idle" /\ pc' \in {"idle", "exports"}
      /\ UNCHANGED <<i, k, directives, recs, lay>>
      /\ pc' = "exports" => UNCHANGED sections
  BY DEF Caller, AddSection, SetSubsystem, WriteTo
<1>2. i = 1 /\ k = 1 /\ directives = << >> /\ recs = << >> /\ lay = << >>
  BY <1>1 DEF IInv, Shape, Before, Answers, Scanned
<1>3. ASSUME pc' = "exports", NEW n \in DOMAIN sections, NEW m \in DOMAIN sections[n].symbols
      PROVE  ~Passed(n, m)'
  BY <1>1, <1>2, <1>3, PlaceType DEF Passed
<1>4. Scanned'
  BY <1>1, <1>2, <1>3 DEF Scanned, Exporting
<1>5. QED
  BY <1>1, <1>2, <1>4 DEF Answers, Listed, NamesIn, InOrder

LEMMA ScanAnswers == ASSUME IInv, Answers, ScanSymbol \/ ScanNextSection PROVE Answers'
<1> USE DEF names, layout, file
<1>1. /\ pc = "exports" /\ pc' = pc /\ i \in DOMAIN sections
      /\ UNCHANGED <<sections, recs, lay>>
      /\ recs = << >> /\ lay = << >>
  <2>1. pc = "exports" /\ pc' = pc /\ i <= Len(sections) /\ UNCHANGED <<sections, recs, lay>>
    BY DEF ScanSymbol, ScanNextSection, NextSection
  <2>2. recs = << >> /\ lay = << >>
    BY <2>1 DEF IInv, Shape, Before
  <2>3. QED
    BY <2>1, <2>2, PlaceType
<1>2. CASE ScanSymbol
  <2> DEFINE sym == sections[i].symbols[k]
  <2>1. /\ k \in DOMAIN sections[i].symbols /\ i' = i /\ k' = k + 1
        /\ directives' = IF sym.dllExport THEN directives \o <<"/EXPORT:">> \o sym.name
                         ELSE directives
    BY <1>1, <1>2, PlaceType DEF ScanSymbol
  <2>2. sym.name \in Seq(Char)
    <3>1. sections[i].symbols \in Seq(Symbol)
      BY <1>1, SectionsAssumption, SectionFields DEF IInv, TypeOK
    <3>2. sym \in Symbol
      BY <2>1, <3>1
    <3>3. QED
      BY <3>2 DEF Symbol, Name
  <2>3. sym.dllExport => directives' # << >>
    <3>1. directives \in Seq(Char \cup {"/EXPORT:"}) /\ sym.name \in Seq(Char \cup {"/EXPORT:"})
      BY <2>2, SubsetType DEF IInv, TypeOK
    <3>2. Len((directives \o <<"/EXPORT:">>) \o sym.name) = Len(directives) + 1 + Len(sym.name)
      BY <3>1
    <3>3. QED
      BY <2>1, <3>1, <3>2
  <2>4. \A n \in DOMAIN sections : \A m \in DOMAIN sections[n].symbols :
          Passed(n, m)' <=> Passed(n, m) \/ (n = i /\ m = k)
    BY <1>1, <2>1, PlaceType DEF Passed
  <2>5. Scanned'
    BY <1>1, <2>1, <2>3, <2>4 DEF Answers, Scanned, Exporting
  <2>6. QED
    BY <1>1, <2>5 DEF Answers, Listed, NamesIn, InOrder
<1>3. CASE ScanNextSection
  <2>1. k > Len(sections[i].symbols) /\ i' = i + 1 /\ k' = 1 /\ UNCHANGED directives
    BY <1>3 DEF ScanNextSection, NextSection
  <2>2. \A n \in DOMAIN sections : \A m \in DOMAIN sections[n].symbols :
          Passed(n, m)' <=> Passed(n, m)
    BY <1>1, <2>1, PlaceType DEF Passed
  <2>3. Scanned'
    BY <1>1, <2>1, <2>2 DEF Answers, Scanned, Exporting
  <2>4. QED
    BY <1>1, <2>3 DEF Answers, Listed, NamesIn, InOrder
<1>4. QED
  BY <1>2, <1>3

\* The work list: the File's sections and, behind them, .drectve.
LEMMA ScanDoneAnswers == ASSUME IInv, Answers, ScanDone PROVE Answers'
<1> USE DEF names, layout, file
<1>1. /\ pc = "exports" /\ pc' = "check" /\ i > Len(sections)
      /\ work' = IF directives = << >> THEN sections ELSE Append(sections, Drectve)
      /\ UNCHANGED <<sections, directives, recs, lay>> /\ recs = << >> /\ lay = << >>
  BY DEF ScanDone, Goto, IInv, Shape, Before
<1>2. directives # << >> <=> Exports
  <2>1. \A n \in DOMAIN sections : \A m \in DOMAIN sections[n].symbols : Passed(n, m)
    BY <1>1, PlaceType DEF Passed
  <2>2. QED
    BY <1>1, <2>1 DEF Answers, Scanned, Exports
<1>3. Exports' <=> Exports
  BY <1>1 DEF Exports, Exporting
<1>4. sections \in Seq(Section) /\ Drectve \in Section
  BY SectionsAssumption, SubsetType, DrectveType DEF IInv, TypeOK
<1>5. Drectve' = Drectve
  BY <1>1 DEF Drectve
<1>6. /\ Len(work') = Len(sections) + (IF Exports THEN 1 ELSE 0)
      /\ \A n \in DOMAIN sections : n \in DOMAIN work' /\ work'[n] = sections[n]
      /\ \A n \in DOMAIN work' \ DOMAIN sections : work'[n] = Drectve
  BY <1>1, <1>2, <1>4
<1>7. Listed'
  BY <1>1, <1>3, <1>5, <1>6 DEF Listed
<1>8. QED
  BY <1>1, <1>7 DEF Answers, Scanned, NamesIn, InOrder

\* Accept and the loops that enter no symbol's name.
LEMMA EarlyAnswers ==
  ASSUME IInv, Answers,
         \/ Accept \/ InternName \/ InternNextSection \/ InternExtern \/ NamesDone
         \/ SectionSymbol
  PROVE  Answers'
<1> USE DEF names, layout, file
<1>1. /\ pc \in {"check", "names", "headers"} /\ pc' \in {"names", "headers"}
      /\ UNCHANGED <<opts, sections, directives, work, recs, lay>>
      /\ pc = "check" => Len(work) < Word16 /\ \A n \in DOMAIN work : ~Unnamed(work[n])
  BY DEF Accept, InternName, InternNextSection, InternExtern, NamesDone, SectionSymbol,
     Goto, NextSection
<1>2. Listed'
  BY <1>1 DEF Answers, Listed, Drectve, Exports, Exporting
<1>3. QED
  BY <1>1, <1>2 DEF Answers, Scanned, NamesIn, InOrder

LEMMA SymbolAnswers ==
  ASSUME IInv, Answers,
         SectionSymbolsDone \/ DefineSymbol \/ DefineNextSection \/ UndefinedSymbol
  PROVE  Answers'
<1> USE DEF names, layout, file
<1>1. /\ pc \in {"headers", "symbols"} /\ pc' = "symbols"
      /\ UNCHANGED <<opts, sections, directives, work, recs, lay>>
      /\ DOMAIN symIdx \subseteq DOMAIN symIdx'
  BY DEF SectionSymbolsDone, DefineSymbol, DefineNextSection, UndefinedSymbol, Goto,
     NextSection, EnterSymbol, Put
<1>2. Listed'
  BY <1>1 DEF Answers, Listed, Drectve, Exports, Exporting
<1>3. ASSUME NEW n \in DOMAIN work, NEW m \in DOMAIN work[n].symbols, Passed(n, m)'
      PROVE  work[n].symbols[m].name \in DOMAIN symIdx'
  <2>1. CASE SectionSymbolsDone
    BY <1>3, <2>1, PlaceType DEF SectionSymbolsDone, Goto, Passed
  <2>2. CASE DefineSymbol
    <3>1. /\ pc = "symbols" /\ i' = i /\ k' = k + 1
          /\ work[i].symbols[k].name \in DOMAIN symIdx'
      BY <2>2 DEF DefineSymbol, EnterSymbol, Put
    <3>2. Passed(n, m) \/ (n = i /\ m = k)
      BY <1>3, <3>1, PlaceType DEF Passed
    <3>3. QED
      BY <1>1, <3>1, <3>2 DEF Answers, NamesIn
  <2>3. CASE DefineNextSection
    <3>1. /\ pc = "symbols" /\ i' = i + 1 /\ k' = 1 /\ k > Len(work[i].symbols)
          /\ i \in DOMAIN work
      BY <2>3, PlaceType DEF DefineNextSection, NextSection
    <3>2. Passed(n, m)
      BY <1>3, <3>1, PlaceType DEF Passed
    <3>3. QED
      BY <1>1, <3>1, <3>2 DEF Answers, NamesIn
  <2>4. CASE UndefinedSymbol
    <3>1. pc = "symbols" /\ i' = i /\ k' = k
      BY <2>4 DEF UndefinedSymbol
    <3>2. QED
      BY <1>1, <1>3, <3>1 DEF Answers, NamesIn, Passed
  <2>5. QED
    BY <2>1, <2>2, <2>3, <2>4
<1>4. NamesIn'
  BY <1>1, <1>3 DEF NamesIn
<1>5. QED
  BY <1>1, <1>2, <1>4 DEF Answers, Scanned, InOrder

LEMMA SymbolsDoneAnswers == ASSUME IInv, Answers, SymbolsDone PROVE Answers'
<1> USE DEF names, layout, file
<1>1. /\ pc = "symbols" /\ pc' = "relocs" /\ i > Len(work)
      /\ ExternalRefs(work) \subseteq DOMAIN symIdx
      /\ UNCHANGED <<opts, sections, directives, work, recs, lay, symIdx>>
  BY DEF SymbolsDone, Goto
<1>2. Listed'
  BY <1>1 DEF Answers, Listed, Drectve, Exports, Exporting
<1>3. DefinedNames(work) \subseteq DOMAIN symIdx
  <2>1. \A n \in DOMAIN work : \A m \in DOMAIN work[n].symbols :
          work[n].symbols[m].name \in DOMAIN symIdx
    <3>1. \A n \in DOMAIN work : \A m \in DOMAIN work[n].symbols : Passed(n, m)
      BY <1>1, PlaceType DEF Passed
    <3>2. QED
      BY <1>1, <3>1 DEF Answers, NamesIn
  <2>2. QED
    BY <2>1 DEF DefinedNames
<1>4. ReferencedNames(work) \subseteq DOMAIN symIdx
  BY <1>1, <1>3 DEF ExternalRefs
<1>5. QED
  BY <1>1, <1>2, <1>4 DEF Answers, Scanned, NamesIn, InOrder

\* Conversion, layout and output: one more section was in order, or none.
LEMMA LaterAnswers ==
  ASSUME IInv, Answers,
         \/ ConvertSection \/ RelocsDone \/ SkipSection \/ PlaceSection \/ LayoutDone
         \/ WriteSection
  PROVE  Answers'
<1> USE DEF names, layout, file
<1>1. /\ pc \in {"relocs", "layout", "write"} /\ pc' \in {"relocs", "layout", "write"}
      /\ UNCHANGED <<opts, sections, directives, work, symIdx>>
  BY DEF ConvertSection, RelocsDone, SkipSection, PlaceSection, LayoutDone, WriteSection, Goto
<1>2. Listed' /\ NamesIn' /\ Scanned'
  BY <1>1 DEF Answers, Listed, NamesIn, Scanned, Drectve, Exports, Exporting
<1>3. recs \in Seq(Seq(Records)) /\ lay \in Seq(Places)
  BY DEF IInv, TypeOK
<1>4. CASE ConvertSection
  <2>1. /\ \A m \in DOMAIN work[i].relocs : Supported(opts.arch, work[i].relocs[m].kind)
        /\ Len(recs) = i - 1 /\ UNCHANGED lay
    BY <1>4 DEF ConvertSection, RelocOK, IInv, Shape
  <2>2. \E new : recs' = Append(recs, new)
    BY <1>4 DEF ConvertSection
  <2>3. DOMAIN recs' = DOMAIN recs \cup {i}
    BY <1>3, <2>1, <2>2, PlaceType
  <2>4. QED
    BY <1>1, <1>2, <2>1, <2>3 DEF Answers, InOrder
<1>5. CASE SkipSection \/ PlaceSection
  <2>1. /\ pc = "layout" /\ i \in DOMAIN work /\ Len(lay) = i - 1
        /\ DOMAIN recs = DOMAIN work
        /\ NoBits(work[i]) \/ Len(recs[i]) < Word16
        /\ UNCHANGED recs
    BY <1>3, <1>5, PlaceType DEF SkipSection, PlaceSection, IInv, Shape
  <2>2. NoBits(work[i]) \/ Len(work[i].relocs) < Word16
    BY <2>1 DEF IInv, SlotsSound
  <2>3. \E new : lay' = Append(lay, new)
    BY <1>5 DEF SkipSection, PlaceSection
  <2>4. DOMAIN lay' = DOMAIN lay \cup {i}
    <3>1. PICK new : lay' = Append(lay, new)
      BY <2>3
    <3>2. Len(lay) \in Nat /\ DOMAIN lay = 1 .. Len(lay) /\ Len(lay) + 1 = i
      BY <1>3, <2>1, PlaceType
    <3>3. DOMAIN lay' = 1 .. Len(lay) + 1
      BY <1>3, <3>1
    <3>4. QED
      BY <3>2, <3>3
  <2>5. DOMAIN recs' = DOMAIN recs
    BY <2>1
  <2>6. InOrder'
    BY <1>1, <2>1, <2>2, <2>4, <2>5 DEF Answers, InOrder
  <2>7. QED
    BY <1>2, <2>6 DEF Answers
<1>6. CASE RelocsDone \/ LayoutDone \/ WriteSection
  <2>1. UNCHANGED <<recs, lay>>
    BY <1>6 DEF RelocsDone, LayoutDone, WriteSection
  <2>2. QED
    BY <1>1, <1>2, <2>1 DEF Answers, InOrder
<1>7. QED
  BY <1>4, <1>5, <1>6

LEMMA AnswersStep == IInv /\ Answers /\ [Next]_vars => Answers'
<1> SUFFICES ASSUME IInv, Answers, [Next]_vars PROVE Answers'
  OBVIOUS
<1>1. CASE Caller
  BY <1>1, CallerAnswers
<1>2. CASE TooManySections \/ UnnamedSection \/ RelocFails \/ TooManyRelocs \/ Deliver
  BY <1>2, ReturnAnswers DEF TooManySections, UnnamedSection, RelocFails, TooManyRelocs,
     Deliver, Fail
<1>3. CASE ScanSymbol \/ ScanNextSection
  BY <1>3, ScanAnswers
<1>4. CASE ScanDone
  BY <1>4, ScanDoneAnswers
<1>5. CASE \/ Accept \/ InternName \/ InternNextSection \/ InternExtern \/ NamesDone
           \/ SectionSymbol
  BY <1>5, EarlyAnswers
<1>6. CASE SectionSymbolsDone \/ DefineSymbol \/ DefineNextSection \/ UndefinedSymbol
  BY <1>6, SymbolAnswers
<1>7. CASE SymbolsDone
  BY <1>7, SymbolsDoneAnswers
<1>8. CASE \/ ConvertSection \/ RelocsDone \/ SkipSection \/ PlaceSection \/ LayoutDone
           \/ WriteSection
  BY <1>8, LaterAnswers
<1>9. CASE UNCHANGED vars
  BY <1>9 DEF vars, file, names, layout, Answers, Scanned, Listed, NamesIn, InOrder,
     Passed, Drectve, Exports, Exporting
<1>10. QED
  BY <1>1, <1>2, <1>3, <1>4, <1>5, <1>6, <1>7, <1>8, <1>9 DEF Next, Build

\* What Buildable asks of the File, in terms of the work list.
LEMMA ListedLemma ==
  ASSUME IInv, Answers, pc \notin {"idle", "exports"}
  PROVE  Buildable(Input) <=>
           /\ Len(work) < Word16
           /\ \A n \in DOMAIN work :
                /\ ~Unnamed(work[n])
                /\ \A m \in DOMAIN work[n].relocs : Supported(opts.arch, work[n].relocs[m].kind)
                /\ NoBits(work[n]) \/ Len(work[n].relocs) < Word16
<1>1. Input.sections = sections /\ Input.opts = opts
  BY DEF Input
<1>2. /\ Len(work) = Len(sections) + (IF Exports THEN 1 ELSE 0)
      /\ \A n \in DOMAIN sections : n \in DOMAIN work /\ work[n] = sections[n]
      /\ \A n \in DOMAIN work \ DOMAIN sections :
           ~Unnamed(work[n]) /\ work[n].relocs = << >>
  BY DrectveFields DEF Answers, Listed
<1>3. DOMAIN << >> = {} /\ Len(<< >>) < Word16
  BY WidthAssumption
<1>4. Buildable(Input) <=>
        /\ Len(work) < Word16
        /\ \A n \in DOMAIN sections :
             /\ ~Unnamed(sections[n])
             /\ \A m \in DOMAIN sections[n].relocs :
                  Supported(opts.arch, sections[n].relocs[m].kind)
             /\ NoBits(sections[n]) \/ Len(sections[n].relocs) < Word16
  BY <1>1, <1>2 DEF Buildable, SectionCount, Exports, Exporting, Unnamed
<1>5. QED
  BY <1>2, <1>3, <1>4

\* What a call that returns says of its input is true.
LEMMA ReturnsRightly ==
  ASSUME IInv, Answers,
         TooManySections \/ UnnamedSection \/ RelocFails \/ TooManyRelocs \/ Deliver
  PROVE  /\ pc # "idle" /\ pc' = "idle" /\ UNCHANGED <<opts, sections>>
         /\ last'.input = Input /\ Promise(last'.input, last')
<1> USE DEF file
<1>1. /\ pc \notin {"idle", "exports"} /\ pc' = "idle" /\ UNCHANGED <<opts, sections>>
      /\ last'.input = Input
  BY DEF TooManySections, UnnamedSection, RelocFails, TooManyRelocs, Deliver, Fail, Return
<1>2. Buildable(Input) <=>
        /\ Len(work) < Word16
        /\ \A n \in DOMAIN work :
             /\ ~Unnamed(work[n])
             /\ \A m \in DOMAIN work[n].relocs : Supported(opts.arch, work[n].relocs[m].kind)
             /\ NoBits(work[n]) \/ Len(work[n].relocs) < Word16
  BY <1>1, ListedLemma
<1>3. CASE TooManySections \/ UnnamedSection
  <2>1. ~Buildable(Input)
    BY <1>2, <1>3, PlaceType, WidthAssumption DEF TooManySections, UnnamedSection
  <2>2. last'.status = "failed" /\ last'.written = "none"
    BY <1>3 DEF TooManySections, UnnamedSection, Fail, Return
  <2>3. QED
    BY <1>1, <2>1, <2>2 DEF Promise
<1>4. CASE RelocFails
  <2>1. PICK m \in DOMAIN work[i].relocs : ~RelocOK(work[i].relocs[m])
    BY <1>4 DEF RelocFails
  <2>2. pc = "relocs" /\ i \in DOMAIN work
    BY <1>4, PlaceType DEF RelocFails
  <2>3. work[i].relocs[m].symbol \in DOMAIN symIdx
    BY <2>2 DEF Answers, NamesIn, ReferencedNames
  <2>4. ~Buildable(Input)
    BY <1>2, <2>1, <2>2, <2>3 DEF RelocOK
  <2>5. last'.status = "failed" /\ last'.written = "none"
    BY <1>4 DEF RelocFails, Fail, Return
  <2>6. QED
    BY <1>1, <2>4, <2>5 DEF Promise
<1>5. CASE TooManyRelocs
  <2>1. /\ i \in DOMAIN work /\ ~NoBits(work[i]) /\ Len(recs[i]) >= Word16
        /\ pc = "layout" /\ Len(recs) = Len(work) /\ recs \in Seq(Seq(Records))
    BY <1>5, PlaceType DEF TooManyRelocs, IInv, Shape, TypeOK
  <2>2. Len(recs[i]) = Len(work[i].relocs) /\ Len(recs[i]) \in Nat
    BY <2>1, PlaceType DEF IInv, SlotsSound
  <2>3. ~Buildable(Input)
    BY <1>2, <2>1, <2>2, WidthAssumption
  <2>4. last'.status = "failed" /\ last'.written = "none"
    BY <1>5 DEF TooManyRelocs, Fail, Return
  <2>5. QED
    BY <1>1, <2>3, <2>4 DEF Promise
<1>6. CASE Deliver
  <2>1. pc = "write" /\ DOMAIN recs = DOMAIN work /\ DOMAIN lay = DOMAIN work
    BY <1>6, PlaceType DEF Deliver, IInv, Shape, TypeOK
  <2>2. Buildable(Input)
    BY <1>2, <2>1 DEF Answers, Listed, InOrder
  <2>3. last'.status = "built"
    BY <1>6 DEF Deliver, Return
  <2>4. QED
    BY <1>1, <2>2, <2>3 DEF Promise
<1>7. QED
  BY <1>3, <1>4, <1>5, <1>6

\* The safety part of ImplementsBuilder: every step of the build is a stutter
\* of object.Builder but the last, which answers as Promise says and leaves
\* the File alone: a call fails for too many sections, a custom section
\* without a name, an unsupported kind of relocation or too many relocations
\* of a section, and for nothing else.
THEOREM RefinesBuilder == Spec => Abstract!Init /\ [][Abstract!Next]_(Abstract!vars)
<1>1. Init => Abstract!Init
  BY DEF Init, NoCall, Abstract!Init
<1>2. IInv /\ Answers /\ [Next]_vars => [Abstract!Next]_(Abstract!vars)
  <2> SUFFICES ASSUME IInv, Answers, [Next]_vars
               PROVE  Abstract!Next \/ UNCHANGED Abstract!vars
    OBVIOUS
  <2> USE DEF Abstract!vars, file
  <2>1. CASE \E s \in Sections : AddSection(s)
    <3>1. PICK s \in Sections : AddSection(s)
      BY <2>1
    <3>2. sections' # << >> /\ sections = SubSeq(sections', 1, Len(sections') - 1)
      BY <3>1, AppendBack DEF AddSection, IInv, TypeOK
    <3>3. Abstract!AddSection
      BY <3>1, <3>2 DEF AddSection, Abstract!AddSection
    <3>4. QED
      BY <3>3 DEF Abstract!Next
  <2>2. CASE \E v \in Subsystems : SetSubsystem(v)
    BY <2>2 DEF SetSubsystem, Abstract!Configure, Abstract!Next
  <2>3. CASE WriteTo
    BY <2>3 DEF WriteTo, Abstract!Call, Abstract!Next
  <2>4. CASE TooManySections \/ UnnamedSection \/ RelocFails \/ TooManyRelocs \/ Deliver
    <3>1. /\ pc # "idle" /\ pc' = "idle" /\ UNCHANGED <<opts, sections>>
          /\ last'.input = Input /\ Promise(last'.input, last')
      BY <2>4, ReturnsRightly
    <3>2. QED
      BY <3>1 DEF Input, Abstract!Return, Abstract!Next
  <2>5. CASE \/ ScanSymbol \/ ScanNextSection \/ ScanDone \/ Accept
             \/ InternName \/ InternNextSection \/ InternExtern \/ NamesDone
             \/ SectionSymbol \/ SectionSymbolsDone
             \/ DefineSymbol \/ DefineNextSection \/ UndefinedSymbol \/ SymbolsDone
             \/ ConvertSection \/ RelocsDone
             \/ SkipSection \/ PlaceSection \/ LayoutDone \/ WriteSection
    <3>1. pc # "idle" /\ pc' # "idle" /\ UNCHANGED <<opts, sections, last>>
      BY <2>5 DEF ScanSymbol, ScanNextSection, ScanDone, Accept, InternName,
         InternNextSection, InternExtern, NamesDone, SectionSymbol, SectionSymbolsDone,
         DefineSymbol, DefineNextSection, UndefinedSymbol, SymbolsDone, ConvertSection,
         RelocsDone, SkipSection, PlaceSection, LayoutDone, WriteSection, Goto, NextSection
    <3>2. QED
      BY <3>1
  <2>6. CASE UNCHANGED vars
    BY <2>6 DEF vars
  <2>7. QED
    BY <2>1, <2>2, <2>3, <2>4, <2>5, <2>6 DEF Next, Caller, Build
<1>3. QED
  BY Inductive, InitAnswers, AnswersStep, <1>1, <1>2, PTL DEF Spec

-----------------------------------------------------------------------------
(***************************************************************************)
(* The layout and the bytes.  Laid says of each section placed so far      *)
(* where it is and where it ends, its relocation records included; Filled  *)
(* that the output follows the layout, so that PadTo never finds the       *)
(* buffer beyond its target, as long as a uint32 counts every position:    *)
(* Short.                                                                  *)
(***************************************************************************)
HeadersEnd == 20 + 40 * Len(work)
EndOf(c) == lay[c].raw + work[c].size + 10 * Len(recs[c])

LaidAt(c) ==
  /\ HeadersEnd <= lay[c].raw /\ EndOf(c) <= pos
  /\ lay[c].raw % SectionChars(work[c]).align = 0
  /\ lay[c].count = Len(recs[c]) /\ Len(recs[c]) < Word16
  /\ Len(recs[c]) > 0 => lay[c].relocs = lay[c].raw + work[c].size
  /\ \A b \in 1 .. c - 1 : NoBits(work[b]) \/ EndOf(b) <= lay[c].raw

Laid ==
  /\ pc \in {"layout", "write"} => HeadersEnd <= pos
  /\ \A c \in DOMAIN lay : IF NoBits(work[c]) THEN lay[c] = NoPlace ELSE LaidAt(c)

InFile(c) ==
  /\ HasChunk(out.chunks, lay[c].raw, work[c].size, PatchedCode(c))
  /\ recs[c] # << >> =>
       HasChunk(out.chunks, lay[c].raw + work[c].size, 10 * Len(recs[c]), recs[c])

Short == pos < 2 * Half32

Filled ==
  pc = "write" /\ Short =>
    /\ i <= Len(work) + 1
    /\ HeadersEnd <= out.len /\ out.len <= pos
    /\ Chained(out.chunks, HeadersEnd, out.len)
    /\ \A c \in i .. Len(work) : NoBits(work[c]) \/ out.len <= lay[c].raw
    /\ \A c \in 1 .. i - 1 : NoBits(work[c]) \/ InFile(c)

\* A section's place satisfies the alignment its characteristics state.
LEMMA AlignedPlace ==
  ASSUME IInv, Answers, pc = "layout", NEW n \in DOMAIN work, NEW v \in Nat
  PROVE  AlignUp(v, EffectiveAlign(work[n])) % SectionChars(work[n]).align = 0
<1> DEFINE a  == EffectiveAlign(work[n])
           at == AlignUp(v, a)
<1>1. a \in Nat
  <2>1. work[n] \in Section
    BY WorkType, PlaceType DEF IInv
  <2>2. QED
    BY <2>1, EffectiveAlignType
<1>2. at \in Nat /\ (a > 1 => at % a = 0)
  BY <1>1, AlignUpLemma
<1>3. CASE IsDrectve(work[n])
  <2>1. SectionChars(work[n]).align = 1
    BY <1>3 DEF SectionChars
  <2>2. at % 1 = 0
    <3> HIDE DEF at
    <3>1. QED
      BY <1>2
  <2>3. QED
    BY <2>1, <2>2
<1>4. CASE ~IsDrectve(work[n])
  <2>1. n \in DOMAIN sections /\ work[n] = sections[n]
    BY <1>4, DrectveFields DEF Answers, Listed
  <2>2. sections[n] \in Sections
    BY <2>1 DEF IInv, TypeOK
  <2>3. work[n].align = 0 \/ PowerOfTwo(work[n].align)
    BY <2>1, <2>2, AlignAssumption
  <2>4. a \in Nat /\ 1 <= a /\ (a <= 8192 \/ a % 8192 = 0)
    <3>1. PICK x : x = work[n].align
      OBVIOUS
    <3>2. x = 0 \/ \E m : PowerOf(x, m)
      BY <2>3, <3>1 DEF PowerOf, PowerOfTwo
    <3>3. x \in Nat /\ (x <= 8192 \/ x % 8192 = 0)
      BY <3>2, Powers
    <3>4. x > 0 => a = x
      BY <3>1 DEF EffectiveAlign
    <3>5. x = 0 => a \in {1, 4, 8, 16}
      BY <3>1 DEF EffectiveAlign
    <3> HIDE DEF a
    <3>6. QED
      BY <3>3, <3>4, <3>5
  <2>5. PICK b : /\ b \in {a, 8192} /\ b \in Nat /\ b <= a /\ b <= 8192 /\ b >= 1
                 /\ b = a \/ (b = 8192 /\ a % b = 0)
    <3> HIDE DEF a
    <3>1. CASE a <= 8192
      BY <2>4, <3>1
    <3>2. CASE a > 8192
      BY <2>4, <3>2
    <3>3. QED
      BY <2>4, <3>1, <3>2
  <2>6. Min({a, 8192}) = b
    <3> HIDE DEF a
    <3>1. /\ {a, 8192} \subseteq Int /\ b \in {a, 8192}
          /\ \A y \in {a, 8192} : b <= y
      BY <2>4, <2>5
    <3>2. QED
      BY <3>1, LeastIs
  <2>7. SectionChars(work[n]).align = b
    BY <1>4, <2>6 DEF SectionChars
  <2>8. at % a = 0
    <3> HIDE DEF at, a
    <3>1. CASE a = 1
      BY <1>2, <3>1
    <3>2. CASE a > 1
      BY <1>2, <3>2
    <3>3. QED
      BY <1>1, <2>4, <3>1, <3>2
  <2>9. at % b = 0
    <3> HIDE DEF at, a
    <3>1. CASE b = a
      BY <2>8, <3>1
    <3>2. CASE b # a
      <4>1. a % b = 0 /\ a \in Nat /\ b \in Nat /\ b > 0 /\ a > 0
        BY <2>4, <2>5, <3>2
      <4>2. QED
        BY <1>2, <2>8, <4>1, DividesOn
    <3>3. QED
      BY <3>1, <3>2
  <2>10. QED
    BY <2>7, <2>9
<1>5. QED
  BY <1>3, <1>4


LEMMA PlaceFields ==
  ASSUME IInv, pc \in {"layout", "write"}, NEW c \in DOMAIN work
  PROVE  /\ Len(recs) = Len(work) /\ c \in DOMAIN recs /\ Len(recs[c]) \in Nat
         /\ recs[c] \in Seq(Records)
         /\ work[c].size \in Nat
         /\ c \in DOMAIN lay => lay[c].raw \in Nat /\ EndOf(c) \in Nat
<1>1. /\ Len(recs) = Len(work) /\ recs \in Seq(Seq(Records)) /\ lay \in Seq(Places)
      /\ work \in Seq(Section)
  BY DEF IInv, Shape, TypeOK
<1>2. c \in DOMAIN recs /\ recs[c] \in Seq(Records) /\ Len(recs[c]) \in Nat
  BY <1>1
<1>3. work[c].size \in Nat
  BY WorkType, PlaceType DEF IInv
<1>4. ASSUME c \in DOMAIN lay PROVE lay[c].raw \in Nat /\ EndOf(c) \in Nat
  <2>1. lay[c].raw \in Nat
    <3>1. lay[c] \in Places
      BY <1>1, <1>4
    <3>2. QED
      BY <3>1 DEF Places
  <2>2. QED
    BY <1>2, <1>3, <2>1 DEF EndOf
<1>5. QED
  BY <1>1, <1>2, <1>3, <1>4

\* Nothing is placed before the layout, and nothing remains of it later.
LEMMA QuietLaid ==
  ASSUME IInv', pc' \notin {"layout", "write"}
  PROVE  Laid' /\ Filled'
<1>1. lay' = << >>
  BY DEF IInv, TypeOK, Phases, Shape, Before
<1>2. QED
  BY <1>1 DEF Laid, Filled

LEMMA RelocsDoneLaid == ASSUME IInv, RelocsDone PROVE Laid' /\ Filled'
<1>1. /\ pc = "relocs" /\ pc' = "layout" /\ pos' = 20 + 40 * Len(work)
      /\ UNCHANGED <<work, lay>>
  BY DEF RelocsDone, Goto
<1>2. lay' = << >>
  BY <1>1 DEF IInv, Shape
<1>3. HeadersEnd' <= pos'
  BY <1>1, PlaceType DEF HeadersEnd
<1>4. QED
  BY <1>1, <1>2, <1>3 DEF Laid, Filled

\* A later position takes nothing back.
LEMMA KeepLaidAt ==
  ASSUME IInv, Laid, pc \in {"layout", "write"}, NEW c \in DOMAIN lay, c \in DOMAIN work,
         LaidAt(c),
         UNCHANGED <<work, recs>>, \A b \in 1 .. c : lay'[b] = lay[b],
         pos' \in Nat, pos <= pos'
  PROVE  LaidAt(c)'
<1>1. c \in 1 .. c /\ c \in Nat
  BY PlaceType
<1>2. EndOf(c)' = EndOf(c) /\ lay'[c] = lay[c] /\ HeadersEnd' = HeadersEnd
  BY <1>1 DEF EndOf, HeadersEnd
<1>3. \A b \in 1 .. c - 1 : EndOf(b)' = EndOf(b)
  BY <1>1 DEF EndOf
<1>4. EndOf(c) \in Nat /\ pos \in Nat
  BY PlaceFields DEF IInv, TypeOK
<1>5. EndOf(c) <= pos'
  BY <1>4 DEF LaidAt
<1>6. QED
  BY <1>2, <1>3, <1>5 DEF LaidAt

LEMMA PlaceLaid ==
  ASSUME IInv, Answers, Laid, SkipSection \/ PlaceSection PROVE Laid' /\ Filled'
<1>0. PICK j : j = i
  OBVIOUS
<1> DEFINE n   == Len(recs[j])
           at  == AlignUp(pos, EffectiveAlign(work[j]))
           end == at + work[j].size
<1>1. /\ pc = "layout" /\ pc' = "layout" /\ j <= Len(work)
      /\ UNCHANGED <<work, recs>>
  BY <1>0 DEF SkipSection, PlaceSection
<1>2. j \in DOMAIN work /\ j \in Nat \ {0} /\ DOMAIN work = 1 .. Len(work)
  BY <1>0, <1>1, PlaceType
<1>3. lay \in Seq(Places) /\ Len(lay) = j - 1 /\ pos \in Nat /\ DOMAIN lay = 1 .. j - 1
  BY <1>0, <1>1, <1>2 DEF IInv, TypeOK, Shape
<1>4. HeadersEnd <= pos /\ HeadersEnd \in Nat /\ HeadersEnd' = HeadersEnd
  BY <1>1, PlaceType DEF Laid, HeadersEnd
<1>5. \A c \in DOMAIN lay : IF NoBits(work[c]) THEN lay[c] = NoPlace ELSE LaidAt(c)
  BY DEF Laid
<1>6. Filled'
  BY <1>1 DEF Filled
<1>7. ASSUME pos' \in Nat, pos <= pos', NEW p, lay' = Append(lay, p),
             IF NoBits(work[j]) THEN p = NoPlace ELSE LaidAt(j)'
      PROVE  Laid'
  <2>1. /\ DOMAIN lay' = 1 .. j /\ lay'[j] = p
        /\ \A c \in 1 .. j - 1 : lay'[c] = lay[c]
    BY <1>2, <1>3, <1>7
  <2>2. HeadersEnd' <= pos'
    BY <1>3, <1>4, <1>7
  <2>3. ASSUME NEW c \in 1 .. j
        PROVE  IF NoBits(work[c]) THEN lay'[c] = NoPlace ELSE LaidAt(c)'
    <3>1. CASE c = j
      BY <1>7, <2>1, <3>1
    <3>2. CASE c \in 1 .. j - 1
      <4>1. c \in DOMAIN lay /\ c \in DOMAIN work /\ \A b \in 1 .. c : lay'[b] = lay[b]
        BY <1>2, <1>3, <2>1, <3>2
      <4>2. CASE NoBits(work[c])
        BY <1>5, <2>1, <3>2, <4>1, <4>2
      <4>3. CASE ~NoBits(work[c])
        <5>1. LaidAt(c)
          BY <1>5, <4>1, <4>3
        <5>2. LaidAt(c)'
          BY <1>1, <1>7, <4>1, <5>1, KeepLaidAt
        <5>3. QED
          BY <4>3, <5>2
      <4>4. QED
        BY <4>2, <4>3
    <3>3. QED
      BY <1>2, <3>1, <3>2
  <2>4. QED
    BY <1>1, <2>1, <2>2, <2>3 DEF Laid
<1>8. CASE SkipSection
  <2>1. NoBits(work[j]) /\ lay' = Append(lay, NoPlace) /\ pos' = pos
    BY <1>0, <1>8 DEF SkipSection
  <2>2. QED
    BY <1>3, <1>6, <1>7, <2>1
<1>9. CASE PlaceSection
  <2> DEFINE p == [raw |-> at, relocs |-> IF n > 0 THEN end ELSE 0, count |-> n]
  <2>1. /\ ~NoBits(work[j]) /\ n < Word16 /\ lay' = Append(lay, p) /\ pos' = end + 10 * n
    BY <1>0, <1>9 DEF PlaceSection
  <2>2. n \in Nat /\ work[j].size \in Nat
    BY <1>1, <1>2, PlaceFields
  <2>3. at \in Nat /\ pos <= at
    <3>1. work[j] \in Section
      BY <1>2, WorkType DEF IInv
    <3>2. QED
      BY <1>3, <3>1, EffectiveAlignType, AlignUpLemma
  <2>4. at % SectionChars(work[j]).align = 0
    BY <1>1, <1>2, <1>3, AlignedPlace
  <2>5. /\ lay'[j] = p /\ \A c \in 1 .. j - 1 : lay'[c] = lay[c]
    BY <1>2, <1>3, <2>1
  <2>6. p.raw = at /\ (n > 0 => p.relocs = end) /\ p.count = n
    OBVIOUS
  <2>7. end \in Nat /\ at <= end /\ end <= pos' /\ pos' \in Nat
    <3> HIDE DEF at, n
    <3>1. QED
      BY <2>1, <2>2, <2>3
  <2> HIDE DEF p
  <2>8. EndOf(j)' = pos'
    BY <1>1, <2>1, <2>5, <2>6 DEF EndOf
  <2>9. pos <= pos' /\ HeadersEnd <= at
    <3> HIDE DEF at, n
    <3>1. QED
      BY <1>3, <1>4, <2>3, <2>7
  <2>10. ASSUME NEW b \in 1 .. j - 1, ~NoBits(work[b]) PROVE EndOf(b)' <= at
    <3>1. b \in DOMAIN lay /\ b \in DOMAIN work
      BY <1>2, <1>3
    <3>2. LaidAt(b)
      BY <1>5, <2>10, <3>1
    <3>3. EndOf(b)' = EndOf(b) /\ EndOf(b) \in Nat /\ EndOf(b) <= pos
      BY <1>1, <2>5, <3>1, <3>2, PlaceFields DEF EndOf, LaidAt
    <3> HIDE DEF at, n
    <3>4. QED
      BY <1>3, <2>3, <3>3
  <2>11. LaidAt(j)'
    <3>1. HeadersEnd' <= lay'[j].raw /\ EndOf(j)' <= pos'
      BY <1>4, <2>5, <2>6, <2>7, <2>8, <2>9
    <3>2. lay'[j].raw % SectionChars(work'[j]).align = 0
      BY <1>1, <2>4, <2>5, <2>6
    <3>3. /\ lay'[j].count = Len(recs'[j]) /\ Len(recs'[j]) < Word16
          /\ Len(recs'[j]) > 0 => lay'[j].relocs = lay'[j].raw + work'[j].size
      BY <1>1, <2>1, <2>5, <2>6
    <3>4. \A b \in 1 .. j - 1 : NoBits(work'[b]) \/ EndOf(b)' <= lay'[j].raw
      BY <1>1, <2>5, <2>6, <2>10
    <3>5. QED
      BY <3>1, <3>2, <3>3, <3>4 DEF LaidAt
  <2>12. QED
    BY <1>6, <1>7, <2>1, <2>7, <2>9, <2>11
<1>10. QED
  BY <1>8, <1>9


\* What the bytes of a section depend on does not change while they are
\* written.
LEMMA KeepLaid ==
  ASSUME IInv, Laid, pc \in {"layout", "write"}, pc' \in {"layout", "write"},
         UNCHANGED <<work, recs, lay, pos>>
  PROVE  Laid'
<1>1. HeadersEnd' = HeadersEnd /\ \A c : EndOf(c)' = EndOf(c)
  BY DEF HeadersEnd, EndOf
<1>2. \A c : LaidAt(c) => LaidAt(c)'
  BY <1>1 DEF LaidAt
<1>3. QED
  BY <1>1, <1>2 DEF Laid

LEMMA LayoutDoneLaid == ASSUME IInv, Laid, LayoutDone PROVE Laid' /\ Filled'
<1>1. /\ pc = "layout" /\ pc' = "write" /\ i > Len(work) /\ i' = 1
      /\ out' = [EmptyOut EXCEPT !.len = 20 + 40 * Len(work)]
      /\ UNCHANGED <<work, recs, lay, pos>>
  BY DEF LayoutDone, Goto
<1>2. Laid'
  BY <1>1, KeepLaid
<1>3. /\ Len(lay) = i - 1 /\ lay \in Seq(Places) /\ Len(work) \in Nat /\ i \in Nat
      /\ DOMAIN work = 1 .. Len(work) /\ i <= Len(work) + 1
  BY <1>1, PlaceType DEF IInv, TypeOK, Shape
<1>4. DOMAIN lay = DOMAIN work
  BY <1>1, <1>3
<1>5. out'.len = HeadersEnd /\ out'.chunks = << >> /\ HeadersEnd' = HeadersEnd
  BY <1>1 DEF HeadersEnd, EmptyOut
<1>6. HeadersEnd \in Nat /\ HeadersEnd <= pos
  BY <1>1, <1>3 DEF Laid, HeadersEnd
<1>7. ASSUME NEW c \in 1 .. Len(work) PROVE NoBits(work[c]) \/ HeadersEnd <= lay[c].raw
  BY <1>3, <1>4 DEF Laid, LaidAt
<1>8. Chained(out'.chunks, HeadersEnd', out'.len)
  BY <1>5, NoChunks
<1>9. /\ i' <= Len(work') + 1 /\ HeadersEnd' <= out'.len /\ out'.len <= pos'
      /\ \A c \in i' .. Len(work') : NoBits(work'[c]) \/ out'.len <= lay'[c].raw
  BY <1>1, <1>3, <1>5, <1>6, <1>7
<1>10. \A c \in 1 .. i' - 1 : NoBits(work[c])' \/ InFile(c)'
  BY <1>1
<1>11. Filled'
  BY <1>8, <1>9, <1>10 DEF Filled
<1>12. QED
  BY <1>2, <1>11

\* The chunks of a section the next chunks leave in the file.
LEMMA KeepInFile ==
  ASSUME UNCHANGED <<opts, sections, directives, work, recs, lay>>,
         \A a, s, b : HasChunk(out.chunks, a, s, b) => HasChunk(out'.chunks, a, s, b),
         NEW c, InFile(c)
  PROVE  InFile(c)'
<1>1. PatchedCode(c)' = PatchedCode(c)
  BY DEF PatchedCode, Code, Field
<1>2. QED
  BY <1>1 DEF InFile

LEMMA WriteLaid == ASSUME IInv, Laid, Filled, WriteSection PROVE Laid' /\ Filled'
<1>0. PICK j : j = i
  OBVIOUS
<1> DEFINE size == work[j].size
           rest == 10 * Len(recs[j])
           raw  == Emit(out, Reach(out.len, lay[j].raw), size, PatchedCode(j))
           all  == Emit(raw, 0, rest, recs[j])
<1>1. /\ pc = "write" /\ pc' = "write" /\ j <= Len(work) /\ i' = j + 1
      /\ out' = IF NoBits(work[j]) THEN out ELSE IF recs[j] = << >> THEN raw ELSE all
      /\ UNCHANGED <<opts, sections, directives, work, recs, lay, pos>>
  BY <1>0 DEF WriteSection, file
<1>2. Laid' /\ HeadersEnd' = HeadersEnd
  BY <1>1, KeepLaid DEF HeadersEnd
<1> SUFFICES ASSUME Short PROVE Filled'
  BY <1>1, <1>2 DEF Filled, Short
<1>3. j \in Nat \ {0} /\ j \in DOMAIN work /\ DOMAIN work = 1 .. Len(work) /\ Len(work) \in Nat
  BY <1>0, <1>1, PlaceType
<1>4. DOMAIN lay = DOMAIN work
  BY <1>1, <1>3 DEF IInv, TypeOK, Shape
<1>5. /\ HeadersEnd <= out.len /\ out.len <= pos
      /\ Chained(out.chunks, HeadersEnd, out.len)
      /\ \A c \in j .. Len(work) : NoBits(work[c]) \/ out.len <= lay[c].raw
      /\ \A c \in 1 .. j - 1 : NoBits(work[c]) \/ InFile(c)
  BY <1>0, <1>1 DEF Filled
<1>6. out.len \in Nat /\ pos \in Nat /\ HeadersEnd \in Nat
  BY <1>3 DEF IInv, TypeOK, HeadersEnd
<1>7. CASE NoBits(work[j])
  <2>1. out' = out
    BY <1>1, <1>7
  <2>2. \A c \in 1 .. j - 1 : InFile(c) => InFile(c)'
    BY <1>1, <2>1, KeepInFile
  <2>3. \A c \in 1 .. i' - 1 : NoBits(work[c])' \/ InFile(c)'
    <3>1. \A c \in 1 .. i' - 1 : c \in 1 .. j - 1 \/ c = j
      BY <1>1, <1>3
    <3>2. QED
      BY <1>1, <1>5, <1>7, <2>2, <3>1
  <2>4. \A c \in i' .. Len(work') : NoBits(work'[c]) \/ out'.len <= lay'[c].raw
    BY <1>1, <1>3, <1>5, <2>1
  <2>5. Filled'
    BY <1>1, <1>2, <1>3, <1>5, <2>1, <2>3, <2>4 DEF Filled
  <2>6. QED
    BY <2>5
<1>8. CASE ~NoBits(work[j])
  <2>1. /\ size \in Nat /\ rest \in Nat /\ recs[j] \in Seq(Records)
        /\ lay[j].raw \in Nat /\ EndOf(j) = lay[j].raw + size + rest
    BY <1>1, <1>3, <1>4, PlaceFields DEF EndOf
  <2>2. LaidAt(j)
    BY <1>3, <1>4, <1>8 DEF Laid
  <2>3. out.len <= lay[j].raw
    BY <1>3, <1>5, <1>8
  <2> DEFINE at  == lay[j].raw
             end == at + size
  <2>4. PadTo(out.len, at) = at /\ Reach(out.len, at) = at
    <3>1. PICK top : top = 2 * Half32 /\ top \in Nat /\ pos < top
      BY WidthAssumption DEF Short
    <3>2. at < top
      <4>1. EndOf(j) <= pos
        BY <2>2 DEF LaidAt
      <4>2. PICK x, w, q : x = at /\ w = size + rest /\ q = pos
        OBVIOUS
      <4>3. x \in Nat /\ w \in Nat /\ q \in Nat /\ x + w <= q /\ q < top
        BY <1>6, <2>1, <3>1, <4>1, <4>2
      <4>4. QED
        BY <3>1, <4>2, <4>3
    <3>3. Reach(out.len, at) = at
      BY <1>6, <2>1, <2>3, <3>1, <3>2, ReachFits
    <3>4. QED
      BY <1>6, <2>1, <2>3, <3>3 DEF PadTo
  <2>5. /\ raw.len = end /\ HeadersEnd <= raw.len
        /\ Chained(raw.chunks, HeadersEnd, end)
        /\ HasChunk(raw.chunks, at, size, PatchedCode(j))
        /\ \A a, s, b : HasChunk(out.chunks, a, s, b) => HasChunk(raw.chunks, a, s, b)
    <3>1. PICK r, x, bytes : r = raw /\ x = lay[j].raw /\ bytes = PatchedCode(j)
      OBVIOUS
    <3>2. r = Emit(out, x, size, bytes) /\ x \in Nat /\ x = PadTo(out.len, x)
      BY <2>1, <2>4, <3>1
    <3> HIDE DEF raw, size
    <3>3. PICK o, from, w : o = out /\ from = HeadersEnd /\ w = size
      OBVIOUS
    <3>4. /\ from \in Nat /\ o.len \in Nat /\ from <= o.len /\ Chained(o.chunks, from, o.len)
          /\ w \in Nat /\ PadTo(o.len, x) = x /\ r = Emit(o, x, w, bytes)
      BY <1>5, <1>6, <2>1, <3>2, <3>3
    <3>5. /\ Emit(o, x, w, bytes).len = PadTo(o.len, x) + w
          /\ from <= Emit(o, x, w, bytes).len
          /\ Chained(Emit(o, x, w, bytes).chunks, from, PadTo(o.len, x) + w)
          /\ HasChunk(Emit(o, x, w, bytes).chunks, PadTo(o.len, x), w, bytes)
          /\ \A a, s, b : HasChunk(o.chunks, a, s, b)
                          => HasChunk(Emit(o, x, w, bytes).chunks, a, s, b)
      BY <3>2, <3>4, EmitChains
    <3>6. /\ r.len = x + w /\ from <= r.len /\ Chained(r.chunks, from, x + w)
          /\ HasChunk(r.chunks, x, w, bytes)
          /\ \A a, s, b : HasChunk(o.chunks, a, s, b) => HasChunk(r.chunks, a, s, b)
      BY <3>4, <3>5
    <3>7. QED
      BY <3>1, <3>3, <3>6
  <2>6. end \in Nat /\ EndOf(j) = end + rest /\ HeadersEnd <= end
    <3>1. at \in Nat /\ size \in Nat
      BY <2>1
    <3>2. QED
      BY <2>1, <2>5, <3>1
  <2>7. ASSUME recs[j] # << >>
        PROVE  /\ all.len = end + rest /\ Chained(all.chunks, HeadersEnd, end + rest)
               /\ HasChunk(all.chunks, end, rest, recs[j])
               /\ \A a, s, b : HasChunk(raw.chunks, a, s, b) => HasChunk(all.chunks, a, s, b)
    <3>1. PICK r, e, bytes, r2 : r = raw /\ e = end /\ bytes = recs[j] /\ r2 = all
      OBVIOUS
    <3>2. r2 = Emit(r, 0, rest, bytes) /\ r.len = e /\ e \in Nat /\ 0 \in Nat
      BY <2>5, <2>6, <3>1
    <3>3. e = PadTo(r.len, 0)
      BY <3>2 DEF PadTo
    <3>4. HeadersEnd <= r.len /\ Chained(r.chunks, HeadersEnd, r.len)
      BY <2>5, <3>1, <3>2
    <3> HIDE DEF raw, all, end, rest
    <3>5. PICK from, w, z : from = HeadersEnd /\ w = rest /\ z = 0
      OBVIOUS
    <3>6. /\ from \in Nat /\ r.len \in Nat /\ from <= r.len /\ Chained(r.chunks, from, r.len)
          /\ w \in Nat /\ z \in Nat /\ PadTo(r.len, z) = e /\ r2 = Emit(r, z, w, bytes)
      BY <1>6, <2>1, <3>2, <3>3, <3>4, <3>5
    <3>7. /\ Emit(r, z, w, bytes).len = PadTo(r.len, z) + w
          /\ from <= Emit(r, z, w, bytes).len
          /\ Chained(Emit(r, z, w, bytes).chunks, from, PadTo(r.len, z) + w)
          /\ HasChunk(Emit(r, z, w, bytes).chunks, PadTo(r.len, z), w, bytes)
          /\ \A a, s, b : HasChunk(r.chunks, a, s, b)
                          => HasChunk(Emit(r, z, w, bytes).chunks, a, s, b)
      BY <3>6, EmitChains
    <3>8. /\ r2.len = e + w /\ Chained(r2.chunks, from, e + w)
          /\ HasChunk(r2.chunks, e, w, bytes)
          /\ \A a, s, b : HasChunk(r.chunks, a, s, b) => HasChunk(r2.chunks, a, s, b)
      BY <3>6, <3>7
    <3>9. QED
      BY <3>1, <3>5, <3>8
  <2> HIDE DEF raw, all, at, end, size, rest
  <2>8. /\ out'.len = EndOf(j) /\ Chained(out'.chunks, HeadersEnd, out'.len)
        /\ HasChunk(out'.chunks, at, size, PatchedCode(j))
        /\ recs[j] # << >> => HasChunk(out'.chunks, end, rest, recs[j])
        /\ \A a, s, b : HasChunk(out.chunks, a, s, b) => HasChunk(out'.chunks, a, s, b)
    <3>1. CASE recs[j] = << >>
      <4>1. out' = raw
        BY <1>1, <1>8, <3>1
      <4>2. rest = 0 /\ EndOf(j) = end
        BY <2>6, <3>1 DEF rest
      <4>3. QED
        BY <2>5, <3>1, <4>1, <4>2
    <3>2. CASE recs[j] # << >>
      <4>1. out' = all
        BY <1>1, <1>8, <3>2
      <4>2. QED
        BY <2>5, <2>6, <2>7, <3>2, <4>1
    <3>3. QED
      BY <3>1, <3>2
  <2>9. InFile(j)'
    <3>1. PatchedCode(j)' = PatchedCode(j)
      BY <1>1 DEF PatchedCode, Code, Field
    <3>2. QED
      BY <1>1, <2>8, <3>1 DEF InFile, at, end, size, rest
  <2>10. \A c \in 1 .. i' - 1 : NoBits(work[c])' \/ InFile(c)'
    <3>1. \A c \in 1 .. i' - 1 : c \in 1 .. j - 1 \/ c = j
      BY <1>1, <1>3
    <3>2. \A c \in 1 .. j - 1 : InFile(c) => InFile(c)'
      BY <1>1, <2>8, KeepInFile
    <3>3. QED
      BY <1>1, <1>5, <2>9, <3>1, <3>2
  <2>11. ASSUME NEW c \in i' .. Len(work) PROVE NoBits(work[c]) \/ EndOf(j) <= lay[c].raw
    <3>1. c \in DOMAIN lay /\ j \in 1 .. c - 1
      BY <1>1, <1>3, <1>4
    <3>2. QED
      BY <1>8, <3>1 DEF Laid, LaidAt
  <2>12. HeadersEnd <= EndOf(j) /\ EndOf(j) <= pos
    <3>1. rest \in Nat
      BY <2>1 DEF rest
    <3>2. QED
      BY <1>6, <2>2, <2>6, <3>1 DEF LaidAt
  <2>13. /\ i' <= Len(work') + 1 /\ HeadersEnd' <= out'.len /\ out'.len <= pos'
         /\ Chained(out'.chunks, HeadersEnd', out'.len)
         /\ \A c \in i' .. Len(work') : NoBits(work'[c]) \/ out'.len <= lay'[c].raw
    BY <1>1, <1>2, <1>3, <2>8, <2>11, <2>12
  <2>14. Filled'
    BY <2>10, <2>13 DEF Filled
  <2>15. QED
    BY <2>14
<1>9. QED
  BY <1>7, <1>8

LEMMA LaidStep == IInv /\ Answers /\ Laid /\ Filled /\ [Next]_vars => Laid' /\ Filled'
<1> SUFFICES ASSUME IInv, Answers, Laid, Filled, [Next]_vars PROVE Laid' /\ Filled'
  OBVIOUS
<1>1. IInv'
  BY BuildStep, CallerStep, StutterStep DEF Next
<1>2. CASE pc' \notin {"layout", "write"}
  BY <1>1, <1>2, QuietLaid
<1>3. CASE RelocsDone
  BY <1>3, RelocsDoneLaid
<1>4. CASE SkipSection \/ PlaceSection
  BY <1>4, PlaceLaid
<1>5. CASE LayoutDone
  BY <1>5, LayoutDoneLaid
<1>6. CASE WriteSection
  BY <1>6, WriteLaid
<1>7. CASE UNCHANGED vars
  <2> USE DEF vars, file, names, layout
  <2>1. \A c : LaidAt(c)' <=> LaidAt(c)
    BY <1>7 DEF LaidAt, HeadersEnd, EndOf
  <2>2. Laid'
    BY <1>7, <2>1 DEF Laid, HeadersEnd
  <2>3. \A c : InFile(c) => InFile(c)'
    BY <1>7, KeepInFile
  <2>4. Filled'
    BY <1>7, <2>3 DEF Filled, HeadersEnd, Short
  <2>5. QED
    BY <2>2, <2>4
<1>8. CASE Caller \/ (Build /\ ~(\/ RelocsDone \/ SkipSection \/ PlaceSection \/ LayoutDone
                               \/ WriteSection))
  <2>1. pc' \notin {"layout", "write"}
    <3>1. CASE Caller
      BY <3>1 DEF Caller, AddSection, SetSubsystem, WriteTo
    <3>2. CASE TooManySections \/ UnnamedSection \/ RelocFails \/ TooManyRelocs \/ Deliver
      BY <3>2 DEF TooManySections, UnnamedSection, RelocFails, TooManyRelocs, Deliver, Fail,
         Return
    <3>3. CASE \/ ScanSymbol \/ ScanNextSection \/ ScanDone \/ Accept
               \/ InternName \/ InternNextSection \/ InternExtern \/ NamesDone
               \/ SectionSymbol \/ SectionSymbolsDone
               \/ DefineSymbol \/ DefineNextSection \/ UndefinedSymbol \/ SymbolsDone
               \/ ConvertSection
      BY <3>3 DEF ScanSymbol, ScanNextSection, ScanDone, Accept, InternName,
         InternNextSection, InternExtern, NamesDone, SectionSymbol, SectionSymbolsDone,
         DefineSymbol, DefineNextSection, UndefinedSymbol, SymbolsDone, ConvertSection,
         Goto, NextSection
    <3>4. QED
      BY <1>8, <3>1, <3>2, <3>3 DEF Build
  <2>2. QED
    BY <1>2, <2>1
<1>9. QED
  BY <1>3, <1>4, <1>5, <1>6, <1>7, <1>8 DEF Next


\* The tables go behind the sections, where the file header says.
LEMMA TablesWritten ==
  ASSUME IInv, Laid, Filled, Short, pc = "write", i > Len(work)
  PROVE  /\ \E to : Chained(Tables.chunks, HeadersEnd, to)
         /\ HasChunk(Tables.chunks, pos, 18 * Len(slots), slots)
         /\ HasChunk(Tables.chunks, pos + 18 * Len(slots), 4 + Len(strtab.data), strtab.data)
         /\ \A a, s, b : HasChunk(out.chunks, a, s, b) => HasChunk(Tables.chunks, a, s, b)
<1>1. /\ HeadersEnd \in Nat /\ out.len \in Nat /\ pos \in Nat /\ slots \in Seq(Slots)
      /\ Len(slots) \in Nat /\ Len(strtab.data) \in Nat
  BY PlaceType DEF IInv, TypeOK, HeadersEnd, Consistent
<1>2. HeadersEnd <= out.len /\ out.len <= pos /\ Chained(out.chunks, HeadersEnd, out.len)
  BY DEF Filled
<1>3. PICK r, o, from, x, w, bytes :
        /\ r = Emit(out, Reach(out.len, pos), 18 * Len(slots), slots)
        /\ o = out /\ from = HeadersEnd /\ x = pos /\ w = 18 * Len(slots) /\ bytes = slots
  OBVIOUS
<1>4. /\ from \in Nat /\ o.len \in Nat /\ from <= o.len /\ Chained(o.chunks, from, o.len)
      /\ x \in Nat /\ w \in Nat /\ PadTo(o.len, x) = x /\ r = Emit(o, x, w, bytes)
  <2>1. PadTo(out.len, pos) = pos
    BY <1>1, <1>2 DEF PadTo
  <2>2. Reach(out.len, pos) = pos
    BY <1>1, <1>2, ReachFits DEF Short
  <2>3. QED
    BY <1>1, <1>2, <1>3, <2>1, <2>2
<1>5. /\ Emit(o, x, w, bytes).len = PadTo(o.len, x) + w
      /\ from <= Emit(o, x, w, bytes).len
      /\ Chained(Emit(o, x, w, bytes).chunks, from, PadTo(o.len, x) + w)
      /\ HasChunk(Emit(o, x, w, bytes).chunks, PadTo(o.len, x), w, bytes)
      /\ \A a, s, b : HasChunk(o.chunks, a, s, b)
                      => HasChunk(Emit(o, x, w, bytes).chunks, a, s, b)
  BY <1>4, EmitChains
<1>6. /\ r.len = x + w /\ from <= r.len /\ Chained(r.chunks, from, r.len)
      /\ HasChunk(r.chunks, x, w, bytes)
      /\ \A a, s, b : HasChunk(o.chunks, a, s, b) => HasChunk(r.chunks, a, s, b)
  BY <1>4, <1>5
<1>7. PICK r2, z, w2, bytes2 :
        /\ r2 = Tables /\ z = 0 /\ w2 = 4 + Len(strtab.data) /\ bytes2 = strtab.data
  OBVIOUS
<1>8. /\ from \in Nat /\ r.len \in Nat /\ from <= r.len /\ Chained(r.chunks, from, r.len)
      /\ z \in Nat /\ w2 \in Nat /\ PadTo(r.len, z) = x + w /\ r2 = Emit(r, z, w2, bytes2)
  <2>1. r.len \in Nat
    BY <1>4, <1>6
  <2>2. PadTo(r.len, 0) = r.len
    BY <2>1 DEF PadTo
  <2>3. Tables = Emit(r, 0, 4 + Len(strtab.data), strtab.data)
    BY <1>3 DEF Tables
  <2>4. QED
    BY <1>1, <1>4, <1>6, <1>7, <2>1, <2>2, <2>3
<1>9. /\ Emit(r, z, w2, bytes2).len = PadTo(r.len, z) + w2
      /\ from <= Emit(r, z, w2, bytes2).len
      /\ Chained(Emit(r, z, w2, bytes2).chunks, from, PadTo(r.len, z) + w2)
      /\ HasChunk(Emit(r, z, w2, bytes2).chunks, PadTo(r.len, z), w2, bytes2)
      /\ \A a, s, b : HasChunk(r.chunks, a, s, b)
                      => HasChunk(Emit(r, z, w2, bytes2).chunks, a, s, b)
  BY <1>8, EmitChains
<1>10. /\ Chained(r2.chunks, from, x + w + w2)
       /\ HasChunk(r2.chunks, x + w, w2, bytes2)
       /\ \A a, s, b : HasChunk(r.chunks, a, s, b) => HasChunk(r2.chunks, a, s, b)
  BY <1>8, <1>9
<1>11. /\ HasChunk(r2.chunks, x, w, bytes)
       /\ \A a, s, b : HasChunk(o.chunks, a, s, b) => HasChunk(r2.chunks, a, s, b)
  BY <1>6, <1>10
<1>12. QED
  BY <1>3, <1>7, <1>10, <1>11


\* What the image of a build says.
LEMMA ImageFields ==
  ASSUME IInv, Answers, Laid, Filled, Deliver
  PROVE  /\ img' = Image /\ added' = sections /\ arch' = opts.arch /\ Built'
         /\ FewBytes' <=> Short
         /\ pc = "write" /\ i > Len(work)
         /\ Len(work) = Expected' /\ Len(img'.shdrs) = Len(work) /\ Len(work) < Word16
         /\ DOMAIN sections \subseteq DOMAIN work
         /\ \A c \in DOMAIN sections : work[c] = sections[c]
         /\ \A c \in DOMAIN work : img'.shdrs[c] = Header(c)
         /\ Short => Strings' = strtab.data /\ img'.symtab = pos
<1>1. /\ pc = "write" /\ i > Len(work) /\ last'.image = Image /\ last'.input = Input
      /\ last'.status = "built"
  BY DEF Deliver, Return
<1>2. img' = Image /\ added' = sections /\ arch' = opts.arch /\ Built'
  BY <1>1 DEF img, added, arch, Input, Built
<1>3. /\ Len(work) = Len(sections) + (IF Exports THEN 1 ELSE 0) /\ Len(work) < Word16
      /\ \A n \in DOMAIN sections : n \in DOMAIN work /\ work[n] = sections[n]
  BY <1>1 DEF Answers, Listed
<1>4. Len(work) = Expected'
  BY <1>2, <1>3 DEF Expected, SectionCount, Exports, Exporting
<1>5. DOMAIN work = 1 .. Len(work) /\ Len(work) \in Nat
  BY PlaceType
<1>6. Image.shdrs = [n \in 1 .. Len(work) |-> Header(n)]
  BY <1>5 DEF Image
<1>7. Len(img'.shdrs) = Len(work) /\ \A c \in DOMAIN work : img'.shdrs[c] = Header(c)
  BY <1>2, <1>5, <1>6
<1>0. FewBytes' <=> Short
  <2>1. img'.extent = pos
    BY <1>2 DEF Image
  <2>2. QED
    BY <2>1 DEF FewBytes, Short
<1>8. ASSUME Short PROVE Strings' = strtab.data /\ img'.symtab = pos
  <2>1. img'.chunks = Tables.chunks /\ img'.symtab = pos /\ img'.nsyms = Len(slots)
    <3>1. Uint32(pos) = pos
      BY <1>8, Uint32Fits DEF Short, IInv, TypeOK
    <3>2. QED
      BY <1>2, <3>1 DEF Image
  <2>2. PICK chunks, at, size, bytes, from :
          /\ chunks = Tables.chunks /\ at = pos + 18 * Len(slots)
          /\ size = 4 + Len(strtab.data) /\ bytes = strtab.data /\ from = HeadersEnd
    OBVIOUS
  <2>3. /\ \E to : Chained(chunks, from, to)
        /\ HasChunk(chunks, at, size, bytes)
    BY <1>1, <1>8, <2>2, TablesWritten
  <2>4. size \in Nat \ {0}
    <3>1. Len(strtab.data) \in Nat
      BY DEF IInv, TypeOK, Consistent
    <3>2. QED
      BY <2>2, <3>1
  <2>5. DataAt(chunks, at) = bytes
    BY <2>3, <2>4, DataFound
  <2>6. QED
    BY <2>1, <2>2, <2>5 DEF Strings
<1>9. QED
  BY <1>0, <1>1, <1>2, <1>3, <1>4, <1>7, <1>8

\* The numbers of a header that a uint32 holds, when the sections end in time.
LEMMA HeaderFits ==
  ASSUME IInv, Answers, Laid, Short, pc = "write", NEW c \in DOMAIN work, NEW sh, sh = Header(c),
         ~NoBits(work[c])
  PROVE  /\ LaidAt(c) /\ sh.size = work[c].size /\ sh.raw = lay[c].raw
         /\ sh.count = Len(recs[c])
         /\ Len(recs[c]) > 0 => sh.relocs = lay[c].raw + work[c].size
         /\ work[c].size < 2 * Half32
<1>1. /\ DOMAIN lay = DOMAIN work /\ pos \in Nat /\ HeadersEnd \in Nat
  BY PlaceType DEF IInv, Shape, TypeOK, HeadersEnd
<1>2. LaidAt(c)
  BY <1>1 DEF Laid
<1>3. /\ Len(recs[c]) \in Nat /\ work[c].size \in Nat /\ lay[c].raw \in Nat
  BY <1>1, PlaceFields
<1>4. PICK raw, size, n, top :
        raw = lay[c].raw /\ size = work[c].size /\ n = Len(recs[c]) /\ top = 2 * Half32
  OBVIOUS
<1>5. raw + size + 10 * n <= pos /\ pos < top /\ top \in Nat /\ n < Word16
  BY <1>2, <1>4, WidthAssumption DEF LaidAt, EndOf, Short
<1>6. raw < top /\ size < top /\ raw + size < top /\ raw + size \in Nat
  BY <1>1, <1>3, <1>4, <1>5
<1>7. Uint32(raw) = raw /\ Uint32(size) = size /\ Uint32(raw + size) = raw + size
  BY <1>3, <1>4, <1>6, Uint32Fits
<1>8. Uint16(n) = n
  <2>1. \A x \in Nat : x < Word16 => Uint16(x) = x
    BY WidthAssumption DEF Uint16
  <2>2. QED
    BY <1>3, <1>4, <1>5, <2>1
<1>9. lay[c].count = n /\ (n > 0 => lay[c].relocs = raw + size)
  BY <1>2, <1>4 DEF LaidAt
<1>10. /\ sh.size = Uint32(size) /\ sh.raw = Uint32(raw)
       /\ sh.relocs = Uint32(lay[c].relocs) /\ sh.count = Uint16(lay[c].count)
  BY <1>4 DEF Header
<1>11. QED
  BY <1>2, <1>4, <1>6, <1>7, <1>8, <1>9, <1>10

\* Every step but the return of a call leaves the last image alone, and a
\* call that fails leaves none.
LEMMA OtherSteps ==
  ASSUME [Next]_vars
  PROVE  /\ Deliver \/ ~Built' \/ UNCHANGED last
         /\ (Deliver /\ Short) \/ ~(Built /\ FewBytes)' \/ UNCHANGED last
<1>1. CASE TooManySections \/ UnnamedSection \/ RelocFails \/ TooManyRelocs
  <2>1. last'.status = "failed"
    BY <1>1 DEF TooManySections, UnnamedSection, RelocFails, TooManyRelocs, Fail, Return
  <2>2. QED
    BY <2>1 DEF Built
<1>2. CASE Caller
  BY <1>2 DEF Caller, AddSection, SetSubsystem, WriteTo
<1>3. CASE \/ ScanSymbol \/ ScanNextSection \/ ScanDone \/ Accept
           \/ InternName \/ InternNextSection \/ InternExtern \/ NamesDone
           \/ SectionSymbol \/ SectionSymbolsDone
           \/ DefineSymbol \/ DefineNextSection \/ UndefinedSymbol \/ SymbolsDone
  BY <1>3 DEF ScanSymbol, ScanNextSection, ScanDone, Accept, InternName, InternNextSection,
     InternExtern, NamesDone, SectionSymbol, SectionSymbolsDone, DefineSymbol,
     DefineNextSection, UndefinedSymbol, SymbolsDone
<1>4. CASE \/ ConvertSection \/ RelocsDone \/ SkipSection \/ PlaceSection \/ LayoutDone
           \/ WriteSection
  BY <1>4 DEF ConvertSection, RelocsDone, SkipSection, PlaceSection, LayoutDone, WriteSection
<1>5. CASE UNCHANGED vars
  BY <1>5 DEF vars
<1>6. CASE Deliver
  <2>1. img'.extent = pos
    BY <1>6 DEF Deliver, Return, img, Image
  <2>2. QED
    BY <1>6, <2>1 DEF FewBytes, Short
<1>7. QED
  BY <1>1, <1>2, <1>3, <1>4, <1>5, <1>6 DEF Next, Build

LEMMA InitReader == Init => ~Built /\ Laid /\ Filled
BY DEF Init, Built, NoCall, Laid, Filled

\* The image and what is read in it stay those of the call that returned last
\* until the next one returns.
LEMMA SameImage ==
  ASSUME UNCHANGED last
  PROVE  /\ Built' = Built /\ FewBytes' = FewBytes /\ img' = img /\ added' = added /\ arch' = arch
         /\ Strings' = Strings /\ Symtab' = Symtab /\ Expected' = Expected
         /\ \A a, s : Extent(a, s)' = Extent(a, s)
BY DEF Built, FewBytes, img, added, arch, Strings, Symtab, Expected, Extent

-----------------------------------------------------------------------------
(***************************************************************************)
(* The records lead where the caller wanted.  Bound says of the slot the   *)
(* map holds for a name that it describes the last definition passed so    *)
(* far, or no definition if there is none in the file; Converted that a    *)
(* record was made from the slot and the kind of its relocation.           *)
(***************************************************************************)
Seen(c, m) == pc = "symbols" => Passed(c, m)

LastSeen(name, c, m) ==
  /\ Seen(c, m) /\ work[c].symbols[m].name = name
  /\ \A d \in DOMAIN work : \A n \in DOMAIN work[d].symbols :
       Seen(d, n) /\ work[d].symbols[n].name = name => d < c \/ (d = c /\ n <= m)

Describes(slot, c, sym) ==
  slot.section = Int16(c) /\ slot.value = sym.offset /\ slot.class = Class(sym.binding)

BoundTo(slot, name) ==
  \/ name \notin DefinedNames(work) /\ slot.section = 0 /\ slot.class = "EXTERNAL"
  \/ \E c \in DOMAIN work : \E m \in DOMAIN work[c].symbols :
       LastSeen(name, c, m) /\ Describes(slot, c, work[c].symbols[m])

Bound == \A name \in DOMAIN symIdx : BoundTo(slots[symIdx[name] + 1], name)

Converted ==
  \A c \in DOMAIN recs : \A m \in DOMAIN recs[c] :
    /\ work[c].relocs[m].symbol \in DOMAIN symIdx
    /\ recs[c][m].sym = symIdx[work[c].relocs[m].symbol]
    /\ recs[c][m].type = RelocType(opts.arch, work[c].relocs[m].kind)

\* A new slot leaves the others, and the map follows it.
LEMMA EnterSlots ==
  ASSUME IInv, NEW name, NEW value, NEW section, NEW type, NEW class,
         EnterSymbol(name, value, section, type, class)
  PROVE  /\ DOMAIN symIdx' = DOMAIN symIdx \cup {name}
         /\ slots'[symIdx'[name] + 1] = Slot(name, value, section, type, class, 0)
         /\ \A other \in DOMAIN symIdx : other # name =>
              slots'[symIdx'[other] + 1] = slots[symIdx[other] + 1]
<1> DEFINE slot == Slot(name, value, section, type, class, 0)
<1>1. slots' = Append(slots, slot) /\ symIdx' = Put(symIdx, name, Len(slots))
  BY DEF EnterSymbol
<1> HIDE DEF slot
<1>2. slots \in Seq(Slots) /\ Len(slots) \in Nat /\ DOMAIN slots = 1 .. Len(slots)
  BY DEF IInv, TypeOK
<1>3. /\ slots'[Len(slots) + 1] = slot
      /\ \A n \in 1 .. Len(slots) : slots'[n] = slots[n]
  BY <1>1, <1>2
<1>4. /\ DOMAIN symIdx' = DOMAIN symIdx \cup {name} /\ symIdx'[name] = Len(slots)
      /\ \A other \in DOMAIN symIdx : other # name => symIdx'[other] = symIdx[other]
  BY <1>1 DEF Put
<1>5. \A other \in DOMAIN symIdx : symIdx[other] + 1 \in DOMAIN slots
  BY DEF IInv, SlotsSound, Carries
<1>6. QED
  BY <1>2, <1>3, <1>4, <1>5 DEF slot

LEMMA DefineSymbolBound == ASSUME IInv, Bound, DefineSymbol PROVE Bound'
<1>0. PICK c, m : c = i /\ m = k
  OBVIOUS
<1> DEFINE sym  == work[c].symbols[m]
           slot == Slot(sym.name, sym.offset, Int16(c), Type(sym.kind), Class(sym.binding), 0)
<1>1. /\ pc = "symbols" /\ pc' = "symbols" /\ c <= Len(work) /\ m <= Len(work[c].symbols)
      /\ EnterSymbol(sym.name, sym.offset, Int16(c), Type(sym.kind), Class(sym.binding))
      /\ i' = c /\ k' = m + 1 /\ work' = work
  BY <1>0 DEF DefineSymbol
<1>2. /\ c \in DOMAIN work /\ m \in DOMAIN work[c].symbols
      /\ \A d \in DOMAIN work : d \in Nat /\ \A n \in DOMAIN work[d].symbols : n \in Nat
  BY <1>0, <1>1, PlaceType
<1>3. /\ DOMAIN symIdx' = DOMAIN symIdx \cup {sym.name}
      /\ slots'[symIdx'[sym.name] + 1] = slot
      /\ \A other \in DOMAIN symIdx : other # sym.name =>
           slots'[symIdx'[other] + 1] = slots[symIdx[other] + 1]
  BY <1>1, EnterSlots
<1>4. /\ slot.section = Int16(c) /\ slot.value = sym.offset
      /\ slot.class = Class(sym.binding)
  BY DEF Slot
<1> HIDE DEF slot
<1>5. \A d \in DOMAIN work : \A n \in DOMAIN work[d].symbols :
        Passed(d, n)' <=> Passed(d, n) \/ (d = c /\ n = m)
  BY <1>0, <1>1, <1>2 DEF Passed
<1>6. \A d \in DOMAIN work : \A n \in DOMAIN work[d].symbols :
        /\ Passed(d, n) <=> d < c \/ (d = c /\ n < m)
        /\ Seen(d, n)' <=> Passed(d, n)'
        /\ Seen(d, n) <=> Passed(d, n)
  BY <1>0, <1>1 DEF Passed, Seen
<1>7. LastSeen(sym.name, c, m)'
  <2>1. \A d \in DOMAIN work : \A n \in DOMAIN work[d].symbols :
          Seen(d, n)' => d < c \/ (d = c /\ n <= m)
    BY <1>2, <1>5, <1>6
  <2>2. QED
    BY <1>1, <1>2, <1>5, <1>6, <2>1 DEF LastSeen
<1>8. Describes(slot, c, sym)
  BY <1>4 DEF Describes
<1>9. BoundTo(slots[symIdx[sym.name] + 1], sym.name)'
  BY <1>1, <1>2, <1>3, <1>7, <1>8 DEF BoundTo, Describes
<1>10. ASSUME NEW name \in DOMAIN symIdx, name # sym.name
       PROVE  BoundTo(slots[symIdx[name] + 1], name)'
  <2>1. PICK s : s = slots[symIdx[name] + 1]
    OBVIOUS
  <2>2. BoundTo(s, name)
    BY <2>1 DEF Bound
  <2>3. ASSUME NEW d \in DOMAIN work, NEW n \in DOMAIN work[d].symbols, LastSeen(name, d, n)
        PROVE  LastSeen(name, d, n)'
    BY <1>1, <1>5, <1>6, <1>10, <2>3 DEF LastSeen
  <2>4. BoundTo(s, name)'
    BY <1>1, <2>2, <2>3 DEF BoundTo, Describes
  <2>5. slots'[symIdx'[name] + 1] = s
    BY <1>3, <1>10, <2>1
  <2>6. QED
    BY <2>4, <2>5
<1>11. ASSUME NEW name \in DOMAIN symIdx' PROVE BoundTo(slots[symIdx[name] + 1], name)'
  <2>1. CASE name = sym.name
    BY <1>1, <1>9, <2>1
  <2>2. CASE name # sym.name
    BY <1>3, <1>10, <2>2
  <2>3. QED
    BY <2>1, <2>2
<1>12. QED
  BY <1>11 DEF Bound

LEMMA UndefinedSymbolBound == ASSUME IInv, Bound, UndefinedSymbol PROVE Bound'
<1>1. PICK name \in ExternalRefs(work) \ DOMAIN symIdx :
        EnterSymbol(name, 0, 0, "NULL", "EXTERNAL")
  BY DEF UndefinedSymbol, First
<1>2. UNCHANGED <<pc, i, k, work>>
  BY DEF UndefinedSymbol
<1>3. name \notin DefinedNames(work) /\ name \notin DOMAIN symIdx
  BY <1>1 DEF ExternalRefs
<1> DEFINE slot == Slot(name, 0, 0, "NULL", "EXTERNAL", 0)
<1>4. slot.section = 0 /\ slot.class = "EXTERNAL"
  BY DEF Slot
<1>5. /\ DOMAIN symIdx' = DOMAIN symIdx \cup {name}
      /\ slots'[symIdx'[name] + 1] = slot
      /\ \A other \in DOMAIN symIdx : other # name =>
           slots'[symIdx'[other] + 1] = slots[symIdx[other] + 1]
  BY <1>1, EnterSlots
<1> HIDE DEF slot
<1>6. \A s, n : BoundTo(s, n)' <=> BoundTo(s, n)
  BY <1>2 DEF BoundTo, LastSeen, Seen, Passed, Describes
<1>7. BoundTo(slot, name)
  BY <1>3, <1>4 DEF BoundTo
<1>8. QED
  BY <1>3, <1>5, <1>6, <1>7 DEF Bound

\* Moving on passes no symbol over.
LEMMA MoveBound ==
  ASSUME IInv, Bound, UNCHANGED <<work, symIdx, slots>>,
         \A c \in DOMAIN work : \A m \in DOMAIN work[c].symbols : Seen(c, m)' <=> Seen(c, m)
  PROVE  Bound'
<1>1. \A name : \A c \in DOMAIN work : \A m \in DOMAIN work[c].symbols :
        LastSeen(name, c, m) => LastSeen(name, c, m)'
  BY DEF LastSeen
<1>2. \A s, name : BoundTo(s, name) => BoundTo(s, name)'
  BY <1>1 DEF BoundTo, Describes
<1>3. QED
  BY <1>2 DEF Bound

LEMMA BoundStep == IInv /\ Bound /\ [Next]_vars => Bound'
<1> SUFFICES ASSUME IInv, Bound, [Next]_vars PROVE Bound'
  OBVIOUS
<1> DEFINE Later == {"relocs", "layout", "write"}
<1>1. CASE DefineSymbol
  BY <1>1, DefineSymbolBound
<1>2. CASE UndefinedSymbol
  BY <1>2, UndefinedSymbolBound
<1>3. CASE DefineNextSection
  <2>1. /\ pc = "symbols" /\ pc' = "symbols" /\ i' = i + 1 /\ k' = 1
        /\ k > Len(work[i].symbols) /\ UNCHANGED <<work, symIdx, slots>>
    BY <1>3 DEF DefineNextSection, NextSection, names
  <2>2. \A c \in DOMAIN work : \A m \in DOMAIN work[c].symbols :
          Passed(c, m)' <=> Passed(c, m)
    BY <2>1, PlaceType DEF Passed
  <2>3. QED
    BY <2>1, <2>2, MoveBound DEF Seen
<1>4. CASE SymbolsDone
  <2>1. /\ pc = "symbols" /\ pc' = "relocs" /\ i > Len(work)
        /\ UNCHANGED <<work, symIdx, slots>>
    BY <1>4 DEF SymbolsDone, Goto, names
  <2>2. \A c \in DOMAIN work : \A m \in DOMAIN work[c].symbols : Passed(c, m)
    BY <2>1, PlaceType DEF Passed
  <2>3. QED
    BY <2>1, <2>2, MoveBound DEF Seen
<1>5. CASE ConvertSection \/ RelocsDone \/ SkipSection \/ PlaceSection \/ LayoutDone \/ WriteSection
  <2>1. pc \in Later /\ pc' \in Later /\ UNCHANGED <<work, symIdx, slots>>
    BY <1>5 DEF ConvertSection, RelocsDone, SkipSection, PlaceSection, LayoutDone,
       WriteSection, Goto, names
  <2>2. QED
    BY <2>1, MoveBound DEF Seen
<1>6. CASE UNCHANGED vars
  BY <1>6, MoveBound DEF vars, names, Seen, Passed
<1>7. CASE \/ Caller \/ TooManySections \/ UnnamedSection \/ RelocFails \/ TooManyRelocs
           \/ Deliver \/ ScanSymbol \/ ScanNextSection \/ ScanDone \/ Accept
           \/ InternName \/ InternNextSection \/ InternExtern \/ NamesDone
           \/ SectionSymbol \/ SectionSymbolsDone
  <2>1. symIdx' = EmptyMap
    <3>1. CASE TooManySections \/ UnnamedSection \/ RelocFails \/ TooManyRelocs \/ Deliver
      BY <3>1 DEF TooManySections, UnnamedSection, RelocFails, TooManyRelocs, Deliver, Fail,
         Return
    <3>2. CASE Caller
      <4>1. pc = "idle" /\ UNCHANGED symIdx
        BY <3>2 DEF Caller, AddSection, SetSubsystem, WriteTo, names
      <4>2. QED
        BY <4>1 DEF IInv, Shape, Before
    <3>3. CASE \/ ScanSymbol \/ ScanNextSection \/ ScanDone \/ Accept
               \/ InternName \/ InternNextSection \/ InternExtern \/ NamesDone
               \/ SectionSymbol \/ SectionSymbolsDone
      <4>1. pc \in {"exports", "check", "names", "headers"} /\ UNCHANGED symIdx
        BY <3>3 DEF ScanSymbol, ScanNextSection, ScanDone, Accept, InternName,
           InternNextSection, InternExtern, NamesDone, SectionSymbol, SectionSymbolsDone,
           names
      <4>2. QED
        BY <4>1 DEF IInv, Shape, Before
    <3>4. QED
      BY <1>7, <3>1, <3>2, <3>3
  <2>2. DOMAIN symIdx' = {}
    BY <2>1, EmptyTables
  <2>3. QED
    BY <2>2 DEF Bound
<1>8. QED
  BY <1>1, <1>2, <1>3, <1>4, <1>5, <1>6, <1>7 DEF Next, Build


LEMMA ConvertSectionConverted == ASSUME IInv, Converted, ConvertSection PROVE Converted'
<1>0. PICK c : c = i
  OBVIOUS
<1> DEFINE rs  == work[c].relocs
           new == [m \in DOMAIN rs |-> Record(rs[m])]
<1>1. /\ pc = "relocs" /\ c <= Len(work) /\ recs' = Append(recs, new)
      /\ \A m \in DOMAIN rs : RelocOK(rs[m])
      /\ UNCHANGED <<opts, work, symIdx>>
  BY <1>0 DEF ConvertSection, names, file
<1>2. /\ recs \in Seq(Seq(Records)) /\ Len(recs) = c - 1 /\ c \in Nat \ {0}
  BY <1>0, <1>1 DEF IInv, TypeOK, Shape
<1>3. \A m \in DOMAIN new :
        /\ rs[m].symbol \in DOMAIN symIdx
        /\ new[m].sym = symIdx[rs[m].symbol]
        /\ new[m].type = RelocType(opts.arch, rs[m].kind)
  BY <1>1 DEF RelocOK, Record
<1> HIDE DEF new
<1>4. /\ recs'[c] = new /\ \A d \in 1 .. c - 1 : recs'[d] = recs[d]
      /\ DOMAIN recs' = 1 .. c /\ DOMAIN recs = 1 .. c - 1
  BY <1>1, <1>2
<1>5. ASSUME NEW d \in 1 .. c, NEW m \in DOMAIN recs'[d]
      PROVE  /\ work[d].relocs[m].symbol \in DOMAIN symIdx
             /\ recs'[d][m].sym = symIdx[work[d].relocs[m].symbol]
             /\ recs'[d][m].type = RelocType(opts.arch, work[d].relocs[m].kind)
  <2>1. CASE d = c
    BY <1>3, <1>4, <2>1
  <2>2. CASE d \in 1 .. c - 1
    BY <1>4, <2>2 DEF Converted
  <2>3. QED
    BY <1>2, <2>1, <2>2
<1>6. QED
  BY <1>1, <1>4, <1>5 DEF Converted

LEMMA ConvertedStep == IInv /\ Converted /\ [Next]_vars => Converted'
<1> SUFFICES ASSUME IInv, Converted, [Next]_vars PROVE Converted'
  OBVIOUS
<1>1. CASE ConvertSection
  BY <1>1, ConvertSectionConverted
<1>2. CASE RelocsDone \/ SkipSection \/ PlaceSection \/ LayoutDone \/ WriteSection
  <2>1. UNCHANGED <<opts, work, symIdx, recs>>
    BY <1>2 DEF RelocsDone, SkipSection, PlaceSection, LayoutDone, WriteSection, names, file
  <2>2. QED
    BY <2>1 DEF Converted
<1>3. CASE UNCHANGED vars
  BY <1>3 DEF vars, names, file, Converted
<1>4. CASE \/ Caller \/ TooManySections \/ UnnamedSection \/ RelocFails \/ TooManyRelocs
           \/ Deliver \/ ScanSymbol \/ ScanNextSection \/ ScanDone \/ Accept
           \/ InternName \/ InternNextSection \/ InternExtern \/ NamesDone
           \/ SectionSymbol \/ SectionSymbolsDone
           \/ DefineSymbol \/ DefineNextSection \/ UndefinedSymbol \/ SymbolsDone
  <2>1. recs' = << >>
    <3>1. CASE TooManySections \/ UnnamedSection \/ RelocFails \/ TooManyRelocs \/ Deliver
      BY <3>1 DEF TooManySections, UnnamedSection, RelocFails, TooManyRelocs, Deliver, Fail,
         Return
    <3>2. CASE Caller
      <4>1. pc = "idle" /\ UNCHANGED recs
        BY <3>2 DEF Caller, AddSection, SetSubsystem, WriteTo
      <4>2. QED
        BY <4>1 DEF IInv, Shape, Before
    <3>3. CASE \/ ScanSymbol \/ ScanNextSection \/ ScanDone \/ Accept
               \/ InternName \/ InternNextSection \/ InternExtern \/ NamesDone
               \/ SectionSymbol \/ SectionSymbolsDone
               \/ DefineSymbol \/ DefineNextSection \/ UndefinedSymbol \/ SymbolsDone
      <4>1. pc \in Before \cup {"symbols"} /\ UNCHANGED recs
        BY <3>3 DEF ScanSymbol, ScanNextSection, ScanDone, Accept, InternName,
           InternNextSection, InternExtern, NamesDone, SectionSymbol, SectionSymbolsDone,
           DefineSymbol, DefineNextSection, UndefinedSymbol, SymbolsDone, Before
      <4>2. QED
        BY <4>1 DEF IInv, Shape
    <3>4. QED
      BY <1>4, <3>1, <3>2, <3>3
  <2>2. QED
    BY <2>1 DEF Converted
<1>5. QED
  BY <1>1, <1>2, <1>3, <1>4 DEF Next, Build

\* A section number survives its two bytes, but for the numbers a linker
\* takes for something else.
LEMMA SectionNumber ==
  ASSUME NEW c \in Nat, c < Word16 PROVE Int16(c) % Word16 = c
<1>1. PICK w, h : w = Word16 /\ h = Word16 \div 2
  OBVIOUS
<1>2. w \in Nat /\ w > 0 /\ h \in Nat /\ 2 * h <= w
  BY <1>1, WidthAssumption
<1>3. \A n \in Int : /\ (n \div w) \in Int /\ (n % w) \in 0 .. w - 1
                    /\ n = w * (n \div w) + (n % w)
  BY <1>2
<1>4. \A q \in Int : (q >= 1 => w * q >= w) /\ (q <= -1 => w * q <= -w)
                     /\ (q >= 2 => w * q >= 2 * w) /\ (q = 0 => w * q = 0)
  BY <1>2, Z3
<1>5. ASSUME NEW n \in Int, 0 <= n, n < w PROVE n % w = n
  <2>1. PICK q, r : q = n \div w /\ r = n % w
    OBVIOUS
  <2>2. q \in Int /\ r \in 0 .. w - 1 /\ n = w * q + r
    BY <1>3, <2>1
  <2>3. w * q \in Int /\ q = 0
    BY <1>2, <1>4, <1>5, <2>2
  <2>4. QED
    BY <1>4, <2>1, <2>2, <2>3
<1>6. ASSUME NEW n \in Int, w <= n, n < 2 * w PROVE n % w = n - w
  <2>1. PICK q, r : q = n \div w /\ r = n % w
    OBVIOUS
  <2>2. q \in Int /\ r \in 0 .. w - 1 /\ n = w * q + r
    BY <1>3, <2>1
  <2>3. q = 1
    BY <1>2, <1>4, <1>6, <2>2
  <2>4. QED
    BY <1>2, <2>1, <2>2, <2>3
<1>7. ASSUME NEW n \in Int, -w <= n, n < 0 PROVE n % w = n + w
  <2>1. PICK q, r : q = n \div w /\ r = n % w
    OBVIOUS
  <2>2. q \in Int /\ r \in 0 .. w - 1 /\ n = w * q + r
    BY <1>3, <2>1
  <2>3. q = -1
    BY <1>2, <1>4, <1>7, <2>2
  <2>4. QED
    BY <1>2, <2>1, <2>2, <2>3
<1>8. Int16(c) = ((c + h) % w) - h
  BY <1>1 DEF Int16
<1>9. CASE c + h < w
  <2>1. (c + h) % w = c + h
    BY <1>2, <1>5, <1>9
  <2>2. Int16(c) = c
    BY <1>2, <1>8, <2>1
  <2>3. QED
    BY <1>1, <1>5, <2>2
<1>10. CASE c + h >= w
  <2>1. (c + h) % w = c + h - w
    BY <1>1, <1>2, <1>6, <1>10
  <2>2. Int16(c) = c - w
    BY <1>2, <1>8, <2>1
  <2>3. (c - w) % w = c
    BY <1>1, <1>2, <1>7
  <2>4. QED
    BY <1>1, <2>2, <2>3
<1>11. QED
  BY <1>2, <1>9, <1>10


\* What a reader of the image finds behind a header with bytes, and behind
\* the file header's symbol table.
LEMMA PiecesFound ==
  ASSUME IInv, Answers, Laid, Filled, Deliver, Short
  PROVE  /\ Symtab' = slots
         /\ \A c \in DOMAIN work : \A sh : sh = Header(c) /\ ~NoBits(work[c]) =>
              /\ sh.size = work[c].size
              /\ sh.size > 0 => Contents(sh.raw, sh.size)' = PatchedCode(c)
              /\ RecordsOf(sh)' = recs[c]
<1>1. /\ img' = Image /\ pc = "write" /\ i > Len(work) /\ Len(work) < Word16
  BY ImageFields
<1>2. img'.chunks = Tables.chunks /\ img'.symtab = pos /\ img'.nsyms = Len(slots)
  BY <1>1, ImageFields DEF Image
<1>3. PICK chunks, from, to :
        /\ chunks = Tables.chunks /\ Chained(chunks, from, to)
        /\ HasChunk(chunks, pos, 18 * Len(slots), slots)
        /\ \A a, s, b : HasChunk(out.chunks, a, s, b) => HasChunk(chunks, a, s, b)
  BY <1>1, TablesWritten
<1>4. slots \in Seq(Slots) /\ Len(slots) \in Nat
  BY DEF IInv, TypeOK
<1>5. Symtab' = slots
  <2>1. CASE Len(slots) = 0
    BY <1>2, <1>4, <2>1 DEF Symtab
  <2>2. CASE Len(slots) > 0
    <3>1. PICK at, size, bytes : at = pos /\ size = 18 * Len(slots) /\ bytes = slots
      OBVIOUS
    <3>2. size \in Nat \ {0} /\ Len(slots) # 0
      BY <1>4, <2>2, <3>1
    <3>3. HasChunk(chunks, at, size, bytes)
      BY <1>3, <3>1
    <3>4. DataAt(chunks, at) = bytes
      BY <1>3, <3>2, <3>3, DataFound
    <3>5. QED
      BY <1>2, <1>3, <3>1, <3>2, <3>4 DEF Symtab
  <2>3. QED
    BY <1>4, <2>1, <2>2
<1>6. ASSUME NEW at, NEW size \in Nat \ {0}, NEW bytes, HasChunk(chunks, at, size, bytes)
      PROVE  Contents(at, size)' = bytes
  <2>1. PICK S : S = {n \in DOMAIN chunks : chunks[n].at = at /\ chunks[n].size = size}
    OBVIOUS
  <2>2. /\ StartsAt(chunks, at)
        /\ DataAt(chunks, at) = bytes
        /\ \A T : T = {n \in DOMAIN chunks : chunks[n].at = at /\ chunks[n].size = size}
                  => T # {} /\ chunks[Max(T)].data = bytes
    <3>1. Chained(chunks, from, to)
      BY <1>3
    <3>2. QED
      BY <1>6, <3>1, DataFound
  <2>3. Extent(at, size)' = S
    BY <1>2, <1>3, <2>1 DEF Extent
  <2>4. QED
    BY <1>2, <1>3, <2>1, <2>2, <2>3 DEF Contents
<1>7. ASSUME NEW c \in DOMAIN work, NEW sh, sh = Header(c), ~NoBits(work[c])
      PROVE  /\ sh.size = work[c].size
             /\ sh.size > 0 => Contents(sh.raw, sh.size)' = PatchedCode(c)
             /\ RecordsOf(sh)' = recs[c]
  <2>1. /\ sh.size = work[c].size /\ sh.raw = lay[c].raw /\ sh.count = Len(recs[c])
        /\ Len(recs[c]) > 0 => sh.relocs = lay[c].raw + work[c].size
    BY <1>1, <1>7, HeaderFits
  <2>2. c \in DOMAIN lay /\ c \in 1 .. i - 1 /\ LaidAt(c)
    <3>1. DOMAIN lay = DOMAIN work /\ i \in Nat
      BY <1>1, PlaceType DEF IInv, Shape, TypeOK
    <3>2. QED
      BY <1>1, <1>7, <3>1, PlaceType DEF Laid
  <2>3. InFile(c)
    BY <1>1, <1>7, <2>2 DEF Filled
  <2>4. work[c].size \in Nat /\ recs[c] \in Seq(Records) /\ Len(recs[c]) \in Nat
    BY <1>1, PlaceFields
  <2>5. ASSUME sh.size > 0 PROVE Contents(sh.raw, sh.size)' = PatchedCode(c)
    <3>1. PICK at, size, bytes : at = lay[c].raw /\ size = work[c].size /\ bytes = PatchedCode(c)
      OBVIOUS
    <3>2. size \in Nat \ {0} /\ HasChunk(chunks, at, size, bytes)
      BY <1>3, <2>1, <2>3, <2>4, <2>5, <3>1 DEF InFile
    <3>3. Contents(at, size)' = bytes
      BY <1>6, <3>2
    <3>4. sh.raw = at /\ sh.size = size
      BY <2>1, <3>1
    <3>5. QED
      BY <3>1, <3>3, <3>4
  <2>6. sh.count = Len(recs[c])
    BY <2>1
  <2>7. RecordsOf(sh)' = recs[c]
    <3>1. CASE Len(recs[c]) = 0
      BY <2>4, <2>6, <3>1 DEF RecordsOf
    <3>2. CASE Len(recs[c]) > 0
      <4>1. PICK at, size, bytes :
              at = lay[c].raw + work[c].size /\ size = 10 * Len(recs[c]) /\ bytes = recs[c]
        OBVIOUS
      <4>2. recs[c] # << >>
        BY <3>2
      <4>3. HasChunk(chunks, at, size, bytes)
        BY <1>3, <2>3, <4>1, <4>2 DEF InFile
      <4>4. size \in Nat \ {0}
        BY <2>4, <3>2, <4>1
      <4>5. Contents(at, size)' = bytes
        BY <1>6, <4>3, <4>4
      <4>6. sh.relocs = at /\ 10 * sh.count = size /\ sh.count # 0
        BY <2>1, <3>2, <4>1
      <4>7. Contents(sh.relocs, 10 * sh.count)' = bytes
        BY <4>5, <4>6
      <4>8. QED
        BY <4>1, <4>6, <4>7 DEF RecordsOf
    <3>3. QED
      BY <2>4, <3>1, <3>2
  <2>8. QED
    BY <2>1, <2>5, <2>7
<1>8. QED
  BY <1>5, <1>7

\* The slot of a name tells a linker what the file defines last.
LEMMA NameStands ==
  ASSUME IInv, Answers, Bound, Laid, Filled, Deliver, Short,
         NEW name \in DOMAIN symIdx, NEW n, n = symIdx[name]
  PROVE  StandsFor(n, name)'
<1>1. PICK slot : slot = slots[n + 1]
  OBVIOUS
<1>2. /\ n \in Nat /\ n + 1 \in DOMAIN slots /\ slot.class # "AUX"
      /\ NameReads(slot.name, strtab.data, name)
  BY <1>1 DEF IInv, SlotsSound, Carries
<1>3. /\ added' = sections /\ pc = "write" /\ Strings' = strtab.data
      /\ Len(work) < Word16 /\ DOMAIN sections \subseteq DOMAIN work
      /\ \A c \in DOMAIN sections : work[c] = sections[c]
  BY ImageFields
<1>4. Symtab' = slots
  BY PiecesFound
<1>5. BoundTo(slot, name)
  BY <1>1 DEF Bound
<1>6. \A c \in DOMAIN work : work[c].symbols # << >> => c \in DOMAIN sections
  BY <1>3, DrectveFields DEF Answers, Listed
<1>7. \A p : p \in PlacesOf(name)' <=>
        \E c \in DOMAIN sections : \E m \in DOMAIN sections[c].symbols :
          sections[c].symbols[m].name = name /\ p = <<c, m>>
  BY <1>3 DEF PlacesOf
<1>8. CASE name \notin DefinedNames(work) /\ slot.section = 0 /\ slot.class = "EXTERNAL"
  <2>1. PlacesOf(name)' = {}
    BY <1>3, <1>7, <1>8 DEF DefinedNames
  <2>2. QED
    BY <1>1, <1>2, <1>3, <1>4, <1>8, <2>1 DEF StandsFor
<1>9. ASSUME NEW c \in DOMAIN work, NEW m \in DOMAIN work[c].symbols, LastSeen(name, c, m),
             Describes(slot, c, work[c].symbols[m])
      PROVE  StandsFor(n, name)'
  <2>1. c \in DOMAIN sections /\ work[c] = sections[c]
    BY <1>3, <1>6, <1>9
  <2>2. /\ work[c].symbols[m].name = name
        /\ \A d \in DOMAIN work : \A e \in DOMAIN work[d].symbols :
             work[d].symbols[e].name = name => d < c \/ (d = c /\ e <= m)
    BY <1>3, <1>9 DEF LastSeen, Seen
  <2>3. /\ c \in Nat /\ m \in Nat /\ c < Word16
        /\ \A d \in DOMAIN work : d \in Nat /\ \A e \in DOMAIN work[d].symbols : e \in Nat
    <3>1. \A d \in DOMAIN work : d \in Nat /\ \A e \in DOMAIN work[d].symbols : e \in Nat
      BY PlaceType
    <3>2. c < Word16
      BY <1>3, PlaceType, WidthAssumption
    <3>3. QED
      BY <3>1, <3>2
  <2>4. LastPlace(name)' = <<c, m>>
    <3>1. <<c, m>> \in PlacesOf(name)'
      BY <1>7, <2>1, <2>2
    <3>2. ASSUME NEW q \in PlacesOf(name)'
          PROVE  /\ c > q[1] \/ (c = q[1] /\ m >= q[2])
                 /\ q[1] \in Nat /\ q[2] \in Nat /\ q = <<q[1], q[2]>>
      <4>1. PICK d \in DOMAIN sections : \E e \in DOMAIN sections[d].symbols :
              sections[d].symbols[e].name = name /\ q = <<d, e>>
        BY <1>7
      <4>2. PICK e \in DOMAIN sections[d].symbols :
              sections[d].symbols[e].name = name /\ q = <<d, e>>
        BY <4>1
      <4>3. q[1] = d /\ q[2] = e
        BY <4>2
      <4>4. d \in DOMAIN work /\ e \in DOMAIN work[d].symbols /\ work[d].symbols[e].name = name
        BY <1>3, <4>2
      <4>5. d \in Nat /\ e \in Nat /\ (d < c \/ (d = c /\ e <= m))
        BY <2>2, <2>3, <4>4
      <4>6. QED
        BY <2>3, <4>2, <4>3, <4>5
    <3>3. PICK P : P = PlacesOf(name)'
      OBVIOUS
    <3>4. PICK p : p = CHOOSE x \in P : \A q \in P :
                         x[1] > q[1] \/ (x[1] = q[1] /\ x[2] >= q[2])
      OBVIOUS
    <3>5. p \in P /\ \A q \in P : p[1] > q[1] \/ (p[1] = q[1] /\ p[2] >= q[2])
      <4>1. /\ <<c, m>> \in P
            /\ \A q \in P : <<c, m>>[1] > q[1] \/ (<<c, m>>[1] = q[1] /\ <<c, m>>[2] >= q[2])
        BY <3>1, <3>2, <3>3
      <4>2. QED
        BY <3>4, <4>1
    <3>6. p[1] > c \/ (p[1] = c /\ p[2] >= m)
      <4>1. PICK q : q = <<c, m>>
        OBVIOUS
      <4>2. q \in P /\ q[1] = c /\ q[2] = m
        BY <3>1, <3>3, <4>1
      <4>3. QED
        BY <3>5, <4>2
    <3>7. p[1] \in Nat /\ p[2] \in Nat /\ p = <<p[1], p[2]>>
          /\ (c > p[1] \/ (c = p[1] /\ m >= p[2]))
      BY <3>2, <3>3, <3>5
    <3>8. p[1] = c /\ p[2] = m
      BY <2>3, <3>6, <3>7
    <3>9. p = <<c, m>>
      BY <3>7, <3>8
    <3>10. QED
      BY <3>3, <3>4, <3>9 DEF LastPlace
  <2>5. PlacesOf(name)' # {}
    BY <1>7, <2>1, <2>2
  <2>6. InSection(slot, c)
    <3>1. slot.section = Int16(c)
      BY <1>9 DEF Describes
    <3>2. Int16(c) % Word16 = c
      BY <2>3, SectionNumber
    <3>3. QED
      BY <3>1, <3>2 DEF InSection
  <2>7. PICK sym : sym = sections[c].symbols[m]
    OBVIOUS
  <2>8. slot.value = sym.offset /\ slot.class = Class(sym.binding)
    BY <1>9, <2>1, <2>7 DEF Describes
  <2>9. /\ added'[LastPlace(name)'[1]].symbols[LastPlace(name)'[2]] = sym
        /\ LastPlace(name)'[1] = c
    BY <1>3, <2>4, <2>7
  <2>10. QED
    BY <1>1, <1>2, <1>3, <1>4, <2>5, <2>6, <2>8, <2>9 DEF StandsFor
<1>10. QED
  BY <1>1, <1>5, <1>8, <1>9 DEF BoundTo

LEMMA DeliverBinds ==
  ASSUME IInv, Answers, Laid, Filled, Bound, Converted, Deliver, Short
  PROVE  RelocationsBind'
<1>1. /\ img' = Image /\ added' = sections /\ arch' = opts.arch /\ Built' /\ pc = "write"
      /\ DOMAIN sections \subseteq DOMAIN work
      /\ \A c \in DOMAIN sections : work[c] = sections[c]
      /\ \A c \in DOMAIN work : img'.shdrs[c] = Header(c)
      /\ sections' = sections
  BY ImageFields DEF Deliver, Return, file
<1>2. ASSUME NEW c \in DOMAIN sections, ~NoBits(sections[c]), NEW rs, rs = RecordsOf(img.shdrs[c])'
      PROVE  /\ Len(rs) = Len(sections[c].relocs)
             /\ \A m \in DOMAIN rs :
                  /\ rs[m].offset = sections[c].relocs[m].offset
                  /\ rs[m].type = RelocType(opts.arch, sections[c].relocs[m].kind)
                  /\ StandsFor(rs[m].sym, sections[c].relocs[m].symbol)'
  <2>1. c \in DOMAIN work /\ work[c] = sections[c]
    BY <1>1
  <2>2. PICK sh : sh = Header(c)
    OBVIOUS
  <2>3. img'.shdrs[c] = sh
    BY <1>1, <2>1, <2>2
  <2>4. RecordsOf(sh)' = recs[c]
    BY <1>2, <2>1, <2>2, PiecesFound
  <2>5. rs = recs[c]
    BY <1>2, <2>3, <2>4
  <2>6. c \in DOMAIN recs
    BY <1>1, <2>1, PlaceFields
  <2>7. Len(rs) = Len(sections[c].relocs)
    BY <2>1, <2>5, <2>6 DEF IInv, SlotsSound
  <2>8. ASSUME NEW m \in DOMAIN rs
        PROVE  /\ rs[m].offset = sections[c].relocs[m].offset
               /\ rs[m].type = RelocType(opts.arch, sections[c].relocs[m].kind)
               /\ StandsFor(rs[m].sym, sections[c].relocs[m].symbol)'
    <3>1. PICK name : name = sections[c].relocs[m].symbol
      OBVIOUS
    <3>2. /\ name \in DOMAIN symIdx /\ rs[m].sym = symIdx[name]
          /\ rs[m].type = RelocType(opts.arch, sections[c].relocs[m].kind)
      BY <2>1, <2>5, <2>6, <3>1 DEF Converted
    <3>3. rs[m].offset = sections[c].relocs[m].offset
      BY <2>1, <2>5, <2>6 DEF IInv, SlotsSound
    <3>4. PICK n : n = symIdx[name]
      OBVIOUS
    <3>5. StandsFor(n, name)'
      BY <3>2, <3>4, NameStands
    <3>6. rs[m].sym = n
      BY <3>2, <3>4
    <3>7. QED
      BY <1>1, <3>1, <3>2, <3>3, <3>5, <3>6
  <2>9. QED
    BY <2>7, <2>8
<1>3. QED
  BY <1>1, <1>2 DEF RelocationsBind


\* What applyImplicitAddends writes for a relocation, in terms of its kind.
LEMMA FieldIs ==
  ASSUME IInv, Converted, NEW c \in DOMAIN recs, NEW m \in DOMAIN recs[c],
         NEW r, r = work[c].relocs[m], Supported(opts.arch, r.kind),
         ~(opts.arch = "ARM64" /\ r.kind = "Abs32"),
         NEW a, a = IF r.kind \in {"PCRel32", "PLT32"} /\ Machine(opts.arch) = "AMD64"
                    THEN r.addend + 4 ELSE r.addend
  PROVE  /\ Field(c, m).offset = KindField(r).offset
         /\ Field(c, m).width = KindField(r).width
         /\ Field(c, m).value = IF KindField(r).width = 8 THEN a ELSE Int32(a)
<1>1. PICK kind, machine, type :
        kind = r.kind /\ machine = Machine(opts.arch) /\ type = recs[c][m].type
  OBVIOUS
<1>2. /\ type = RelocTable[machine][kind] /\ kind \in DOMAIN RelocTable[machine]
      /\ machine = "ARM64" \/ machine = "AMD64"
      /\ machine = "ARM64" => kind # "Abs32"
  BY <1>1 DEF Converted, RelocType, Supported, Machine
<1>3. /\ FieldWidth(type) = IF kind = "Abs64" THEN 8 ELSE 4
      /\ machine = "AMD64" /\ type = 4 <=> kind \in {"PCRel32", "PLT32"} /\ machine = "AMD64"
  <2>1. CASE machine = "AMD64"
    <3>1. RelocTable[machine] = [Abs64 |-> 1, Abs32 |-> 2, PCRel32 |-> 4, PLT32 |-> 4,
                                 IAT |-> 3, Addr32NB |-> 3, TLSIE |-> 11]
      BY <2>1 DEF RelocTable
    <3>2. kind \in {"Abs64", "Abs32", "PCRel32", "PLT32", "IAT", "Addr32NB", "TLSIE"}
      BY <1>2, <3>1
    <3>3. type = CASE kind = "Abs64" -> 1 [] kind = "Abs32" -> 2 [] kind = "PCRel32" -> 4
                   [] kind = "PLT32" -> 4 [] kind = "IAT" -> 3 [] kind = "Addr32NB" -> 3
                   [] OTHER -> 11
      BY <1>2, <3>1, <3>2
    <3>4. QED
      BY <2>1, <3>2, <3>3 DEF FieldWidth
  <2>2. CASE machine = "ARM64"
    <3>1. RelocTable[machine] = [Abs64 |-> 14, Abs32 |-> 1, PCRel26 |-> 3, PLT32 |-> 3,
                                 IAT |-> 2, Addr32NB |-> 2, TLSIE |-> 8]
      BY <2>2 DEF RelocTable
    <3>2. kind \in {"Abs64", "PCRel26", "PLT32", "IAT", "Addr32NB", "TLSIE"}
      BY <1>2, <2>2, <3>1
    <3>3. type = CASE kind = "Abs64" -> 14 [] kind = "PCRel26" -> 3 [] kind = "PLT32" -> 3
                   [] kind = "IAT" -> 2 [] kind = "Addr32NB" -> 2 [] OTHER -> 8
      BY <1>2, <3>1, <3>2
    <3>4. QED
      BY <2>2, <3>2, <3>3 DEF FieldWidth
  <2>3. QED
    BY <1>2, <2>1, <2>2
<1>4. PICK w : w = FieldWidth(type)
  OBVIOUS
<1>5. /\ Field(c, m).offset = r.offset /\ Field(c, m).width = w
      /\ Field(c, m).value = IF w = 8 THEN a ELSE Int32(a)
  <2>1. a = IF Machine(opts.arch) = "AMD64" /\ recs[c][m].type = 4 THEN r.addend + 4
            ELSE r.addend
    BY <1>1, <1>3
  <2>2. QED
    BY <1>1, <1>4, <2>1 DEF Field
<1>6. KindField(r).offset = r.offset /\ KindField(r).width = w
  BY <1>1, <1>3, <1>4 DEF KindField
<1>7. QED
  BY <1>5, <1>6


LEMMA DeliverKeeps ==
  ASSUME IInv, Answers, Laid, Filled, Converted, Deliver, Short
  PROVE  AddendsKept'
<1>1. /\ img' = Image /\ added' = sections /\ arch' = opts.arch /\ Built' /\ pc = "write"
      /\ DOMAIN sections \subseteq DOMAIN work
      /\ \A c \in DOMAIN sections : work[c] = sections[c]
      /\ \A c \in DOMAIN work : img'.shdrs[c] = Header(c)
  BY ImageFields
<1>2. ASSUME NEW c \in DOMAIN sections, NEW s, s = sections[c], ~NoBits(s), s.size > 0,
             \A m \in DOMAIN s.relocs : ~(opts.arch = "ARM64" /\ s.relocs[m].kind = "Abs32"),
             NEW code, code = Contents(img.shdrs[c].raw, img.shdrs[c].size)'
      PROVE  HoldsAddends(s, c, code)'
  <2>1. c \in DOMAIN work /\ work[c] = s /\ c \in DOMAIN recs
    BY <1>1, <1>2, PlaceFields
  <2>2. PICK sh : sh = Header(c)
    OBVIOUS
  <2>3. img'.shdrs[c] = sh
    BY <1>1, <2>1, <2>2
  <2>4. code = PatchedCode(c)
    <3>1. sh.size > 0 => Contents(sh.raw, sh.size)' = PatchedCode(c)
      BY <1>2, <2>1, <2>2, PiecesFound
    <3>2. sh.size = s.size
      BY <1>1, <1>2, <2>1, <2>2, HeaderFits
    <3>3. QED
      BY <1>2, <2>3, <3>1, <3>2
  <2>5. PICK plain : plain = Code(c)
    OBVIOUS
  <2>6. /\ plain = [b \in 1 .. s.size |-> <<"code", c, b>>]
        /\ s.size \in Nat /\ DOMAIN plain = 1 .. Len(plain) /\ Len(plain) = s.size
    <3>1. c <= Len(sections) /\ c \in Nat
      BY <1>2, PlaceType
    <3>2. s.size \in Nat
      BY <1>1, <2>1, PlaceFields
    <3>3. plain = [b \in 1 .. s.size |-> <<"code", c, b>>]
      BY <2>1, <2>5, <3>1, PlaceType DEF Code
    <3>4. QED
      BY <3>2, <3>3
  <2>7. PICK fields : fields = [m \in DOMAIN recs[c] |-> Field(c, m)]
    OBVIOUS
  <2>8. code = Patch(plain, fields)
    BY <2>4, <2>5, <2>7 DEF PatchedCode
  <2>9. /\ s.relocs \in Seq(Reloc) /\ DOMAIN s.relocs = 1 .. Len(s.relocs)
        /\ Len(s.relocs) \in Nat /\ DOMAIN fields = DOMAIN s.relocs
    <3>1. s.relocs \in Seq(Reloc)
      BY <2>1, WorkType, PlaceType DEF IInv
    <3>2. Len(recs[c]) = Len(s.relocs) /\ recs[c] \in Seq(Records)
      BY <1>1, <2>1, PlaceFields DEF IInv, SlotsSound
    <3>3. QED
      BY <2>7, <3>1, <3>2
  <2>10. ASSUME NEW m \in DOMAIN s.relocs, NEW r, r = s.relocs[m],
                NEW a, a = LogicalAddend(r)'
         PROVE  /\ fields[m].offset = KindField(r).offset /\ fields[m].width = KindField(r).width
                /\ fields[m].value = IF KindField(r).width = 8 THEN a ELSE Int32(a)
                /\ KindField(r).offset \in Nat /\ KindField(r).width \in Nat
                /\ KindField(r).offset = r.offset
    <3>1. r = work[c].relocs[m] /\ m \in DOMAIN recs[c] /\ fields[m] = Field(c, m)
      BY <2>1, <2>7, <2>9, <2>10
    <3>2. Supported(opts.arch, r.kind) /\ ~(opts.arch = "ARM64" /\ r.kind = "Abs32")
      BY <1>2, <2>1, <2>10 DEF Answers, InOrder
    <3>3. a = IF r.kind \in {"PCRel32", "PLT32"} /\ Machine(opts.arch) = "AMD64"
              THEN r.addend + 4 ELSE r.addend
      BY <1>1, <2>10 DEF LogicalAddend
    <3>4. /\ Field(c, m).offset = KindField(r).offset
          /\ Field(c, m).width = KindField(r).width
          /\ Field(c, m).value = IF KindField(r).width = 8 THEN a ELSE Int32(a)
      BY <2>1, <3>1, <3>2, <3>3, FieldIs
    <3>5. r \in Reloc
      BY <2>9, <2>10
    <3>6. /\ KindField(r).offset \in Nat /\ KindField(r).width \in Nat
          /\ KindField(r).offset = r.offset
      BY <3>5 DEF KindField, Reloc
    <3>7. QED
      BY <3>1, <3>4, <3>6
  <2>11. ASSUME NEW b \in 1 .. s.size,
                \A m \in DOMAIN s.relocs : ~Covers(KindField(s.relocs[m]), b)
         PROVE  code[b] = <<"code", c, b>>
    <3>1. b \in DOMAIN plain /\ plain[b] = <<"code", c, b>>
      BY <2>6
    <3>2. \A m \in DOMAIN fields : ~Covers(fields[m], b)
      BY <2>9, <2>10, <2>11 DEF Covers
    <3>3. QED
      BY <2>8, <3>1, <3>2, PatchKeeps
  <2>12. ASSUME NEW m \in DOMAIN s.relocs,
                Inside(KindField(s.relocs[m]), s.size),
                \A n \in m + 1 .. Len(s.relocs) : \A b \in 1 .. s.size :
                  ~(Covers(KindField(s.relocs[m]), b) /\ Covers(KindField(s.relocs[n]), b)),
                NEW a, a = LogicalAddend(s.relocs[m])'
         PROVE  HoldsNumber(code, s.relocs[m].offset, KindField(s.relocs[m]).width,
                  IF KindField(s.relocs[m]).width = 8 THEN a ELSE Int32(a))
    <3>1. PICK r : r = s.relocs[m]
      OBVIOUS
    <3>2. a = LogicalAddend(r)'
      <4>1. sections' = sections
        BY DEF Deliver, Return, file
      <4>2. QED
        BY <2>12, <3>1
    <3>3. /\ fields[m].offset = KindField(r).offset /\ fields[m].width = KindField(r).width
          /\ fields[m].value = IF KindField(r).width = 8 THEN a ELSE Int32(a)
          /\ KindField(r).offset \in Nat /\ KindField(r).width \in Nat
          /\ KindField(r).offset = r.offset
      BY <2>10, <3>1, <3>2
    <3>4. DOMAIN fields \subseteq Int /\ m \in DOMAIN fields /\ Len(plain) \in Nat
      BY <2>6, <2>9
    <3>5. fields[m].offset \in Nat /\ fields[m].width \in Nat
      BY <3>3
    <3>6. Inside(fields[m], Len(plain))
      BY <2>6, <2>12, <3>1, <3>3 DEF Inside
    <3>7. ASSUME NEW n \in DOMAIN fields, NEW b \in DOMAIN plain,
                 Covers(fields[m], b), Covers(fields[n], b)
          PROVE  n <= m
      <4>1. SUFFICES ASSUME n \in m + 1 .. Len(s.relocs) PROVE FALSE
        BY <2>9
      <4>2. b \in 1 .. s.size
        BY <2>6
      <4>3. Covers(KindField(s.relocs[m]), b)
        BY <3>1, <3>3, <3>7 DEF Covers
      <4>4. Covers(KindField(s.relocs[n]), b)
        BY <2>9, <2>10, <3>7 DEF Covers
      <4>5. QED
        BY <2>12, <4>1, <4>2, <4>3, <4>4
    <3>8. HoldsNumber(Patch(plain, fields), fields[m].offset, fields[m].width, fields[m].value)
      BY <2>6, <3>4, <3>5, <3>6, <3>7, PatchHolds
    <3>9. QED
      BY <2>8, <3>1, <3>3, <3>8
  <2>13. QED
    BY <2>11, <2>12 DEF HoldsAddends
<1>3. ASSUME NEW c \in DOMAIN sections, ~NoBits(sections[c]), sections[c].size > 0,
             \A m \in DOMAIN sections[c].relocs :
               ~(opts.arch = "ARM64" /\ sections[c].relocs[m].kind = "Abs32")
      PROVE  HoldsAddends(added[c], c, Contents(img.shdrs[c].raw, img.shdrs[c].size))'
  <2>1. PICK s, code : /\ s = sections[c]
                       /\ code = Contents(img.shdrs[c].raw, img.shdrs[c].size)'
    OBVIOUS
  <2>2. HoldsAddends(s, c, code)'
    BY <1>2, <1>3, <2>1
  <2>3. added'[c] = s
    BY <1>1, <2>1
  <2>4. QED
    BY <2>1, <2>2, <2>3
<1>4. QED
  BY <1>1, <1>3 DEF AddendsKept

LEMMA InitRecords == Init => Bound /\ Converted
<1>1. Init => DOMAIN symIdx = {} /\ recs = << >>
  BY EmptyTables DEF Init
<1>2. QED
  BY <1>1 DEF Bound, Converted

\* In every image whose sections end before 2^32 a linker that follows a
\* relocation record, counting slots and not symbols, reaches a symbol with the
\* name the caller gave that is what the file defines last under that name, or
\* an undefined one; and each section with bytes has the records of all its
\* relocations, in order.
THEOREM RecordsReachTheirSymbols == Spec => []RelocationsBind
<1>1. Init => RelocationsBind
  BY InitReader DEF RelocationsBind
<1>2. IInv /\ Answers /\ Laid /\ Filled /\ Bound /\ Converted /\ RelocationsBind /\ [Next]_vars
      => RelocationsBind'
  <2> SUFFICES ASSUME IInv, Answers, Laid, Filled, Bound, Converted, RelocationsBind,
                      [Next]_vars
               PROVE  RelocationsBind'
    OBVIOUS
  <2>1. CASE Deliver /\ Short
    BY <2>1, DeliverBinds
  <2>2. CASE ~(Built /\ FewBytes)'
    BY <2>2 DEF RelocationsBind
  <2>3. CASE UNCHANGED last
    <3>1. /\ Built' = Built /\ FewBytes' = FewBytes /\ img' = img /\ added' = added
          /\ arch' = arch
      BY <2>3, SameImage
    <3>2. \A sh : RecordsOf(sh)' = RecordsOf(sh)
      BY <3>1 DEF RecordsOf, Contents, Extent
    <3>3. \A n, name : StandsFor(n, name)' <=> StandsFor(n, name)
      <4>1. Symtab' = Symtab /\ Strings' = Strings
        BY <2>3, SameImage
      <4>2. \A name : PlacesOf(name)' = PlacesOf(name)
        BY <3>1 DEF PlacesOf
      <4>3. \A name : LastPlace(name)' = LastPlace(name)
        BY <4>2 DEF LastPlace
      <4>4. QED
        BY <3>1, <4>1, <4>2, <4>3 DEF StandsFor
    <3>4. QED
      BY <3>1, <3>2, <3>3 DEF RelocationsBind
  <2>4. QED
    BY <2>1, <2>2, <2>3, OtherSteps
<1>3. QED
  BY Inductive, InitAnswers, AnswersStep, InitReader, LaidStep, InitRecords, BoundStep,
     ConvertedStep, <1>1, <1>2, PTL DEF Spec

\* In every image whose sections end before 2^32 the addends arrive and the rest
\* of the caller's bytes survives: a field that lies in its section and overlaps
\* no later one holds the addend of its relocation, four more where AMD64 counts
\* from the end of the field, and a byte in no field is the caller's.
THEOREM AddendsArrive == Spec => []AddendsKept
<1>1. Init => AddendsKept
  BY InitReader DEF AddendsKept
<1>2. IInv /\ Answers /\ Laid /\ Filled /\ Converted /\ AddendsKept /\ [Next]_vars
      => AddendsKept'
  <2> SUFFICES ASSUME IInv, Answers, Laid, Filled, Converted, AddendsKept, [Next]_vars
               PROVE  AddendsKept'
    OBVIOUS
  <2>1. CASE Deliver /\ Short
    BY <2>1, DeliverKeeps
  <2>2. CASE ~(Built /\ FewBytes)'
    BY <2>2 DEF AddendsKept
  <2>3. CASE UNCHANGED last
    <3>1. /\ Built' = Built /\ FewBytes' = FewBytes /\ img' = img /\ added' = added
          /\ arch' = arch
      BY <2>3, SameImage
    <3>2. \A at, size : Contents(at, size)' = Contents(at, size)
      BY <3>1 DEF Contents, Extent
    <3>3. \A s, c, code : HoldsAddends(s, c, code)' <=> HoldsAddends(s, c, code)
      BY <3>1 DEF HoldsAddends, LogicalAddend
    <3>4. QED
      BY <3>1, <3>2, <3>3 DEF AddendsKept
  <2>4. QED
    BY <2>1, <2>2, <2>3, OtherSteps
<1>3. QED
  BY Inductive, InitAnswers, AnswersStep, InitReader, LaidStep, InitRecords,
     ConvertedStep, <1>1, <1>2, PTL DEF Spec

-----------------------------------------------------------------------------
(***************************************************************************)
(* The walk over the table.  Announced says that the records are where the *)
(* symbols announce them, Headed which slots are those of the sections,    *)
(* Tabled which are those of the definitions passed so far, Entered, and   *)
(* of the undefined names entered behind them, Externs.                    *)
(***************************************************************************)
Behind == {"symbols", "relocs", "layout", "write"}

Announced ==
  /\ \A n \in DOMAIN slots :
       slots[n].class = "AUX" <=> n > 1 /\ slots[n - 1].class # "AUX" /\ slots[n - 1].aux = 1
  /\ \A n \in DOMAIN slots : n = Len(slots) => slots[n].class = "AUX" \/ slots[n].aux = 0

\* Slot n is the symbol of section c, with the name that its header gets; of
\* the definition at p; of the undefined name.
InTable(c) ==
  SectionName(work[c]) \in LongNames => SectionName(work[c]) \in DOMAIN strtab.offsets

HeadIn(n, c) ==
  /\ n \in DOMAIN slots /\ slots[n].class = "STATIC" /\ slots[n].value = 0
  /\ slots[n].section = Int16(c) /\ slots[n].aux = (IF work[c].linkOnce THEN 1 ELSE 0)
  /\ NameReads(slots[n].name, strtab.data, SectionName(work[c]))
  /\ slots[n].name = NameField(strtab, SectionName(work[c])) /\ InTable(c)
  /\ work[c].linkOnce => n + 1 \in DOMAIN slots /\ slots[n + 1] = AuxSlot(work[c])

DefinedIn(n, p) ==
  LET sym == SymAt(work, p)
  IN  /\ n \in DOMAIN slots /\ slots[n].class = Class(sym.binding)
      /\ slots[n].value = sym.offset /\ slots[n].section = Int16(p[1]) /\ slots[n].aux = 0
      /\ NameReads(slots[n].name, strtab.data, sym.name)

UndefinedIn(n, name) ==
  /\ n \in DOMAIN slots /\ slots[n].class = "EXTERNAL"
  /\ slots[n].value = 0 /\ slots[n].section = 0 /\ slots[n].aux = 0
  /\ NameReads(slots[n].name, strtab.data, name)

Headed ==
  /\ pc = "headers" =>
       /\ Len(slots) + 1 = HeadAt(Comdats(work), i)
       /\ \A c \in 1 .. i - 1 : HeadIn(HeadAt(Comdats(work), c), c)
  /\ pc \in Behind => \A c \in DOMAIN work : HeadIn(HeadAt(Comdats(work), c), c)

Ahead == Len(work) + Cardinality(Comdats(work))
Entered == {p \in Definitions(work) : Seen(p[1], p[2])}
Externs == ExternalRefs(work) \cap DOMAIN symIdx

Tabled ==
  pc \in Behind =>
    /\ IsFiniteSet(Entered) /\ IsFiniteSet(Externs)
    /\ Len(slots) = Ahead + Cardinality(Entered) + Cardinality(Externs)
    /\ \A p \in Entered : DefinedIn(Ahead + Turn(Definitions(work), p), p)
    /\ \A name \in Externs :
         UndefinedIn(Ahead + Cardinality(Entered) + UndefTurn(ExternalRefs(work), name), name)
    /\ pc = "symbols" /\ i <= Len(work) => Externs = {}
    /\ \A a \in Externs, b \in ExternalRefs(work) \ DOMAIN symIdx : Rank(a) < Rank(b)

\* The sections in front of a COMDAT section have a slot each, the COMDAT ones
\* among them two.
LEMMA HeadAtNext ==
  ASSUME NEW C, IsFiniteSet(C), C \subseteq Nat, NEW c \in Nat
  PROVE  /\ HeadAt(C, c) \in Nat
         /\ HeadAt(C, c + 1) = HeadAt(C, c) + (IF c \in C THEN 2 ELSE 1)
<1> DEFINE B == {b \in C : b < c}
<1>1. IsFiniteSet(B)
  BY FS_Subset
<1>2. Cardinality(B) \in Nat
  BY <1>1, FS_CardinalityType
<1>3. HeadAt(C, c) = c + Cardinality(B)
  BY DEF HeadAt
<1>0. \A b \in C : b < c + 1 <=> b < c \/ b = c
  OBVIOUS
<1>4. CASE c \in C
  <2>1. {b \in C : b < c + 1} = B \cup {c} /\ c \notin B
    <3>1. c \notin B
      OBVIOUS
    <3>2. \A b \in C : b < c + 1 <=> b \in B \cup {c}
      BY <1>0
    <3>3. B \cup {c} \subseteq C
      BY <1>4
    <3> HIDE DEF B
    <3>4. QED
      BY <3>1, <3>2, <3>3
  <2> HIDE DEF B
  <2>2. Cardinality(B \cup {c}) = Cardinality(B) + 1
    BY <1>1, <2>1, FS_AddElement
  <2>3. HeadAt(C, c + 1) = c + 1 + (Cardinality(B) + 1)
    BY <2>1, <2>2 DEF HeadAt
  <2>4. QED
    BY <1>2, <1>3, <1>4, <2>3
<1>5. CASE c \notin C
  <2>1. {b \in C : b < c + 1} = B
    <3>1. \A b \in C : b < c + 1 <=> b < c
      BY <1>0, <1>5
    <3>2. QED
      BY <3>1
  <2> HIDE DEF B
  <2>2. HeadAt(C, c + 1) = c + 1 + Cardinality(B)
    BY <2>1 DEF HeadAt
  <2>3. QED
    BY <1>2, <1>3, <1>5, <2>2
<1>6. QED
  BY <1>4, <1>5

LEMMA ComdatsFinite ==
  ASSUME IInv
  PROVE  /\ IsFiniteSet(Comdats(work)) /\ Comdats(work) \subseteq 1 .. Len(work)
         /\ Cardinality(Comdats(work)) \in Nat /\ Len(work) \in Nat
         /\ HeadAt(Comdats(work), Len(work) + 1) = Ahead + 1
         /\ HeadAt(Comdats(work), 1) = 1
<1> DEFINE C == Comdats(work)
           n == Len(work)
<1>1. n \in Nat /\ C \subseteq 1 .. n
  BY PlaceType DEF Comdats
<1>2. IsFiniteSet(1 .. n)
  BY <1>1, FS_Interval
<1>3. IsFiniteSet(C)
  BY <1>1, <1>2, FS_Subset
<1>4. Cardinality(C) \in Nat
  BY <1>3, FS_CardinalityType
<1>5. {b \in C : b < n + 1} = C /\ {b \in C : b < 1} = {}
  BY <1>1
<1> HIDE DEF C, n
<1>6. HeadAt(C, n + 1) = n + 1 + Cardinality(C) /\ HeadAt(C, 1) = 1
  BY <1>5, FS_EmptySet DEF HeadAt
<1>7. QED
  BY <1>1, <1>3, <1>4, <1>6 DEF C, n, Ahead

\* Interning takes no offset back, and a long name then has one.
Keeps(t) ==
  \A name \in DOMAIN strtab.offsets :
    name \in DOMAIN t.offsets /\ t.offsets[name] = strtab.offsets[name]

LEMMA InternLongKeeps ==
  ASSUME Consistent(strtab), NEW name \in Name
  PROVE  LET t == InternLong(strtab, name)
         IN  /\ Keeps(t)
             /\ name \in LongNames => name \in DOMAIN t.offsets
             /\ NameField(t, name) = NameField(strtab, name)
<1>1. CASE name \notin LongNames
  BY <1>1 DEF InternLong, NameField, Keeps
<1>2. CASE name \in LongNames /\ name \in DOMAIN strtab.offsets
  <2>1. InternLong(strtab, name) = strtab
    BY <1>2 DEF InternLong, Intern
  <2>2. QED
    BY <1>2, <2>1 DEF Keeps
<1>3. CASE name \in LongNames /\ name \notin DOMAIN strtab.offsets
  <2>1. PICK t : t = InternLong(strtab, name)
    OBVIOUS
  <2>2. t = [data |-> Append(strtab.data \o name, NUL),
             offsets |-> Put(strtab.offsets, name, Len(strtab.data))]
    BY <1>3, <2>1 DEF InternLong, Intern
  <2>3. t.offsets = Put(strtab.offsets, name, Len(strtab.data))
    BY <2>2
  <2>4. /\ DOMAIN t.offsets = DOMAIN strtab.offsets \cup {name}
        /\ t.offsets[name] = Len(strtab.data)
        /\ \A other \in DOMAIN strtab.offsets : t.offsets[other] = strtab.offsets[other]
    BY <1>3, <2>3 DEF Put
  <2>5. Keeps(t) /\ name \in DOMAIN t.offsets
    BY <2>4 DEF Keeps
  <2>6. OffsetOf(t, name) = Len(strtab.data)
    BY <2>4 DEF OffsetOf, Intern
  <2>7. OffsetOf(strtab, name) = Len(strtab.data)
    <3>1. Intern(strtab, name).offsets = Put(strtab.offsets, name, Len(strtab.data))
      BY <1>3 DEF Intern
    <3>2. QED
      BY <3>1 DEF OffsetOf, Put
  <2>8. NameField(t, name) = NameField(strtab, name)
    BY <1>3, <2>6, <2>7 DEF NameField
  <2>9. QED
    BY <2>1, <2>5, <2>8
<1>4. QED
  BY <1>1, <1>2, <1>3

LEMMA KeptField ==
  ASSUME NEW t, Keeps(t), NEW name, name \in LongNames => name \in DOMAIN strtab.offsets
  PROVE  /\ NameField(t, name) = NameField(strtab, name)
         /\ name \in LongNames => name \in DOMAIN t.offsets
<1>1. CASE name \notin LongNames
  BY <1>1 DEF NameField
<1>2. CASE name \in LongNames
  <2>1. /\ name \in DOMAIN strtab.offsets /\ name \in DOMAIN t.offsets
        /\ t.offsets[name] = strtab.offsets[name]
    BY <1>2 DEF Keeps
  <2>2. OffsetOf(t, name) = OffsetOf(strtab, name)
    BY <2>1 DEF OffsetOf, Intern
  <2>3. QED
    BY <1>2, <2>1, <2>2 DEF NameField
<1>3. QED
  BY <1>1, <1>2

\* Slots and strings are added at the end: what a slot is, it stays.
LEMMA SlotsStay ==
  ASSUME IInv, UNCHANGED work, Consistent(strtab'), Extends(strtab'.data, strtab.data),
         Keeps(strtab'),
         slots' \in Seq(Slots), Len(slots) <= Len(slots'),
         \A n \in 1 .. Len(slots) : slots'[n] = slots[n]
  PROVE  /\ \A n : \A c \in DOMAIN work : HeadIn(n, c) => HeadIn(n, c)'
         /\ \A n : \A p \in Definitions(work) : DefinedIn(n, p) => DefinedIn(n, p)'
         /\ \A n : \A name \in Name : UndefinedIn(n, name) => UndefinedIn(n, name)'
<1>1. /\ slots \in Seq(Slots) /\ Len(slots) \in Nat /\ Len(slots') \in Nat
      /\ DOMAIN slots = 1 .. Len(slots) /\ DOMAIN slots' = 1 .. Len(slots')
      /\ strtab.data \in Seq(Char \cup {NUL}) /\ strtab'.data \in Seq(Char \cup {NUL})
  BY DEF IInv, TypeOK, Consistent
<1>2. \A n \in DOMAIN slots : n \in DOMAIN slots' /\ slots'[n] = slots[n]
  BY <1>1
<1>3. ASSUME NEW n \in DOMAIN slots, slots[n].class # "AUX", NEW name \in Name,
             NameReads(slots[n].name, strtab.data, name)
      PROVE  NameReads(slots'[n].name, strtab'.data, name)
  <2>1. slots[n].name \in NameFields
    BY <1>1, <1>3, HeadName
  <2>2. NameReads(slots[n].name, strtab'.data, name)
    BY <1>1, <1>3, <2>1, NameReadsExtends
  <2>3. QED
    BY <1>2, <2>2
<1>4. ASSUME NEW n, NEW c \in DOMAIN work, HeadIn(n, c) PROVE HeadIn(n, c)'
  <2>1. /\ n \in DOMAIN slots /\ slots[n].class # "AUX"
        /\ NameReads(slots[n].name, strtab.data, SectionName(work[c]))
    BY <1>4 DEF HeadIn
  <2>2. SectionName(work[c]) \in Name
    BY PlaceType, WorkType, SectionNameType DEF IInv
  <2>3. NameReads(slots'[n].name, strtab'.data, SectionName(work[c]))
    BY <1>3, <2>1, <2>2
  <2>4. slots'[n].name = NameField(strtab', SectionName(work[c])) /\ InTable(c)'
    <3>1. PICK name, new : name = SectionName(work[c]) /\ new = strtab'
      OBVIOUS
    <3>2. Keeps(new) /\ (name \in LongNames => name \in DOMAIN strtab.offsets)
      BY <1>4, <3>1 DEF HeadIn, InTable
    <3>3. /\ NameField(new, name) = NameField(strtab, name)
          /\ name \in LongNames => name \in DOMAIN new.offsets
      BY <3>2, KeptField
    <3>4. slots'[n].name = NameField(strtab, name)
      BY <1>2, <1>4, <2>1, <3>1 DEF HeadIn
    <3>5. QED
      BY <3>1, <3>3, <3>4 DEF InTable
  <2>5. QED
    BY <1>2, <1>4, <2>3, <2>4 DEF HeadIn, AuxSlot, RawSize
<1>5. ASSUME NEW n, NEW p \in Definitions(work), DefinedIn(n, p) PROVE DefinedIn(n, p)'
  <2>1. /\ n \in DOMAIN slots /\ slots[n].class # "AUX"
        /\ NameReads(slots[n].name, strtab.data, SymAt(work, p).name)
    BY <1>5 DEF DefinedIn, Class
  <2>2. SymAt(work, p).name \in Name
    <3>1. PICK c \in DOMAIN work : p \in {c} \X DOMAIN work[c].symbols
      BY DEF Definitions
    <3>2. p[1] = c /\ p[2] \in DOMAIN work[c].symbols
      BY <3>1
    <3>3. work[c].symbols \in Seq(Symbol)
      BY PlaceType, WorkType DEF IInv
    <3>4. work[c].symbols[p[2]] \in Symbol
      BY <3>2, <3>3
    <3>5. QED
      BY <3>2, <3>4 DEF SymAt, Symbol
  <2>3. NameReads(slots'[n].name, strtab'.data, SymAt(work, p).name)
    BY <1>3, <2>1, <2>2
  <2>4. SymAt(work, p)' = SymAt(work, p)
    BY DEF SymAt
  <2>5. QED
    BY <1>2, <1>5, <2>3, <2>4 DEF DefinedIn
<1>6. ASSUME NEW n, NEW name \in Name, UndefinedIn(n, name) PROVE UndefinedIn(n, name)'
  <2>1. NameReads(slots'[n].name, strtab'.data, name)
    BY <1>3, <1>6 DEF UndefinedIn
  <2>2. QED
    BY <1>2, <1>6, <2>1 DEF UndefinedIn
<1>7. QED
  BY <1>4, <1>5, <1>6

\* A symbol behind a table that is complete leaves it so; with the record it
\* announces.
LEMMA OneAnnounced ==
  ASSUME IInv, Announced, NEW slot, slot.class # "AUX", slot.aux = 0,
         Len(slots') = Len(slots) + 1, slots'[Len(slots) + 1] = slot,
         slots' \in Seq(Slots), \A n \in 1 .. Len(slots) : slots'[n] = slots[n]
  PROVE  Announced'
<1>1. /\ Len(slots) \in Nat /\ DOMAIN slots = 1 .. Len(slots)
      /\ DOMAIN slots' = 1 .. Len(slots) + 1
  BY DEF IInv, TypeOK
<1>2. ASSUME NEW n \in DOMAIN slots', n # Len(slots) + 1
      PROVE  slots'[n].class = "AUX" <=>
               n > 1 /\ slots'[n - 1].class # "AUX" /\ slots'[n - 1].aux = 1
  <2>1. n \in 1 .. Len(slots) /\ (n > 1 => n - 1 \in 1 .. Len(slots))
    BY <1>1, <1>2
  <2>2. QED
    BY <1>1, <2>1 DEF Announced
<1>3. LET n == Len(slots) + 1
      IN  ~(n > 1 /\ slots'[n - 1].class # "AUX" /\ slots'[n - 1].aux = 1)
  <2>1. CASE Len(slots) = 0
    BY <2>1
  <2>2. CASE Len(slots) > 0
    <3>1. /\ Len(slots) \in 1 .. Len(slots) /\ Len(slots) + 1 - 1 = Len(slots)
          /\ slots'[Len(slots)] = slots[Len(slots)]
      BY <1>1, <2>2
    <3>2. slots[Len(slots)].class = "AUX" \/ slots[Len(slots)].aux = 0
      BY <1>1, <3>1 DEF Announced
    <3>3. QED
      BY <3>1, <3>2
  <2>3. QED
    BY <1>1, <2>1, <2>2
<1>4. QED
  BY <1>1, <1>2, <1>3 DEF Announced

LEMMA TwoAnnounced ==
  ASSUME IInv, Announced, NEW head, head.class # "AUX", head.aux = 1, NEW rec, rec.class = "AUX",
         Len(slots') = Len(slots) + 2, slots'[Len(slots) + 1] = head,
         slots'[Len(slots) + 2] = rec,
         slots' \in Seq(Slots), \A n \in 1 .. Len(slots) : slots'[n] = slots[n]
  PROVE  Announced'
<1>1. /\ Len(slots) \in Nat /\ DOMAIN slots = 1 .. Len(slots)
      /\ DOMAIN slots' = 1 .. Len(slots) + 2
  BY DEF IInv, TypeOK
<1>2. ASSUME NEW n \in 1 .. Len(slots)
      PROVE  slots'[n].class = "AUX" <=>
               n > 1 /\ slots'[n - 1].class # "AUX" /\ slots'[n - 1].aux = 1
  <2>1. n > 1 => n - 1 \in 1 .. Len(slots)
    BY <1>1
  <2>2. QED
    BY <1>1, <2>1 DEF Announced
<1>3. LET n == Len(slots) + 1
      IN  ~(n > 1 /\ slots'[n - 1].class # "AUX" /\ slots'[n - 1].aux = 1)
  <2>1. CASE Len(slots) = 0
    BY <2>1
  <2>2. CASE Len(slots) > 0
    <3>1. /\ Len(slots) \in 1 .. Len(slots) /\ Len(slots) + 1 - 1 = Len(slots)
          /\ slots'[Len(slots)] = slots[Len(slots)]
      BY <1>1, <2>2
    <3>2. slots[Len(slots)].class = "AUX" \/ slots[Len(slots)].aux = 0
      BY <1>1, <3>1 DEF Announced
    <3>3. QED
      BY <3>1, <3>2
  <2>3. QED
    BY <1>1, <2>1, <2>2
<1>4. LET n == Len(slots) + 2
      IN  n > 1 /\ slots'[n - 1].class # "AUX" /\ slots'[n - 1].aux = 1
  <2>1. Len(slots) + 2 - 1 = Len(slots) + 1 /\ Len(slots) + 2 > 1
    BY <1>1
  <2>2. QED
    BY <2>1
<1>5. \A n \in DOMAIN slots' : n \in 1 .. Len(slots) \/ n = Len(slots) + 1 \/ n = Len(slots) + 2
  BY <1>1
<1>6. QED
  BY <1>1, <1>2, <1>3, <1>4, <1>5 DEF Announced

\* SectionSymbol adds the symbol of one section, behind those of the sections
\* in front of it, and its record.
LEMMA SectionSymbolHeaded ==
  ASSUME IInv, Announced, Headed, SectionSymbol PROVE Announced' /\ Headed'
<1>0. PICK c, s, head, rec, C :
        /\ c = i /\ s = work[c] /\ C = Comdats(work) /\ rec = AuxSlot(s)
        /\ head = Slot(SectionName(s), 0, Int16(c), "NULL", "STATIC", IF s.linkOnce THEN 1 ELSE 0)
  OBVIOUS
<1>1. /\ pc = "headers" /\ pc' = "headers" /\ c <= Len(work) /\ i' = c + 1 /\ work' = work
      /\ slots' = slots \o <<head>> \o (IF s.linkOnce THEN <<rec>> ELSE << >>)
      /\ strtab' = InternLong(strtab, SectionName(s))
  BY <1>0 DEF SectionSymbol
<1>2. /\ c \in DOMAIN work /\ c \in Nat \ {0} /\ s \in Section /\ SectionName(s) \in Name
      /\ s.linkOnce \in BOOLEAN
  BY <1>0, <1>1, PlaceType, WorkType, SectionNameType, SectionFields DEF IInv
<1>3. /\ Consistent(strtab') /\ Extends(strtab'.data, strtab.data) /\ Consistent(strtab)
      /\ NameReads(NameField(strtab, SectionName(s)), strtab'.data, SectionName(s))
      /\ Keeps(strtab')
      /\ NameField(strtab', SectionName(s)) = NameField(strtab, SectionName(s))
      /\ SectionName(s) \in LongNames => SectionName(s) \in DOMAIN strtab'.offsets
  <2>1. PICK name, t : name = SectionName(s) /\ t = InternLong(strtab, name)
    OBVIOUS
  <2>2. Consistent(strtab) /\ name \in Name /\ strtab' = t
    BY <1>1, <1>2, <2>1 DEF IInv, TypeOK
  <2>3. /\ Consistent(t) /\ Extends(t.data, strtab.data)
        /\ NameReads(NameField(strtab, name), t.data, name)
    BY <2>1, <2>2, InternLongLemma
  <2>4. /\ Keeps(t) /\ NameField(t, name) = NameField(strtab, name)
        /\ name \in LongNames => name \in DOMAIN t.offsets
    BY <2>1, <2>2, InternLongKeeps
  <2>5. QED
    BY <2>1, <2>2, <2>3, <2>4
<1>4. /\ head.name = NameField(strtab, SectionName(s)) /\ head.class = "STATIC"
      /\ head.value = 0 /\ head.section = Int16(c)
      /\ head.aux = (IF s.linkOnce THEN 1 ELSE 0)
      /\ rec.class = "AUX"
  BY <1>0 DEF Slot, AuxSlot
<1>5. slots' \in Seq(Slots) /\ slots \in Seq(Slots) /\ Len(slots) \in Nat
  BY HeadersStep DEF IInv, TypeOK
<1>6. /\ Len(slots') = Len(slots) + (IF s.linkOnce THEN 2 ELSE 1)
      /\ \A n \in 1 .. Len(slots) : slots'[n] = slots[n]
      /\ slots'[Len(slots) + 1] = head
      /\ s.linkOnce => slots'[Len(slots) + 2] = rec
  <2>1. CASE s.linkOnce
    <3>1. slots' = slots \o <<head>> \o <<rec>>
      BY <1>1, <2>1
    <3>2. QED
      BY <1>5, <2>1, <3>1
  <2>2. CASE ~s.linkOnce
    <3>1. slots' = slots \o <<head>> \o << >>
      BY <1>1, <2>2
    <3>2. QED
      BY <1>5, <2>2, <3>1
  <2>3. QED
    BY <2>1, <2>2
<1>7. Announced'
  <2>1. CASE s.linkOnce
    BY <1>4, <1>5, <1>6, <2>1, TwoAnnounced
  <2>2. CASE ~s.linkOnce
    BY <1>4, <1>5, <1>6, <2>2, OneAnnounced
  <2>3. QED
    BY <2>1, <2>2
<1>8. /\ Len(slots) + 1 = HeadAt(C, c) /\ \A b \in 1 .. c - 1 : HeadIn(HeadAt(C, b), b)
      /\ HeadAt(C, c + 1) = HeadAt(C, c) + (IF s.linkOnce THEN 2 ELSE 1)
  <2>1. Len(slots) + 1 = HeadAt(C, c) /\ \A b \in 1 .. c - 1 : HeadIn(HeadAt(C, b), b)
    BY <1>0, <1>1 DEF Headed
  <2>2. IsFiniteSet(C) /\ C \subseteq Nat
    BY <1>0, ComdatsFinite
  <2>3. c \in C <=> s.linkOnce
    BY <1>0, <1>2 DEF Comdats
  <2>4. QED
    BY <1>2, <2>1, <2>2, <2>3, HeadAtNext
<1>9. HeadIn(HeadAt(C, c), c)'
  <2>1. PICK n : n = Len(slots) + 1 /\ n = HeadAt(C, c)
    BY <1>8
  <2>2. /\ n \in DOMAIN slots' /\ slots'[n] = head
        /\ s.linkOnce => n + 1 \in DOMAIN slots' /\ slots'[n + 1] = rec
    BY <1>5, <1>6, <2>1
  <2>3. /\ NameReads(slots'[n].name, strtab'.data, SectionName(s))
        /\ work'[c] = s /\ AuxSlot(s)' = rec
    BY <1>0, <1>1, <1>3, <1>4, <2>2 DEF AuxSlot, RawSize
  <2>4. slots'[n].name = NameField(strtab', SectionName(s)) /\ InTable(c)'
    BY <1>0, <1>1, <1>3, <1>4, <2>2 DEF InTable
  <2>5. HeadIn(n, c)'
    BY <1>0, <1>1, <1>4, <2>2, <2>3, <2>4 DEF HeadIn, AuxSlot, RawSize
  <2>6. QED
    BY <1>0, <1>1, <2>1, <2>5
<1>10. \A b \in 1 .. c - 1 : HeadIn(HeadAt(C, b), b)'
  <2>1. \A n : \A b \in DOMAIN work : HeadIn(n, b) => HeadIn(n, b)'
    BY <1>1, <1>3, <1>5, <1>6, SlotsStay
  <2> SUFFICES ASSUME NEW b \in 1 .. c - 1 PROVE HeadIn(HeadAt(C, b), b)'
    OBVIOUS
  <2>2. PICK n : n = HeadAt(C, b)
    OBVIOUS
  <2>3. HeadIn(n, b) /\ b \in DOMAIN work
    BY <1>1, <1>2, <1>8, <2>2, PlaceType
  <2>4. HeadIn(n, b)'
    BY <2>1, <2>3
  <2>5. QED
    BY <1>0, <1>1, <2>2, <2>4
<1>11. \A b \in 1 .. i' - 1 : HeadIn(HeadAt(Comdats(work), b), b)'
  <2> SUFFICES ASSUME NEW b \in 1 .. c PROVE HeadIn(HeadAt(Comdats(work), b), b)'
    BY <1>1, <1>2
  <2>1. HeadIn(HeadAt(C, b), b)'
    BY <1>2, <1>9, <1>10
  <2>2. QED
    BY <1>0, <1>1, <2>1
<1>12. Len(slots') + 1 = HeadAt(Comdats(work), i)'
  <2>1. Len(slots') + 1 = HeadAt(C, c + 1)
    BY <1>5, <1>6, <1>8
  <2>2. Comdats(work') = C
    BY <1>0, <1>1
  <2>3. QED
    BY <1>1, <2>1, <2>2
<1>13. QED
  BY <1>1, <1>7, <1>11, <1>12 DEF Headed, Behind

\* A symbol entered behind the others leaves them alone and is complete.
Enters(name, slot) ==
  /\ slots' = Append(slots, slot) /\ strtab' = InternLong(strtab, name)
  /\ DOMAIN symIdx' = DOMAIN symIdx \cup {name}
  /\ slot.name = NameField(strtab, name) /\ slot.class # "AUX" /\ slot.aux = 0
  /\ slot \in Slots

LEMMA EnterIs ==
  ASSUME IInv, NEW name \in Name, NEW value \in Nat, NEW section \in Int,
         NEW type \in {"NULL", "FUNC"}, NEW class \in {"STATIC", "EXTERNAL"},
         NEW slot, slot = Slot(name, value, section, type, class, 0),
         EnterSymbol(name, value, section, type, class)
  PROVE  /\ Enters(name, slot)
         /\ slot.class = class /\ slot.value = value /\ slot.section = section
<1>1. NameField(strtab, name) \in NameFields
  BY InternLongLemma DEF IInv, TypeOK
<1>2. slot \in Slots
  BY <1>1 DEF Slot, Slots
<1>3. /\ slot.name = NameField(strtab, name) /\ slot.class = class /\ slot.value = value
      /\ slot.section = section /\ slot.aux = 0 /\ slot.class # "AUX"
  BY DEF Slot
<1>4. QED
  BY <1>2, <1>3 DEF EnterSymbol, Put, Enters

LEMMA EnterStays ==
  ASSUME IInv, Announced, Headed, pc \in Behind, pc' \in Behind, work' = work,
         NEW name \in Name, NEW slot, Enters(name, slot)
  PROVE  /\ Announced' /\ Headed'
         /\ Len(slots) \in Nat /\ Len(slots') = Len(slots) + 1
         /\ Len(slots) + 1 \in DOMAIN slots' /\ slots'[Len(slots) + 1] = slot
         /\ NameReads(slot.name, strtab'.data, name)
         /\ \A n : \A p \in Definitions(work) : DefinedIn(n, p) => DefinedIn(n, p)'
         /\ \A n : \A other \in Name : UndefinedIn(n, other) => UndefinedIn(n, other)'
         /\ DOMAIN symIdx' = DOMAIN symIdx \cup {name}
<1>0. PICK C : C = Comdats(work)
  OBVIOUS
<1>1. /\ slots' = Append(slots, slot) /\ strtab' = InternLong(strtab, name)
      /\ DOMAIN symIdx' = DOMAIN symIdx \cup {name}
      /\ slot.name = NameField(strtab, name) /\ slot.class # "AUX" /\ slot.aux = 0
      /\ slot \in Slots
  BY DEF Enters
<1>2. /\ Consistent(strtab) /\ Consistent(strtab') /\ Extends(strtab'.data, strtab.data)
      /\ NameReads(NameField(strtab, name), strtab'.data, name)
  BY <1>1, InternLongLemma DEF IInv, TypeOK
<1>3. Keeps(strtab')
  BY <1>1, <1>2, InternLongKeeps
<1>5. slots \in Seq(Slots) /\ Len(slots) \in Nat
  BY DEF IInv, TypeOK
<1>6. /\ slots' \in Seq(Slots) /\ Len(slots') = Len(slots) + 1
      /\ \A n \in 1 .. Len(slots) : slots'[n] = slots[n]
      /\ slots'[Len(slots) + 1] = slot /\ Len(slots) + 1 \in DOMAIN slots'
      /\ Len(slots) <= Len(slots')
  BY <1>1, <1>5
<1>7. Announced'
  BY <1>1, <1>6, OneAnnounced
<1>8. /\ \A n : \A c \in DOMAIN work : HeadIn(n, c) => HeadIn(n, c)'
      /\ \A n : \A p \in Definitions(work) : DefinedIn(n, p) => DefinedIn(n, p)'
      /\ \A n : \A other \in Name : UndefinedIn(n, other) => UndefinedIn(n, other)'
  BY <1>2, <1>3, <1>6, SlotsStay
<1>9. Headed'
  <2> SUFFICES ASSUME NEW c \in DOMAIN work PROVE HeadIn(HeadAt(Comdats(work), c), c)'
    BY DEF Headed, Behind
  <2>1. PICK n : n = HeadAt(C, c)
    OBVIOUS
  <2>2. HeadIn(n, c)
    BY <1>0, <2>1 DEF Headed
  <2>3. HeadIn(n, c)'
    BY <1>8, <2>2
  <2>4. QED
    BY <1>0, <2>1, <2>3
<1>10. QED
  BY <1>1, <1>2, <1>5, <1>6, <1>7, <1>8, <1>9

\* The places and names of the work list.
LEMMA AnyPlace ==
  ASSUME IInv, NEW p \in Definitions(work)
  PROVE  /\ p = <<p[1], p[2]>> /\ p[1] \in DOMAIN work /\ p[2] \in DOMAIN work[p[1]].symbols
         /\ p[1] \in Nat \ {0} /\ p[2] \in Nat \ {0}
         /\ p[1] <= Len(work) /\ p[2] <= Len(work[p[1]].symbols)
         /\ SymAt(work, p) = work[p[1]].symbols[p[2]] /\ SymAt(work, p) \in Symbol
<1>1. PICK c \in DOMAIN work : p \in {c} \X DOMAIN work[c].symbols
  BY DEF Definitions
<1>2. p = <<p[1], p[2]>> /\ p[1] = c /\ p[2] \in DOMAIN work[c].symbols
  BY <1>1
<1>3. work[c].symbols \in Seq(Symbol)
  BY PlaceType, WorkType DEF IInv
<1>4. work[c].symbols[p[2]] \in Symbol
  BY <1>2, <1>3
<1>5. QED
  BY <1>2, <1>4, PlaceType DEF SymAt

\* sort.Strings puts the undefined names of any file in one order: .drectve
\* refers to none.
LEMMA Ranked ==
  ASSUME IInv, Answers, pc \notin {"idle", "exports"}
  PROVE  \A a, b \in ExternalRefs(work) :
           a \in Name /\ Rank(a) \in Nat /\ (Rank(a) = Rank(b) => a = b)
<1>1. ASSUME NEW name \in ExternalRefs(work)
      PROVE  name \in Name /\ name \in UNION {ReferencedNames(<<s>>) : s \in Sections}
  <2>1. PICK n \in DOMAIN work : \E m \in DOMAIN work[n].relocs :
          name = work[n].relocs[m].symbol
    BY DEF ExternalRefs, ReferencedNames
  <2>2. PICK m \in DOMAIN work[n].relocs : name = work[n].relocs[m].symbol
    BY <2>1
  <2>3. n \in DOMAIN sections /\ work[n] = sections[n]
    BY <2>2, DrectveFields DEF Answers, Listed
  <2>4. name \in Name
    BY <1>1, ReferencedType DEF ExternalRefs, IInv
  <2>5. PICK s \in Sections : s = sections[n]
    BY <2>3 DEF IInv, TypeOK
  <2>6. name \in ReferencedNames(<<s>>)
    <3>1. DOMAIN <<s>> = {1} /\ <<s>>[1] = s
      OBVIOUS
    <3>2. name \in {<<s>>[1].relocs[q].symbol : q \in DOMAIN <<s>>[1].relocs}
      BY <2>2, <2>3, <2>5, <3>1
    <3>3. QED
      BY <3>1, <3>2 DEF ReferencedNames
  <2>7. QED
    BY <2>4, <2>6
<1>2. QED
  BY <1>1, RankAssumption

\* DefineSymbol enters a place that comes behind all those entered before.
LEMMA AtCursor ==
  ASSUME IInv, DefineSymbol, NEW c, c = <<i, k>>
  PROVE  /\ pc = "symbols" /\ pc' = pc /\ UNCHANGED work /\ i <= Len(work)
         /\ c \in Definitions(work) /\ c[1] = i /\ c[2] = k
         /\ c \notin Entered /\ Entered' = Entered \cup {c}
         /\ \A q \in Definitions(work) : q \in Entered <=> Sooner(q, c)
<1>1. /\ pc = "symbols" /\ pc' = pc /\ i' = i /\ k' = k + 1 /\ UNCHANGED work
      /\ i <= Len(work) /\ k <= Len(work[i].symbols)
  BY DEF DefineSymbol
<1>2. i \in DOMAIN work /\ k \in DOMAIN work[i].symbols /\ i \in Nat /\ k \in Nat
  BY <1>1, PlaceType
<1>3. PICK a, b : a = i /\ b = k
  OBVIOUS
<1>4. c = <<a, b>> /\ c[1] = a /\ c[2] = b /\ c \in Definitions(work)
  <2>1. c \in {a} \X DOMAIN work[a].symbols
    BY <1>2, <1>3
  <2>2. QED
    BY <1>2, <1>3, <2>1 DEF Definitions
<1>5. ASSUME NEW q \in Definitions(work)
      PROVE  /\ Seen(q[1], q[2]) <=> Sooner(q, c)
             /\ Seen(q[1], q[2])' <=> Sooner(q, c) \/ q = c
  <2>1. q = <<q[1], q[2]>> /\ q[1] \in Nat /\ q[2] \in Nat /\ a \in Nat /\ b \in Nat
    BY <1>2, <1>3, AnyPlace
  <2>2. /\ Seen(q[1], q[2]) <=> q[1] < a \/ (q[1] = a /\ q[2] < b)
        /\ Seen(q[1], q[2])' <=> q[1] < a \/ (q[1] = a /\ q[2] < b + 1)
    BY <1>1, <1>3 DEF Seen, Passed
  <2>3. q = c <=> q[1] = a /\ q[2] = b
    BY <1>4, <2>1
  <2>4. q[2] < b + 1 <=> q[2] < b \/ q[2] = b
    BY <2>1
  <2>5. Sooner(q, c) <=> q[1] < a \/ (q[1] = a /\ q[2] < b)
    BY <1>4 DEF Sooner
  <2>6. QED
    BY <2>2, <2>3, <2>4, <2>5
<1>6. ~Sooner(c, c)
  BY <1>2, <1>3, <1>4 DEF Sooner
<1>7. Definitions(work)' = Definitions(work)
  BY <1>1
<1>8. Entered' = Entered \cup {c}
  BY <1>4, <1>5, <1>7 DEF Entered
<1>9. c \notin Entered /\ \A q \in Definitions(work) : q \in Entered <=> Sooner(q, c)
  BY <1>4, <1>5, <1>6 DEF Entered
<1>10. QED
  BY <1>1, <1>3, <1>4, <1>8, <1>9

\* One more definition is entered: its slot is the last, for the definitions
\* are entered before any undefined name, and in order.
LEMMA DefineTabled ==
  ASSUME IInv, Announced, Headed, Tabled, DefineSymbol
  PROVE  Announced' /\ Headed' /\ Tabled'
<1>1. PICK c, D, E, f, sym :
        /\ c = <<i, k>> /\ D = Definitions(work) /\ E = Entered /\ f = Ahead
        /\ sym = SymAt(work, c)
  OBVIOUS
<1>2. /\ pc = "symbols" /\ pc' = pc /\ work' = work /\ i <= Len(work)
      /\ c \in D /\ c[1] = i /\ c[2] = k
      /\ c \notin E /\ Entered' = E \cup {c}
      /\ \A q \in D : q \in E <=> Sooner(q, c)
      /\ pc \in Behind /\ pc' \in Behind /\ pc' = "symbols"
  BY <1>1, AtCursor DEF Behind
<1>3. /\ sym = work[i].symbols[k] /\ sym \in Symbol /\ i \in DOMAIN work
      /\ sym.name \in Name /\ sym.offset \in Nat
  <2>1. sym = work[i].symbols[k] /\ sym \in Symbol /\ i \in DOMAIN work
    BY <1>1, <1>2, AnyPlace
  <2>2. QED
    BY <2>1 DEF Symbol
<1>4. PICK name, value, section, type, class :
        /\ name = sym.name /\ value = sym.offset /\ section = Int16(c[1])
        /\ type = Type(sym.kind) /\ class = Class(sym.binding)
  OBVIOUS
<1>5. EnterSymbol(name, value, section, type, class)
  BY <1>2, <1>3, <1>4 DEF DefineSymbol
<1>6. /\ name \in Name /\ value \in Nat /\ section \in Int
      /\ type \in {"NULL", "FUNC"} /\ class \in {"STATIC", "EXTERNAL"}
  <2>1. c[1] \in Nat
    BY <1>2, PlaceType
  <2>2. QED
    BY <1>3, <1>4, <2>1, Int16Type DEF Type, Class
<1>7. /\ Announced' /\ Headed'
      /\ Len(slots) \in Nat /\ Len(slots') = Len(slots) + 1
      /\ Len(slots) + 1 \in DOMAIN slots'
      /\ \E slot : /\ slots'[Len(slots) + 1] = slot
                   /\ slot.class = class /\ slot.value = value /\ slot.section = section
                   /\ slot.aux = 0 /\ NameReads(slot.name, strtab'.data, name)
      /\ \A n : \A p \in Definitions(work) : DefinedIn(n, p) => DefinedIn(n, p)'
      /\ DOMAIN symIdx' = DOMAIN symIdx \cup {name}
  <2>1. PICK slot : slot = Slot(name, value, section, type, class, 0)
    OBVIOUS
  <2>2. /\ Enters(name, slot) /\ slot.class = class /\ slot.value = value
        /\ slot.section = section
    BY <1>5, <1>6, <2>1, EnterIs
  <2>3. slot.aux = 0
    BY <2>2 DEF Enters
  <2>4. /\ IInv /\ Announced /\ Headed /\ pc \in Behind /\ pc' \in Behind /\ work' = work
        /\ name \in Name
    BY <1>2, <1>6
  <2>5. QED
    BY <2>2, <2>3, <2>4, EnterStays
<1>8. /\ IsFiniteSet(E) /\ Externs = {} /\ Cardinality(Externs) = 0
      /\ Len(slots) = f + Cardinality(E) + Cardinality(Externs)
      /\ \A p \in E : DefinedIn(f + Turn(D, p), p)
  <2>1. Externs = {}
    BY <1>2 DEF Tabled
  <2>2. QED
    BY <1>1, <1>2, <2>1, FS_EmptySet DEF Tabled
<1>9. /\ Cardinality(E) \in Nat /\ f \in Nat /\ Len(slots) = f + Cardinality(E)
      /\ E \subseteq D
  <2>1. Cardinality(E) \in Nat
    BY <1>8, FS_CardinalityType
  <2>2. f \in Nat /\ E \subseteq D
    BY <1>1, ComdatsFinite DEF Ahead, Entered
  <2>3. QED
    BY <1>8, <2>1, <2>2
<1>10. /\ IsFiniteSet(E \cup {c}) /\ Cardinality(E \cup {c}) = Cardinality(E) + 1
       /\ Turn(D, c) = Cardinality(E) + 1
  <2>1. IsFiniteSet(E \cup {c}) /\ Cardinality(E \cup {c}) = Cardinality(E) + 1
    BY <1>2, <1>8, FS_AddElement
  <2>2. {q \in D : q = c \/ Sooner(q, c)} = E \cup {c}
    BY <1>2, <1>9
  <2>3. QED
    BY <2>1, <2>2 DEF Turn
<1>11. Externs' = {}
  <2>1. name \in DefinedNames(work)
    <3>1. c[1] \in DOMAIN work /\ c[2] \in DOMAIN work[c[1]].symbols
      BY <1>1, <1>2, AnyPlace
    <3>2. name = work[c[1]].symbols[c[2]].name
      BY <1>2, <1>3, <1>4
    <3>3. QED
      BY <3>1, <3>2 DEF DefinedNames
  <2>2. ExternalRefs(work)' = ExternalRefs(work) /\ name \notin ExternalRefs(work)
    BY <1>2, <2>1 DEF ExternalRefs
  <2>3. QED
    BY <1>7, <1>8, <2>2 DEF Externs
<1>12. ASSUME NEW p \in E \cup {c} PROVE DefinedIn(f + Turn(D, p), p)'
  <2>1. PICK n : n = f + Turn(D, p)
    OBVIOUS
  <2>2. CASE p \in E
    <3>1. DefinedIn(n, p) /\ p \in Definitions(work)
      BY <1>1, <1>8, <1>9, <2>1, <2>2
    <3>2. DefinedIn(n, p)'
      BY <1>7, <3>1
    <3>3. QED
      BY <2>1, <3>2
  <2>3. CASE p = c
    <3>1. n = Len(slots) + 1
      BY <1>9, <1>10, <2>1, <2>3
    <3>2. SymAt(work, p)' = sym
      BY <1>1, <1>2, <2>3 DEF SymAt
    <3>3. /\ n \in DOMAIN slots' /\ slots'[n].class = Class(sym.binding)
          /\ slots'[n].value = sym.offset /\ slots'[n].section = Int16(p[1])
          /\ slots'[n].aux = 0 /\ NameReads(slots'[n].name, strtab'.data, sym.name)
      BY <1>4, <1>7, <2>3, <3>1
    <3>4. DefinedIn(n, p)'
      BY <3>2, <3>3 DEF DefinedIn
    <3>5. QED
      BY <2>1, <3>4
  <2>4. QED
    BY <2>2, <2>3
<1>13. Tabled'
  <2>1. Ahead' = f /\ Definitions(work)' = D
    BY <1>1, <1>2 DEF Ahead
  <2>2. Len(slots') = f + (Cardinality(E) + 1) + 0 /\ Cardinality({}) = 0 /\ IsFiniteSet({})
    BY <1>7, <1>9, FS_EmptySet
  <2>3. \A p \in Entered' : DefinedIn(Ahead + Turn(Definitions(work), p), p)'
    <3> SUFFICES ASSUME NEW p \in E \cup {c}
                 PROVE  DefinedIn(Ahead + Turn(Definitions(work), p), p)'
      BY <1>2
    <3>1. DefinedIn(f + Turn(D, p), p)'
      BY <1>12
    <3>2. QED
      BY <2>1, <3>1
  <2>4. QED
    BY <1>2, <1>10, <1>11, <2>1, <2>2, <2>3 DEF Tabled
<1>14. QED
  BY <1>7, <1>13

\* An undefined name is entered behind all definitions and all undefined names
\* before it in the order of sort.Strings.
LEMMA ExternTabled ==
  ASSUME IInv, Answers, Announced, Headed, Tabled, UndefinedSymbol
  PROVE  Announced' /\ Headed' /\ Tabled'
<1>1. PICK D, E, X, U, f :
        D = Definitions(work) /\ E = Entered /\ X = Externs /\ U = ExternalRefs(work) /\ f = Ahead
  OBVIOUS
<1>2. /\ pc = "symbols" /\ pc' = "symbols" /\ i' = i /\ k' = k /\ work' = work
      /\ i > Len(work) /\ pc \in Behind /\ pc' \in Behind
  BY DEF UndefinedSymbol, Behind
<1>3. Entered' = E /\ E \subseteq D /\ Ahead' = f /\ ExternalRefs(work)' = U
      /\ Definitions(work)' = D
  <2>1. ASSUME NEW a, NEW b PROVE Seen(a, b)' <=> Seen(a, b)
    BY <1>2 DEF Seen, Passed
  <2>2. Definitions(work)' = Definitions(work)
    BY <1>2
  <2>3. Entered' = Entered
    BY <2>1, <2>2 DEF Entered
  <2>4. QED
    BY <1>1, <1>2, <2>2, <2>3 DEF Entered, Ahead
<1>4. PICK name : /\ name \in U \ DOMAIN symIdx
                  /\ \A other \in U \ DOMAIN symIdx : Rank(name) <= Rank(other)
                  /\ EnterSymbol(name, 0, 0, "NULL", "EXTERNAL")
  BY <1>1 DEF UndefinedSymbol, First
<1>5. /\ name \in Name /\ name \notin X /\ X \subseteq U /\ X = U \cap DOMAIN symIdx
      /\ \A a, b \in U : a \in Name /\ Rank(a) \in Nat /\ (Rank(a) = Rank(b) => a = b)
  <2>1. \A a, b \in U : a \in Name /\ Rank(a) \in Nat /\ (Rank(a) = Rank(b) => a = b)
    BY <1>1, <1>2, Ranked
  <2>2. QED
    BY <1>1, <1>4, <2>1 DEF Externs
<1>6. /\ IsFiniteSet(E) /\ IsFiniteSet(X)
      /\ Len(slots) = f + Cardinality(E) + Cardinality(X)
      /\ \A p \in E : DefinedIn(f + Turn(D, p), p)
      /\ \A other \in X : UndefinedIn(f + Cardinality(E) + UndefTurn(U, other), other)
      /\ \A a \in X, b \in U \ DOMAIN symIdx : Rank(a) < Rank(b)
  BY <1>1, <1>2 DEF Tabled
<1>7. Cardinality(E) \in Nat /\ Cardinality(X) \in Nat /\ f \in Nat
  <2>1. Cardinality(E) \in Nat /\ Cardinality(X) \in Nat
    BY <1>6, FS_CardinalityType
  <2>2. f \in Nat
    BY <1>1, ComdatsFinite DEF Ahead
  <2>3. QED
    BY <2>1, <2>2
<1>8. PICK value, section, type, class :
        value = 0 /\ section = 0 /\ type = "NULL" /\ class = "EXTERNAL"
  OBVIOUS
<1>9. /\ Announced' /\ Headed'
      /\ Len(slots) \in Nat /\ Len(slots') = Len(slots) + 1
      /\ Len(slots) + 1 \in DOMAIN slots'
      /\ \E slot : /\ slots'[Len(slots) + 1] = slot
                   /\ slot.class = class /\ slot.value = value /\ slot.section = section
                   /\ slot.aux = 0 /\ NameReads(slot.name, strtab'.data, name)
      /\ \A n : \A p \in Definitions(work) : DefinedIn(n, p) => DefinedIn(n, p)'
      /\ \A n : \A other \in Name : UndefinedIn(n, other) => UndefinedIn(n, other)'
      /\ DOMAIN symIdx' = DOMAIN symIdx \cup {name}
  <2>1. PICK slot : slot = Slot(name, value, section, type, class, 0)
    OBVIOUS
  <2>0. EnterSymbol(name, value, section, type, class)
    BY <1>4, <1>8
  <2>2. /\ Enters(name, slot) /\ slot.class = class /\ slot.value = value
        /\ slot.section = section
    BY <1>5, <1>8, <2>0, <2>1, EnterIs
  <2>3. slot.aux = 0
    BY <2>2 DEF Enters
  <2>4. /\ IInv /\ Announced /\ Headed /\ pc \in Behind /\ pc' \in Behind /\ work' = work
        /\ name \in Name
    BY <1>2, <1>5
  <2>5. QED
    BY <2>2, <2>3, <2>4, EnterStays
<1>10. Externs' = X \cup {name}
  <2>1. Externs' = U \cap (DOMAIN symIdx \cup {name})
    BY <1>3, <1>9 DEF Externs
  <2>2. QED
    BY <1>4, <1>5, <2>1
<1>11. /\ IsFiniteSet(X \cup {name}) /\ Cardinality(X \cup {name}) = Cardinality(X) + 1
       /\ UndefTurn(U, name) = Cardinality(X) + 1
  <2>1. IsFiniteSet(X \cup {name}) /\ Cardinality(X \cup {name}) = Cardinality(X) + 1
    BY <1>5, <1>6, FS_AddElement
  <2>2. ASSUME NEW u \in U PROVE Rank(u) <= Rank(name) <=> u \in X \cup {name}
    <3>1. CASE u \in X
      BY <1>4, <1>5, <1>6, <3>1
    <3>2. CASE u \notin X
      BY <1>4, <1>5, <3>2
    <3>3. QED
      BY <3>1, <3>2
  <2>3. {u \in U : Rank(u) <= Rank(name)} = X \cup {name}
    BY <1>4, <1>5, <2>2
  <2>4. QED
    BY <2>1, <2>3 DEF UndefTurn
<1>12. ASSUME NEW p \in E PROVE DefinedIn(f + Turn(D, p), p)'
  <2>1. PICK n : n = f + Turn(D, p)
    OBVIOUS
  <2>2. DefinedIn(n, p) /\ p \in Definitions(work)
    BY <1>1, <1>3, <1>6, <2>1
  <2>3. DefinedIn(n, p)'
    BY <1>9, <2>2
  <2>4. QED
    BY <2>1, <2>3
<1>13. ASSUME NEW other \in X \cup {name}
       PROVE  UndefinedIn(f + Cardinality(E) + UndefTurn(U, other), other)'
  <2>1. PICK n : n = f + Cardinality(E) + UndefTurn(U, other)
    OBVIOUS
  <2>2. CASE other \in X
    <3>1. UndefinedIn(n, other) /\ other \in Name
      BY <1>5, <1>6, <2>1, <2>2
    <3>2. UndefinedIn(n, other)'
      BY <1>9, <3>1
    <3>3. QED
      BY <2>1, <3>2
  <2>3. CASE other = name
    <3>1. n = Len(slots) + 1
      BY <1>6, <1>7, <1>11, <2>1, <2>3
    <3>2. /\ n \in DOMAIN slots' /\ slots'[n].class = "EXTERNAL" /\ slots'[n].value = 0
          /\ slots'[n].section = 0 /\ slots'[n].aux = 0
          /\ NameReads(slots'[n].name, strtab'.data, name)
      BY <1>8, <1>9, <3>1
    <3>3. UndefinedIn(n, name)'
      BY <3>2 DEF UndefinedIn
    <3>4. QED
      BY <2>1, <2>3, <3>3
  <2>4. QED
    BY <2>2, <2>3
<1>14. Tabled'
  <2>1. Len(slots') = f + Cardinality(E) + (Cardinality(X) + 1)
    BY <1>6, <1>7, <1>9
  <2>2. \A p \in Entered' : DefinedIn(Ahead + Turn(Definitions(work), p), p)'
    <3> SUFFICES ASSUME NEW p \in E PROVE DefinedIn(Ahead + Turn(Definitions(work), p), p)'
      BY <1>3
    <3>1. DefinedIn(f + Turn(D, p), p)'
      BY <1>12
    <3>2. QED
      BY <1>1, <1>3, <3>1
  <2>3. \A other \in Externs' :
          UndefinedIn(Ahead + Cardinality(Entered) + UndefTurn(ExternalRefs(work), other), other)'
    <3> SUFFICES ASSUME NEW other \in X \cup {name}
                 PROVE  UndefinedIn(Ahead + Cardinality(Entered)
                                      + UndefTurn(ExternalRefs(work), other), other)'
      BY <1>10
    <3>1. UndefinedIn(f + Cardinality(E) + UndefTurn(U, other), other)'
      BY <1>13
    <3>2. QED
      BY <1>1, <1>3, <3>1
  <2>4. \A a \in X \cup {name}, b \in U \ DOMAIN symIdx' : Rank(a) < Rank(b)
    <3> SUFFICES ASSUME NEW a \in X \cup {name}, NEW b \in U \ DOMAIN symIdx'
                 PROVE  Rank(a) < Rank(b)
      OBVIOUS
    <3>1. b \in U \ DOMAIN symIdx /\ b # name
      BY <1>9
    <3>2. CASE a \in X
      BY <1>6, <3>1, <3>2
    <3>3. CASE a = name
      BY <1>4, <1>5, <3>1, <3>3
    <3>4. QED
      BY <3>2, <3>3
  <2>5. ~(i' <= Len(work'))
    BY <1>2, PlaceType
  <2>6. QED
    BY <1>3, <1>6, <1>10, <1>11, <2>1, <2>2, <2>3, <2>4, <2>5 DEF Tabled
<1>15. QED
  BY <1>9, <1>14

\* The later steps leave the table alone.
LEMMA KeepTabled ==
  ASSUME Announced, Headed, Tabled, pc \in Behind, pc' # "headers",
         pc' = "symbols" => pc = "symbols" /\ Externs = {},
         Entered' = Entered, UNCHANGED <<work, names, slots>>
  PROVE  Announced' /\ Headed' /\ Tabled'
<1>1. /\ work' = work /\ strtab' = strtab /\ symIdx' = symIdx /\ slots' = slots
      /\ Externs' = Externs /\ Ahead' = Ahead /\ Definitions(work)' = Definitions(work)
      /\ ExternalRefs(work)' = ExternalRefs(work) /\ Comdats(work)' = Comdats(work)
  BY DEF names, Externs, Ahead
<1>2. \A n, c : HeadIn(n, c) => HeadIn(n, c)'
  BY <1>1 DEF HeadIn, InTable, AuxSlot, RawSize
<1>3. \A n, p : DefinedIn(n, p) => DefinedIn(n, p)'
  BY <1>1 DEF DefinedIn, SymAt
<1>4. \A n, name : UndefinedIn(n, name) => UndefinedIn(n, name)'
  BY <1>1 DEF UndefinedIn
<1>5. Announced'
  BY <1>1 DEF Announced
<1>6. Headed'
  <2> SUFFICES ASSUME NEW c \in DOMAIN work
               PROVE  HeadIn(HeadAt(Comdats(work), c), c)'
    BY <1>1 DEF Headed
  <2>1. PICK n : n = HeadAt(Comdats(work), c)
    OBVIOUS
  <2>2. HeadIn(n, c)
    BY <2>1 DEF Headed
  <2>3. HeadIn(n, c)'
    BY <1>2, <2>2
  <2>4. QED
    BY <1>1, <2>1, <2>3
<1>7. \A p \in Entered' : DefinedIn(Ahead + Turn(Definitions(work), p), p)'
  <2> SUFFICES ASSUME NEW p \in Entered
               PROVE  DefinedIn(Ahead + Turn(Definitions(work), p), p)'
    OBVIOUS
  <2>1. PICK n : n = Ahead + Turn(Definitions(work), p)
    OBVIOUS
  <2>2. DefinedIn(n, p)
    BY <2>1 DEF Tabled
  <2>3. DefinedIn(n, p)'
    BY <1>3, <2>2
  <2>4. QED
    BY <1>1, <2>1, <2>3
<1>8. \A name \in Externs' :
        UndefinedIn(Ahead + Cardinality(Entered) + UndefTurn(ExternalRefs(work), name), name)'
  <2> SUFFICES ASSUME NEW name \in Externs
               PROVE  UndefinedIn(Ahead + Cardinality(Entered)
                                    + UndefTurn(ExternalRefs(work), name), name)'
    BY <1>1
  <2>1. PICK n : n = Ahead + Cardinality(Entered) + UndefTurn(ExternalRefs(work), name)
    OBVIOUS
  <2>2. UndefinedIn(n, name)
    BY <2>1 DEF Tabled
  <2>3. UndefinedIn(n, name)'
    BY <1>4, <2>2
  <2>4. QED
    BY <1>1, <2>1, <2>3
<1>9. QED
  BY <1>1, <1>5, <1>6, <1>7, <1>8 DEF Tabled

\* When the sections have their symbols, the definitions start behind them.
LEMMA StartTabled ==
  ASSUME IInv, Announced, Headed, SectionSymbolsDone PROVE Announced' /\ Headed' /\ Tabled'
<1>1. /\ pc = "headers" /\ pc' = "symbols" /\ i > Len(work) /\ i' = 1 /\ k' = 1
      /\ work' = work /\ strtab' = strtab /\ symIdx' = symIdx /\ slots' = slots
  BY DEF SectionSymbolsDone, Goto, names
<1>2. i = Len(work) + 1 /\ symIdx = EmptyMap
  BY <1>1, PlaceType DEF IInv, Shape, Before
<1>3. PICK C : C = Comdats(work) /\ Comdats(work)' = C
  BY <1>1
<1>4. /\ Len(slots) + 1 = HeadAt(C, i) /\ \A c \in 1 .. i - 1 : HeadIn(HeadAt(C, c), c)
      /\ HeadAt(C, i) = Ahead + 1 /\ Ahead \in Nat /\ Len(slots) \in Nat
  <2>1. HeadAt(C, i) = Ahead + 1 /\ Ahead \in Nat
    BY <1>2, <1>3, ComdatsFinite DEF Ahead
  <2>2. Len(slots) \in Nat
    BY DEF IInv, TypeOK
  <2>3. QED
    BY <1>1, <1>3, <2>1, <2>2 DEF Headed
<1>5. Announced'
  BY <1>1 DEF Announced
<1>6. Headed'
  <2> SUFFICES ASSUME NEW c \in DOMAIN work PROVE HeadIn(HeadAt(Comdats(work), c), c)'
    BY <1>1 DEF Headed
  <2>1. PICK n : n = HeadAt(C, c)
    OBVIOUS
  <2>2. c \in 1 .. i - 1
    BY <1>2, PlaceType
  <2>3. HeadIn(n, c)
    BY <1>4, <2>1, <2>2
  <2>4. HeadIn(n, c)'
    BY <1>1, <2>3 DEF HeadIn, InTable, AuxSlot, RawSize
  <2>5. QED
    BY <1>3, <2>1, <2>4
<1>7. Entered' = {}
  <2> SUFFICES ASSUME NEW p \in Definitions(work) PROVE ~Seen(p[1], p[2])'
    BY <1>1 DEF Entered
  <2>1. p[1] \in Nat \ {0} /\ p[2] \in Nat \ {0}
    BY AnyPlace
  <2>2. QED
    BY <1>1, <2>1 DEF Seen, Passed
<1>8. Externs' = {}
  BY <1>1, <1>2, EmptyTables DEF Externs
<1>9. IsFiniteSet({}) /\ Cardinality({}) = 0
  BY FS_EmptySet
<1>10. Len(slots') = Ahead' + 0 + 0
  <2>1. Ahead' = Ahead
    BY <1>1 DEF Ahead
  <2>2. QED
    BY <1>1, <1>4, <2>1
<1>11. Tabled'
  BY <1>7, <1>8, <1>9, <1>10 DEF Tabled
<1>12. QED
  BY <1>5, <1>6, <1>11

\* Without slots there is nothing to show.
LEMMA QuietTabled ==
  ASSUME slots = << >>, pc \notin Behind \cup {"headers"} PROVE Announced /\ Headed /\ Tabled
BY DEF Announced, Headed, Tabled

LEMMA InitTabled == Init => Announced /\ Headed /\ Tabled
BY QuietTabled DEF Init, Behind

LEMMA QuietStep ==
  ASSUME IInv,
         \/ Caller \/ TooManySections \/ UnnamedSection \/ RelocFails \/ TooManyRelocs
         \/ Deliver \/ ScanSymbol \/ ScanNextSection \/ ScanDone \/ Accept
         \/ InternName \/ InternNextSection \/ InternExtern
  PROVE  Announced' /\ Headed' /\ Tabled'
<1>1. pc' \notin Behind \cup {"headers"} /\ slots' = << >>
  <2>1. CASE Caller
    <3>1. pc = "idle" /\ slots' = slots /\ pc' \in {"idle", "exports"}
      BY <2>1 DEF Caller, AddSection, SetSubsystem, WriteTo
    <3>2. QED
      BY <3>1 DEF Behind, IInv, Shape, Before
  <2>2. CASE TooManySections \/ UnnamedSection \/ RelocFails \/ TooManyRelocs \/ Deliver
    BY <2>2 DEF TooManySections, UnnamedSection, RelocFails, TooManyRelocs, Deliver, Fail,
       Return, Behind
  <2>3. CASE \/ ScanSymbol \/ ScanNextSection \/ ScanDone \/ Accept
             \/ InternName \/ InternNextSection \/ InternExtern
    <3>1. /\ pc \in {"exports", "check", "names"} /\ pc' \in {"exports", "check", "names"}
          /\ slots' = slots
      BY <2>3 DEF ScanSymbol, ScanNextSection, ScanDone, Accept, InternName,
         InternNextSection, InternExtern, Goto, NextSection
    <3>2. QED
      BY <3>1 DEF Behind, IInv, Shape, Before
  <2>4. QED
    BY <2>1, <2>2, <2>3
<1>2. QED
  <2>1. Announced'
    BY <1>1 DEF Announced
  <2>2. Headed' /\ Tabled'
    BY <1>1 DEF Headed, Tabled
  <2>3. QED
    BY <2>1, <2>2

LEMMA NamesDoneTabled == ASSUME IInv, NamesDone PROVE Announced' /\ Headed' /\ Tabled'
<1>1. pc = "names" /\ pc' = "headers" /\ i' = 1 /\ work' = work /\ slots' = slots
  BY DEF NamesDone, Goto
<1>2. slots = << >>
  BY <1>1 DEF IInv, Shape, Before
<1>3. Announced' /\ Tabled'
  BY <1>1, <1>2 DEF Announced, Tabled, Behind
<1>4. Len(slots') + 1 = HeadAt(Comdats(work), i)'
  <2>1. PICK C : C = Comdats(work) /\ Comdats(work)' = C
    BY <1>1
  <2>2. HeadAt(C, 1) = 1
    BY <2>1, ComdatsFinite
  <2>3. QED
    BY <1>1, <1>2, <2>1, <2>2
<1>5. QED
  BY <1>1, <1>3, <1>4 DEF Headed, Behind

LEMMA TabledStep ==
  IInv /\ Answers /\ Announced /\ Headed /\ Tabled /\ [Next]_vars
    => Announced' /\ Headed' /\ Tabled'
<1> SUFFICES ASSUME IInv, Answers, Announced, Headed, Tabled, [Next]_vars
             PROVE  Announced' /\ Headed' /\ Tabled'
  OBVIOUS
<1> DEFINE Rest == {"relocs", "layout", "write"}
<1>1. CASE SectionSymbol
  <2>1. pc' = "headers"
    BY <1>1 DEF SectionSymbol
  <2>2. QED
    BY <1>1, <2>1, SectionSymbolHeaded DEF Tabled, Behind
<1>2. CASE SectionSymbolsDone
  BY <1>2, StartTabled
<1>3. CASE DefineSymbol
  BY <1>3, DefineTabled
<1>4. CASE UndefinedSymbol
  BY <1>4, ExternTabled
<1>5. CASE DefineNextSection
  <2>1. /\ pc = "symbols" /\ pc' = "symbols" /\ i' = i + 1 /\ k' = 1 /\ i <= Len(work)
        /\ k > Len(work[i].symbols) /\ UNCHANGED <<work, names, slots>>
    BY <1>5 DEF DefineNextSection, NextSection, names
  <2>2. ASSUME NEW p \in Definitions(work) PROVE Seen(p[1], p[2])' <=> Seen(p[1], p[2])
    <3>1. PICK a, b : a = p[1] /\ b = p[2]
      OBVIOUS
    <3>2. /\ a \in DOMAIN work /\ b \in Nat \ {0} /\ b <= Len(work[a].symbols)
          /\ a \in Nat \ {0} /\ Len(work[a].symbols) \in Nat
      BY <3>1, AnyPlace, PlaceType
    <3>3. Passed(a, b)' <=> Passed(a, b)
      BY <2>1, <3>2, PlaceType DEF Passed
    <3>4. QED
      BY <2>1, <3>1, <3>3 DEF Seen
  <2>3. Entered' = Entered
    BY <2>1, <2>2 DEF Entered
  <2>4. Externs = {}
    BY <2>1 DEF Tabled, Behind
  <2>5. pc \in Behind
    BY <2>1 DEF Behind
  <2>6. QED
    BY <2>1, <2>3, <2>4, <2>5, KeepTabled
<1>6. CASE SymbolsDone
  <2>1. /\ pc = "symbols" /\ pc' = "relocs" /\ i > Len(work) /\ UNCHANGED <<work, names, slots>>
    BY <1>6 DEF SymbolsDone, Goto, names
  <2>2. \A p \in Definitions(work) : Seen(p[1], p[2]) /\ Seen(p[1], p[2])'
    <3>1. ASSUME NEW p \in Definitions(work) PROVE p[1] < i
      BY <2>1, AnyPlace, PlaceType
    <3>2. QED
      BY <2>1, <3>1 DEF Seen, Passed
  <2>3. Entered' = Entered
    BY <2>1, <2>2 DEF Entered
  <2>4. pc \in Behind
    BY <2>1 DEF Behind
  <2>5. QED
    BY <2>1, <2>3, <2>4, KeepTabled
<1>7. CASE ConvertSection \/ RelocsDone \/ SkipSection \/ PlaceSection \/ LayoutDone \/ WriteSection
  <2>1. pc \in Rest /\ pc' \in Rest /\ UNCHANGED <<work, names, slots>>
    BY <1>7 DEF ConvertSection, RelocsDone, SkipSection, PlaceSection, LayoutDone,
       WriteSection, Goto, names
  <2>2. Entered' = Entered
    BY <2>1 DEF Entered, Seen
  <2>3. pc \in Behind /\ pc' # "headers" /\ pc' # "symbols"
    BY <2>1 DEF Behind
  <2>4. QED
    BY <2>1, <2>2, <2>3, KeepTabled
<1>8. CASE NamesDone
  BY <1>8, NamesDoneTabled
<1>9. CASE \/ Caller \/ TooManySections \/ UnnamedSection \/ RelocFails \/ TooManyRelocs
           \/ Deliver \/ ScanSymbol \/ ScanNextSection \/ ScanDone \/ Accept
           \/ InternName \/ InternNextSection \/ InternExtern
  BY <1>9, QuietStep
<1>10. CASE UNCHANGED vars
  <2>1. /\ pc' = pc /\ i' = i /\ k' = k /\ work' = work /\ slots' = slots
        /\ strtab' = strtab /\ symIdx' = symIdx
    BY <1>10 DEF vars, names
  <2>2. Announced' /\ Headed'
    <3>1. Announced'
      BY <2>1 DEF Announced
    <3>2. \A n, c : HeadIn(n, c) => HeadIn(n, c)'
      BY <2>1 DEF HeadIn, InTable, AuxSlot, RawSize
    <3>3. Headed'
      BY <2>1, <3>2 DEF Headed
    <3>4. QED
      BY <3>1, <3>3
  <2>3. Tabled'
    <3>1. /\ Entered' = Entered /\ Externs' = Externs /\ Ahead' = Ahead
          /\ Definitions(work)' = Definitions(work) /\ ExternalRefs(work)' = ExternalRefs(work)
      BY <2>1 DEF Entered, Externs, Ahead, Seen, Passed
    <3>2. \A n, p : DefinedIn(n, p) => DefinedIn(n, p)'
      BY <2>1 DEF DefinedIn, SymAt
    <3>3. \A n, name : UndefinedIn(n, name) => UndefinedIn(n, name)'
      BY <2>1 DEF UndefinedIn
    <3>4. QED
      BY <2>1, <3>1, <3>2, <3>3 DEF Tabled
  <2>4. QED
    BY <2>2, <2>3
<1>11. QED
  BY <1>1, <1>2, <1>3, <1>4, <1>5, <1>6, <1>7, <1>8, <1>9, <1>10 DEF Next, Build

\* The names and places of the work list are those of the File: .drectve has
\* neither symbols nor relocations.
LEMMA SameLists ==
  ASSUME IInv, Answers, pc \in Behind
  PROVE  /\ Comdats(work) = Comdats(sections) /\ Definitions(work) = Definitions(sections)
         /\ ExternalRefs(work) = ExternalRefs(sections)
         /\ \A p \in Definitions(sections) : SymAt(work, p) = SymAt(sections, p)
<1>1. /\ \A n \in DOMAIN sections : n \in DOMAIN work /\ work[n] = sections[n]
      /\ \A n \in DOMAIN work \ DOMAIN sections :
           /\ work[n].linkOnce = FALSE /\ work[n].symbols = << >> /\ work[n].relocs = << >>
  BY DrectveFields DEF Answers, Listed, Behind
<1>2. DOMAIN << >> = {}
  OBVIOUS
<1>3. Comdats(work) = Comdats(sections)
  BY <1>1 DEF Comdats
<1>4. Definitions(work) = Definitions(sections)
  <2>1. ASSUME NEW p \in Definitions(work) PROVE p \in Definitions(sections)
    <3>1. PICK n \in DOMAIN work : p \in {n} \X DOMAIN work[n].symbols
      BY DEF Definitions
    <3>2. p[2] \in DOMAIN work[n].symbols
      BY <3>1
    <3>3. n \in DOMAIN sections /\ work[n] = sections[n]
      BY <1>1, <1>2, <3>2
    <3>4. p \in {n} \X DOMAIN sections[n].symbols
      BY <3>1, <3>3
    <3>5. QED
      BY <3>3, <3>4 DEF Definitions
  <2>2. ASSUME NEW p \in Definitions(sections) PROVE p \in Definitions(work)
    <3>1. PICK n \in DOMAIN sections : p \in {n} \X DOMAIN sections[n].symbols
      BY DEF Definitions
    <3>2. n \in DOMAIN work /\ p \in {n} \X DOMAIN work[n].symbols
      BY <1>1, <3>1
    <3>3. QED
      BY <3>2 DEF Definitions
  <2>3. QED
    BY <2>1, <2>2
<1>5. ReferencedNames(work) = ReferencedNames(sections)
  <2>1. ASSUME NEW name \in ReferencedNames(work) PROVE name \in ReferencedNames(sections)
    <3>1. PICK n \in DOMAIN work : name \in {work[n].relocs[m].symbol : m \in DOMAIN work[n].relocs}
      BY DEF ReferencedNames
    <3>2. PICK m \in DOMAIN work[n].relocs : name = work[n].relocs[m].symbol
      BY <3>1
    <3>3. n \in DOMAIN sections /\ work[n] = sections[n]
      BY <1>1, <1>2, <3>2
    <3>4. QED
      BY <3>2, <3>3 DEF ReferencedNames
  <2>2. ASSUME NEW name \in ReferencedNames(sections) PROVE name \in ReferencedNames(work)
    BY <1>1 DEF ReferencedNames
  <2>3. QED
    BY <2>1, <2>2
<1>6. DefinedNames(work) = DefinedNames(sections)
  <2>1. ASSUME NEW name \in DefinedNames(work) PROVE name \in DefinedNames(sections)
    <3>1. PICK n \in DOMAIN work : name \in {work[n].symbols[m].name : m \in DOMAIN work[n].symbols}
      BY DEF DefinedNames
    <3>2. PICK m \in DOMAIN work[n].symbols : name = work[n].symbols[m].name
      BY <3>1
    <3>3. n \in DOMAIN sections /\ work[n] = sections[n]
      BY <1>1, <1>2, <3>2
    <3>4. QED
      BY <3>2, <3>3 DEF DefinedNames
  <2>2. ASSUME NEW name \in DefinedNames(sections) PROVE name \in DefinedNames(work)
    BY <1>1 DEF DefinedNames
  <2>3. QED
    BY <2>1, <2>2
<1>7. \A p \in Definitions(sections) : SymAt(work, p) = SymAt(sections, p)
  <2> SUFFICES ASSUME NEW p \in Definitions(sections) PROVE SymAt(work, p) = SymAt(sections, p)
    OBVIOUS
  <2>1. PICK n \in DOMAIN sections : p \in {n} \X DOMAIN sections[n].symbols
    BY DEF Definitions
  <2>2. p[1] = n
    BY <2>1
  <2>3. QED
    BY <1>1, <2>1, <2>2 DEF SymAt
<1>8. QED
  BY <1>3, <1>4, <1>5, <1>6, <1>7 DEF ExternalRefs

\* When the image is handed over every definition and every undefined name has
\* its slot, and the linker reads in the image what is in the slots.
LEMMA DeliverWalks ==
  ASSUME IInv, Answers, Laid, Filled, Announced, Headed, Tabled, Deliver, Short
  PROVE  TableWalks'
<1>1. /\ img' = Image /\ added' = sections /\ Built' /\ pc = "write"
      /\ Len(work) = Expected' /\ Len(work) < Word16
      /\ \A c \in DOMAIN sections : work[c] = sections[c]
      /\ Strings' = strtab.data /\ Symtab' = slots /\ sections' = sections
  BY ImageFields, PiecesFound DEF Deliver, Return, file
<1>2. pc \in Behind
  BY <1>1 DEF Behind
<1>3. PICK C, D, U, f, d :
        /\ C = Comdats(work) /\ D = Definitions(work) /\ U = ExternalRefs(work)
        /\ f = Len(work) + Cardinality(C) /\ d = f + Cardinality(D)
  OBVIOUS
<1>4. /\ Comdats(added)' = C /\ Definitions(added)' = D /\ ExternalRefs(added)' = U
      /\ Expected' + Cardinality(C) = f /\ Ahead = f
  BY <1>1, <1>2, <1>3, SameLists DEF Ahead
<1>5. Entered = D /\ Externs = U
  <2>1. Entered = D
    BY <1>1, <1>3 DEF Entered, Seen
  <2>2. U \subseteq DOMAIN symIdx
    BY <1>1, <1>3 DEF Answers, NamesIn, ExternalRefs
  <2>3. QED
    BY <1>3, <2>1, <2>2 DEF Externs
<1>6. /\ Len(slots) = d + Cardinality(U)
      /\ \A p \in D : DefinedIn(f + Turn(D, p), p)
      /\ \A name \in U : UndefinedIn(d + UndefTurn(U, name), name)
      /\ \A c \in DOMAIN work : HeadIn(HeadAt(C, c), c)
  BY <1>2, <1>3, <1>4, <1>5 DEF Tabled, Headed
<1>7. img'.nsyms = Len(slots)
  BY <1>1 DEF Image
<1>8. \A n \in DOMAIN Symtab' : Symtab'[n].class = "AUX" <=> IsRecord(n)'
  BY <1>1 DEF Announced, IsRecord
<1>9. \A n, c : c \in Nat /\ c < Word16 /\ slots[n].section = Int16(c) => InSection(slots[n], c)
  BY SectionNumber DEF InSection
<1>10. ASSUME NEW c \in 1 .. Expected' PROVE HeadsSection(HeadAt(C, c), c)'
  <2>1. PICK n : n = HeadAt(C, c)
    OBVIOUS
  <2>2. c \in DOMAIN work /\ c \in Nat /\ c < Word16
    BY <1>1, PlaceType, WidthAssumption
  <2>3. HeadIn(n, c)
    BY <1>6, <2>1, <2>2
  <2>4. InSection(slots[n], c)
    BY <1>9, <2>2, <2>3 DEF HeadIn
  <2>5. c \in C <=> work[c].linkOnce = TRUE
    <3>1. work[c].linkOnce \in BOOLEAN
      BY <2>2, PlaceType, WorkType, SectionFields DEF IInv
    <3>2. QED
      BY <1>3, <2>2, <3>1 DEF Comdats
  <2>6. slots[n].aux = 1 <=> c \in C
    BY <2>3, <2>5 DEF HeadIn
  <2>7. ASSUME c \in C
        PROVE  slots[n + 1].size = IF NoBits(sections[c]) THEN 0 ELSE sections[c].size
    <3>1. slots[n + 1] = AuxSlot(work[c])
      BY <2>3, <2>5, <2>7 DEF HeadIn
    <3>2. c \in DOMAIN sections
      BY <1>2, <1>3, <2>7, SameLists DEF Comdats
    <3>3. slots[n + 1].size = RawSize(sections[c])
      BY <1>1, <3>1, <3>2 DEF AuxSlot
    <3>4. CASE NoBits(sections[c])
      BY <3>3, <3>4 DEF RawSize
    <3>5. CASE ~NoBits(sections[c])
      <4>1. PICK sh : sh = Header(c)
        OBVIOUS
      <4>2. work[c].size \in Nat /\ work[c].size < 2 * Half32
        BY <1>1, <2>2, <3>2, <3>5, <4>1, HeaderFits, PlaceFields
      <4>3. Uint32(work[c].size) = work[c].size
        BY <4>2, Uint32Fits
      <4>4. QED
        BY <1>1, <3>2, <3>3, <3>5, <4>3 DEF RawSize
    <3>6. QED
      BY <3>4, <3>5
  <2>8. c \in DOMAIN sections => NameReads(slots[n].name, strtab.data, SectionName(sections[c]))
    BY <1>1, <2>3 DEF HeadIn
  <2>9. slots[n].class = "STATIC" /\ slots[n].value = 0
    BY <2>3 DEF HeadIn
  <2>10. HeadsSection(n, c)'
    <3>1. Comdats(added') = C /\ added' = sections /\ Symtab' = slots /\ Strings' = strtab.data
      BY <1>1, <1>4
    <3>2. QED
      BY <2>4, <2>6, <2>7, <2>8, <2>9, <3>1 DEF HeadsSection, InSection
  <2>11. QED
    BY <2>1, <2>10
<1>11. ASSUME NEW p \in D PROVE DefinesAt(f + Turn(D, p), p)'
  <2>1. PICK n, a : n = f + Turn(D, p) /\ a = p[1]
    OBVIOUS
  <2>2. DefinedIn(n, p)
    BY <1>6, <2>1
  <2>3. a \in Nat /\ a < Word16
    <3>1. a \in Nat /\ a <= Len(work)
      BY <1>3, <2>1, AnyPlace
    <3>2. QED
      BY <1>1, <3>1, PlaceType, WidthAssumption
  <2>4. InSection(slots[n], a)
    BY <1>9, <2>1, <2>2, <2>3 DEF DefinedIn
  <2>5. SymAt(work, p) = SymAt(sections, p)
    BY <1>2, <1>3, SameLists
  <2>6. SymAt(added, p)' = SymAt(work, p)
    BY <1>1, <2>5 DEF SymAt
  <2>7. DefinesAt(n, p)'
    BY <1>1, <2>1, <2>2, <2>4, <2>6 DEF DefinesAt, DefinedIn, InSection
  <2>8. QED
    BY <2>1, <2>7
<1>12. ASSUME NEW name \in U PROVE LeavesUndefined(d + UndefTurn(U, name), name)'
  <2>1. PICK n : n = d + UndefTurn(U, name)
    OBVIOUS
  <2>2. UndefinedIn(n, name)
    BY <1>6, <2>1
  <2>3. LeavesUndefined(n, name)'
    BY <1>1, <2>2 DEF LeavesUndefined, UndefinedIn
  <2>4. QED
    BY <2>1, <2>3
<1>13. QED
  <2>1. Len(Symtab') = img'.nsyms /\ Len(Symtab') = d + Cardinality(U)
    BY <1>1, <1>6, <1>7
  <2>2. \A c \in 1 .. Expected' : HeadsSection(HeadAt(Comdats(added), c), c)'
    BY <1>4, <1>10
  <2>3. \A p \in D : DefinesAt(Expected + Cardinality(Comdats(added)) + Turn(Definitions(added), p), p)'
    BY <1>4, <1>11
  <2>4. \A name \in U :
          LeavesUndefined(Expected + Cardinality(Comdats(added)) + Cardinality(Definitions(added))
                            + UndefTurn(ExternalRefs(added), name), name)'
    BY <1>3, <1>4, <1>12
  <2>5. QED
    BY <1>3, <1>4, <1>8, <2>1, <2>2, <2>3, <2>4 DEF TableWalks

\* In every image whose sections end before 2^32 a linker that walks the slots,
\* stepping over the records the symbols announce, sees the symbol of each
\* section, each definition once and then the undefined names, in order and
\* under their full names, and finds the record of a COMDAT section behind its
\* symbol and no record anywhere else: build numbers slots, not symbols, and
\* never enters one twice.
THEOREM TheTableIsWalked == Spec => []TableWalks
<1>1. Init => TableWalks
  BY InitReader DEF TableWalks
<1>2. IInv /\ Answers /\ Laid /\ Filled /\ Announced /\ Headed /\ Tabled /\ TableWalks
        /\ [Next]_vars => TableWalks'
  <2> SUFFICES ASSUME IInv, Answers, Laid, Filled, Announced, Headed, Tabled, TableWalks,
                      [Next]_vars
               PROVE  TableWalks'
    OBVIOUS
  <2>1. CASE Deliver /\ Short
    BY <2>1, DeliverWalks
  <2>2. CASE ~(Built /\ FewBytes)'
    BY <2>2 DEF TableWalks
  <2>3. CASE UNCHANGED last
    <3>1. /\ Built' = Built /\ FewBytes' = FewBytes /\ img' = img /\ added' = added
          /\ Strings' = Strings /\ Symtab' = Symtab /\ Expected' = Expected
      BY <2>3, SameImage
    <3>2. \A n : IsRecord(n)' <=> IsRecord(n)
      BY <3>1 DEF IsRecord
    <3>3. \A n, c : HeadsSection(n, c)' <=> HeadsSection(n, c)
      BY <3>1 DEF HeadsSection, InSection, RawSize
    <3>4. \A n, p : DefinesAt(n, p)' <=> DefinesAt(n, p)
      BY <3>1 DEF DefinesAt, InSection, SymAt
    <3>5. \A n, name : LeavesUndefined(n, name)' <=> LeavesUndefined(n, name)
      BY <3>1 DEF LeavesUndefined
    <3>6. QED
      BY <3>1, <3>2, <3>3, <3>4, <3>5 DEF TableWalks
  <2>4. QED
    BY <2>1, <2>2, <2>3, OtherSteps
<1>3. QED
  BY Inductive, InitAnswers, AnswersStep, InitReader, LaidStep, InitTabled, TabledStep,
     <1>1, <1>2, PTL DEF Spec

-----------------------------------------------------------------------------
(***************************************************************************)
(* The headers.  A name's offset is in the name of the section's symbol in *)
(* full, so what a header's eight bytes can say of it is measured there.   *)
(***************************************************************************)
LEMMA HeaderNameReads ==
  ASSUME Consistent(strtab), NEW name \in Name,
         name \in LongNames => name \in DOMAIN strtab.offsets,
         NEW g, g = NameField(strtab, name), g.at < Slash,
         NEW f, f = HeaderName(strtab, name)
  PROVE  NameReads(f, strtab.data, name)
<1>1. g \in NameFields /\ NameReads(g, strtab.data, name)
  <2>1. InternLong(strtab, name) = strtab
    BY DEF InternLong, Intern
  <2>2. QED
    BY <2>1, InternLongLemma
<1>2. PICK at : at = g.at /\ at \in Nat /\ at < Slash
  BY <1>1 DEF NameFields
<1>3. PICK fits : fits = {d \in {1, 10, 100, 1000} : at \div d < Slash}
  OBVIOUS
<1>4. Min(fits) = 1
  <2>1. fits \subseteq Int /\ 1 \in fits /\ \A d \in fits : 1 <= d
    BY <1>2, <1>3
  <2>2. QED
    BY <2>1, LeastIs
<1>5. at \div Min(fits) = at
  BY <1>2, <1>4
<1>6. g = [inline |-> g.inline, at |-> at]
  BY <1>1, <1>2 DEF NameFields
<1>7. f = [g EXCEPT !.at = at \div Min(fits)]
  BY <1>2, <1>3, <1>6 DEF HeaderName
<1>8. f = g
  BY <1>5, <1>6, <1>7
<1>9. QED
  BY <1>1, <1>8

LEMMA DeliverLaid ==
  ASSUME IInv, Answers, Laid, Filled, Headed, Deliver, Short
  PROVE  LayoutHonest'
<1>1. /\ img' = Image /\ added' = sections /\ Built' /\ pc = "write" /\ i > Len(work)
      /\ Len(work) = Expected' /\ Len(img'.shdrs) = Len(work) /\ Len(work) < Word16
      /\ DOMAIN sections \subseteq DOMAIN work
      /\ \A c \in DOMAIN sections : work[c] = sections[c]
      /\ \A c \in DOMAIN work : img'.shdrs[c] = Header(c)
      /\ Strings' = strtab.data /\ img'.symtab = pos
  BY ImageFields
<1>2. /\ img'.chunks = Tables.chunks /\ img'.nsyms = Len(slots)
      /\ img'.count = Uint16(Len(work)) /\ Symtab' = slots
  BY <1>1, PiecesFound DEF Image
<1>3. /\ \E to : Chained(Tables.chunks, HeadersEnd, to)
      /\ HasChunk(Tables.chunks, pos, 18 * Len(slots), slots)
      /\ HasChunk(Tables.chunks, pos + 18 * Len(slots), 4 + Len(strtab.data), strtab.data)
      /\ \A a, s, b : HasChunk(out.chunks, a, s, b) => HasChunk(Tables.chunks, a, s, b)
  BY <1>1, TablesWritten
<1>4. /\ DOMAIN work = 1 .. Len(work) /\ Len(work) \in Nat /\ i \in Nat
      /\ DOMAIN lay = DOMAIN work
  BY <1>1, PlaceType DEF IInv, Shape, TypeOK
<1>5. img'.count = Expected' /\ Len(img'.shdrs) = Expected'
  <2>1. Uint16(Len(work)) = Len(work)
    <3>1. \A x \in Nat : x < Word16 => Uint16(x) = x
      BY WidthAssumption DEF Uint16
    <3>2. QED
      BY <1>1, <1>4, <3>1
  <2>2. QED
    BY <1>1, <1>2, <2>1
<1>6. Disjoint(img.chunks, 20 + 40 * Len(img.shdrs))'
  <2>1. Disjoint(Tables.chunks, HeadersEnd)
    BY <1>3, ChainDisjoint
  <2>2. 20 + 40 * Len(img'.shdrs) = HeadersEnd
    BY <1>1 DEF HeadersEnd
  <2>3. QED
    BY <1>2, <2>1, <2>2
<1>7. /\ StartsAt(img.chunks, img.symtab)'
      /\ StartsAt(img.chunks, img.symtab + 18 * img.nsyms)'
  BY <1>1, <1>2, <1>3 DEF StartsAt, HasChunk
<1>8. PICK C : C = Comdats(work) /\ C = Comdats(added)' /\ \A c \in DOMAIN work : HeadIn(HeadAt(C, c), c)
  BY <1>1, SameLists DEF Behind, Headed
<1>9. ASSUME NEW c \in DOMAIN sections, NEW sh, sh = Header(c),
             NEW slot, slot = slots[HeadAt(C, c)]
      PROVE  /\ IF NoBits(sections[c]) THEN sh.raw = 0 /\ sh.relocs = 0 /\ sh.count = 0
                ELSE /\ \E n \in DOMAIN Tables.chunks :
                          Tables.chunks[n].at = sh.raw /\ Tables.chunks[n].size = sh.size
                     /\ sh.raw % sh.chars.align = 0
                     /\ sh.count > 0 => sh.relocs = sh.raw + sh.size
             /\ ~NoBits(sections[c]) => sh.size = sections[c].size
             /\ NoBits(sections[c]) /\ VirtualSize(sections[c]) < 2 * Half32
                  => sh.size = VirtualSize(sections[c])
             /\ slot.name.at < Slash
                  => NameReads(sh.name, strtab.data, SectionName(sections[c]))
  <2>1. c \in DOMAIN work /\ work[c] = sections[c] /\ c \in DOMAIN lay
    BY <1>1, <1>4
  <2>2. /\ sh.name = HeaderName(strtab, SectionName(work[c]))
        /\ sh.chars = SectionChars(work[c])
        /\ NoBits(work[c]) => sh.size = Uint32(VirtualSize(work[c]))
        /\ sh.raw = Uint32(lay[c].raw) /\ sh.relocs = Uint32(lay[c].relocs)
        /\ sh.count = Uint16(lay[c].count)
    BY <1>9 DEF Header
  <2>3. ASSUME NoBits(work[c]) PROVE sh.raw = 0 /\ sh.relocs = 0 /\ sh.count = 0
    <3>1. lay[c] = NoPlace
      BY <2>1, <2>3 DEF Laid
    <3>2. lay[c].raw = 0 /\ lay[c].relocs = 0 /\ lay[c].count = 0
      BY <3>1 DEF NoPlace
    <3>3. Uint16(0) = 0 /\ Uint32(0) = 0
      BY WidthAssumption DEF Uint16, Uint32
    <3>4. QED
      BY <2>2, <3>2, <3>3
  <2>4. ASSUME ~NoBits(work[c])
        PROVE  /\ \E n \in DOMAIN Tables.chunks :
                    Tables.chunks[n].at = sh.raw /\ Tables.chunks[n].size = sh.size
               /\ sh.raw % sh.chars.align = 0
               /\ sh.count > 0 => sh.relocs = sh.raw + sh.size
               /\ sh.size = work[c].size
    <3>1. /\ LaidAt(c) /\ sh.size = work[c].size /\ sh.raw = lay[c].raw
          /\ sh.count = Len(recs[c])
          /\ Len(recs[c]) > 0 => sh.relocs = lay[c].raw + work[c].size
      BY <1>1, <1>9, <2>1, <2>4, HeaderFits
    <3>2. HasChunk(out.chunks, lay[c].raw, work[c].size, PatchedCode(c))
      BY <1>1, <1>4, <2>1, <2>4 DEF Filled, InFile
    <3>3. HasChunk(Tables.chunks, lay[c].raw, work[c].size, PatchedCode(c))
      BY <1>3, <3>2
    <3>4. \E n \in DOMAIN Tables.chunks :
            Tables.chunks[n].at = sh.raw /\ Tables.chunks[n].size = sh.size
      BY <3>1, <3>3 DEF HasChunk
    <3>5. sh.raw % sh.chars.align = 0
      BY <2>2, <3>1 DEF LaidAt
    <3>6. QED
      BY <3>1, <3>4, <3>5
  <2>5. ASSUME NoBits(work[c]), VirtualSize(work[c]) < 2 * Half32
        PROVE  sh.size = VirtualSize(work[c])
    <3>1. VirtualSize(work[c]) \in Nat
      BY <1>4, <2>1, WorkType DEF IInv, VirtualSize, Section
    <3>2. QED
      BY <2>2, <2>5, <3>1, Uint32Fits
  <2>6. ASSUME slot.name.at < Slash
        PROVE  NameReads(sh.name, strtab.data, SectionName(work[c]))
    <3>1. PICK name, g, f :
            name = SectionName(work[c]) /\ g = NameField(strtab, name) /\ f = sh.name
      OBVIOUS
    <3>2. name \in Name /\ Consistent(strtab)
      BY <1>4, <2>1, <3>1, WorkType, SectionNameType DEF IInv, TypeOK
    <3>3. PICK n : n = HeadAt(C, c)
      OBVIOUS
    <3>4. HeadIn(n, c) /\ slot = slots[n]
      BY <1>8, <1>9, <2>1, <3>3
    <3>5. /\ g.at < Slash /\ f = HeaderName(strtab, name)
          /\ name \in LongNames => name \in DOMAIN strtab.offsets
      BY <2>2, <2>6, <3>1, <3>4 DEF HeadIn, InTable
    <3>6. NameReads(f, strtab.data, name)
      BY <3>1, <3>2, <3>5, HeaderNameReads
    <3>7. QED
      BY <3>1, <3>6
  <2>7. QED
    BY <2>1, <2>3, <2>4, <2>5, <2>6
<1>10. ASSUME NEW c \in DOMAIN sections
       PROVE  LET sh == img'.shdrs[c]
                  s  == sections[c]
                  at == Symtab'[HeadAt(C, c)].name.at
              IN  /\ IF NoBits(s) THEN sh.raw = 0 /\ sh.relocs = 0 /\ sh.count = 0
                     ELSE /\ {n \in DOMAIN img'.chunks : img'.chunks[n].at = sh.raw
                                                         /\ img'.chunks[n].size = sh.size} # {}
                          /\ sh.raw % sh.chars.align = 0
                          /\ sh.count > 0 => sh.relocs = sh.raw + sh.size
                  /\ ~NoBits(s) => sh.size = s.size
                  /\ NoBits(s) /\ VirtualSize(s) < 2 * Half32 => sh.size = VirtualSize(s)
                  /\ at < Slash => NameReads(sh.name, Strings', SectionName(s))
  <2>1. PICK sh, slot : sh = Header(c) /\ slot = slots[HeadAt(C, c)]
    OBVIOUS
  <2>2. img'.shdrs[c] = sh /\ Symtab'[HeadAt(C, c)] = slot
    BY <1>1, <1>2, <2>1
  <2>3. QED
    BY <1>1, <1>2, <1>9, <2>1, <2>2
<1>11. QED
  BY <1>1, <1>5, <1>6, <1>7, <1>8, <1>10 DEF LayoutHonest, Extent

\* In every image whose sections end before 2^32 no two pieces share a byte,
\* each section with bytes is where its header says, aligned as its
\* characteristics say and with its relocation records behind it, the string
\* table is behind the last slot of the symbol table, a section without bytes
\* has its size in memory if a uint32 holds it, and a header names its section
\* whenever the field takes all digits of the name's offset: the positions the
\* layout loop computed are those at which the serialiser, which counts for
\* itself, wrote.
THEOREM SectionsWhereHeadersSay == Spec => []LayoutHonest
<1>1. Init => LayoutHonest
  BY InitReader DEF LayoutHonest
<1>2. IInv /\ Answers /\ Laid /\ Filled /\ Headed /\ LayoutHonest /\ [Next]_vars => LayoutHonest'
  <2> SUFFICES ASSUME IInv, Answers, Laid, Filled, Headed, LayoutHonest, [Next]_vars
               PROVE  LayoutHonest'
    OBVIOUS
  <2>1. CASE Deliver /\ Short
    BY <2>1, DeliverLaid
  <2>2. CASE ~(Built /\ FewBytes)'
    BY <2>2 DEF LayoutHonest
  <2>3. CASE UNCHANGED last
    <3>1. /\ Built' = Built /\ FewBytes' = FewBytes /\ img' = img /\ added' = added
          /\ Strings' = Strings /\ Expected' = Expected /\ Symtab' = Symtab
      BY <2>3, SameImage
    <3>2. \A at, size : Extent(at, size)' = Extent(at, size)
      BY <2>3, SameImage
    <3>3. QED
      BY <3>1, <3>2 DEF LayoutHonest
  <2>4. QED
    BY <2>1, <2>2, <2>3, OtherSteps
<1>3. QED
  BY Inductive, InitAnswers, AnswersStep, InitReader, LaidStep, InitTabled, TabledStep,
     <1>1, <1>2, PTL DEF Spec

-----------------------------------------------------------------------------
(***************************************************************************)
(* What .drectve says.  FlattenSeq joins a list of sequences by a function *)
(* defined from its own value in front; that there is one, and what it is  *)
(* at the next place, is by counting.  Told follows the scan: what is said *)
(* so far is of the sections in front of the cursor and of the symbols in  *)
(* front of it in its section.                                             *)
(***************************************************************************)
JoinAt(f, e, c) == IF c = 1 THEN e[c] ELSE f[c - 1] \o e[c]
JoinsTo(f, e, n) == \A c \in 1 .. n : f[c] = JoinAt(f, e, c)

LEMMA JoinsAgree ==
  ASSUME NEW e, NEW n \in Nat, NEW f, JoinsTo(f, e, n), NEW g, JoinsTo(g, e, n)
  PROVE  \A c \in 1 .. n : f[c] = g[c]
<1> DEFINE S == {c \in Nat : c + 1 <= n => f[c + 1] = g[c + 1]}
<1>1. 0 \in S
  <2> SUFFICES ASSUME 1 <= n PROVE f[1] = g[1]
    OBVIOUS
  <2>1. 1 \in 1 .. n
    OBVIOUS
  <2>2. QED
    BY <2>1 DEF JoinsTo, JoinAt
<1>2. ASSUME NEW c \in Nat, c \in S PROVE c + 1 \in S
  <2> SUFFICES ASSUME c + 2 <= n PROVE f[c + 2] = g[c + 2]
    OBVIOUS
  <2>1. PICK b, d : b = c + 1 /\ b \in Nat \ {0} /\ d = c + 2 /\ d = b + 1
    OBVIOUS
  <2>2. d \in 1 .. n /\ f[b] = g[b]
    BY <1>2, <2>1
  <2>3. f[d] = JoinAt(f, e, d) /\ g[d] = JoinAt(g, e, d)
    BY <2>2 DEF JoinsTo
  <2>4. JoinAt(f, e, d) = f[b] \o e[d] /\ JoinAt(g, e, d) = g[b] \o e[d]
    <3>1. ~(d = 1) /\ d - 1 = b
      BY <2>1
    <3>2. JoinAt(f, e, d) = f[d - 1] \o e[d] /\ JoinAt(g, e, d) = g[d - 1] \o e[d]
      BY <3>1 DEF JoinAt
    <3>3. QED
      BY <3>1, <3>2
  <2>5. QED
    BY <2>1, <2>2, <2>3, <2>4
<1>3. Nat \subseteq S
  <2> HIDE DEF S
  <2>1. QED
    BY <1>1, <1>2, Counting
<1>4. QED
  <2> SUFFICES ASSUME NEW c \in 1 .. n PROVE f[c] = g[c]
    OBVIOUS
  <2>1. c - 1 \in Nat /\ c - 1 + 1 = c
    OBVIOUS
  <2>2. QED
    BY <1>3, <2>1

LEMMA JoinsExist ==
  ASSUME NEW e, NEW n \in Nat
  PROVE  \E f : f = [c \in 1 .. n |-> JoinAt(f, e, c)]
<1> DEFINE S == {m \in Nat : \E f : f = [c \in 1 .. m |-> JoinAt(f, e, c)]}
<1>1. 0 \in S
  <2> DEFINE f == [c \in 1 .. 0 |-> 0]
  <2>1. f = [c \in 1 .. 0 |-> JoinAt(f, e, c)]
    OBVIOUS
  <2>2. QED
    BY <2>1
<1>2. ASSUME NEW m \in Nat, m \in S PROVE m + 1 \in S
  <2>1. PICK f : f = [c \in 1 .. m |-> JoinAt(f, e, c)]
    BY <1>2
  <2> DEFINE g == [c \in 1 .. m + 1 |-> JoinAt(f, e, c)]
  <2>2. ASSUME NEW c \in 1 .. m + 1 PROVE g[c] = JoinAt(g, e, c)
    <3>1. g[c] = JoinAt(f, e, c)
      OBVIOUS
    <3>2. c # 1 => c - 1 \in 1 .. m + 1 /\ g[c - 1] = f[c - 1]
      BY <2>1
    <3> HIDE DEF g
    <3>3. QED
      BY <3>1, <3>2 DEF JoinAt
  <2>3. g = [c \in 1 .. m + 1 |-> g[c]]
    OBVIOUS
  <2> HIDE DEF g
  <2>4. g = [c \in 1 .. m + 1 |-> JoinAt(g, e, c)]
    BY <2>2, <2>3
  <2>5. QED
    BY <2>4
<1>3. Nat \subseteq S
  <2> HIDE DEF S
  <2>1. QED
    BY <1>1, <1>2, Counting
<1>4. QED
  BY <1>3

\* The first n sequences of e, joined.
Joined(e, n) == FlattenSeq([c \in 1 .. n |-> e[c]])

LEMMA JoinedUnfolds ==
  ASSUME NEW e, NEW n \in Nat \ {0}
  PROVE  \E f : JoinsTo(f, e, n) /\ Joined(e, n) = f[n]
<1> DEFINE s == [c \in 1 .. n |-> e[c]]
           Rule(f) == [c \in 1 .. Len(s) |-> IF c = 1 THEN s[c] ELSE f[c - 1] \o s[c]]
           h == CHOOSE f : f = Rule(f)
<1>1. Len(s) = n
  OBVIOUS
<1>2. PICK f : f = [c \in 1 .. n |-> JoinAt(f, e, c)]
  BY JoinsExist
<1>3. f = Rule(f)
  <2>1. \A c \in 1 .. n : JoinAt(f, e, c) = IF c = 1 THEN s[c] ELSE f[c - 1] \o s[c]
    BY DEF JoinAt
  <2> HIDE DEF s
  <2>2. QED
    BY <1>1, <1>2, <2>1
<1>4. h = Rule(h)
  <2> HIDE DEF Rule
  <2>1. QED
    BY <1>3
<1>5. Joined(e, n) = h[n]
  <2>1. Joined(e, n) = FlattenSeq(s)
    BY DEF Joined
  <2>2. Len(s) # 0
    BY <1>1
  <2> HIDE DEF s
  <2>3. FlattenSeq(s) = h[Len(s)]
    BY <2>2 DEF FlattenSeq
  <2>4. QED
    BY <1>1, <2>1, <2>3
<1>6. JoinsTo(h, e, n)
  <2> SUFFICES ASSUME NEW c \in 1 .. n PROVE h[c] = JoinAt(h, e, c)
    BY DEF JoinsTo
  <2>1. s[c] = e[c]
    OBVIOUS
  <2> HIDE DEF s, h
  <2>2. h[c] = IF c = 1 THEN s[c] ELSE h[c - 1] \o s[c]
    BY <1>1, <1>4
  <2>3. QED
    BY <2>1, <2>2 DEF JoinAt
<1>7. QED
  BY <1>5, <1>6

LEMMA JoinedNone == ASSUME NEW e PROVE Joined(e, 0) = << >>
<1>1. PICK s : s = [c \in 1 .. 0 |-> e[c]]
  OBVIOUS
<1>2. Len(s) = 0 /\ s = << >>
  BY <1>1
<1>3. FlattenSeq(s) = << >>
  BY <1>2 DEF FlattenSeq
<1>4. QED
  BY <1>1, <1>3 DEF Joined

LEMMA JoinedNext ==
  ASSUME NEW S, NEW n \in Nat, NEW e, \A c \in 1 .. n + 1 : e[c] \in Seq(S)
  PROVE  Joined(e, n + 1) = Joined(e, n) \o e[n + 1]
<1>1. PICK f : JoinsTo(f, e, n + 1) /\ Joined(e, n + 1) = f[n + 1]
  BY JoinedUnfolds
<1>2. f[n + 1] = JoinAt(f, e, n + 1)
  BY <1>1 DEF JoinsTo
<1>3. CASE n = 0
  <2>1. Joined(e, n) = << >>
    BY <1>3, JoinedNone
  <2>2. Joined(e, n + 1) = e[n + 1]
    BY <1>1, <1>2, <1>3 DEF JoinAt
  <2>3. e[n + 1] \in Seq(S)
    OBVIOUS
  <2>4. QED
    BY <2>1, <2>2, <2>3
<1>4. CASE n # 0
  <2>1. PICK g : JoinsTo(g, e, n) /\ Joined(e, n) = g[n]
    BY <1>4, JoinedUnfolds
  <2>2. JoinsTo(f, e, n)
    BY <1>1 DEF JoinsTo
  <2>3. n \in 1 .. n /\ n \in Nat \ {0}
    BY <1>4
  <2>4. f[n] = g[n]
    BY <2>1, <2>2, <2>3, JoinsAgree
  <2>5. PICK q : q = n + 1
    OBVIOUS
  <2>6. JoinAt(f, e, q) = f[n] \o e[q]
    <3>1. ~(q = 1) /\ q - 1 = n
      BY <2>3, <2>5
    <3>2. JoinAt(f, e, q) = f[q - 1] \o e[q]
      BY <3>1 DEF JoinAt
    <3>3. QED
      BY <3>1, <3>2
  <2>7. QED
    BY <1>1, <1>2, <2>1, <2>4, <2>5, <2>6
<1>5. QED
  BY <1>3, <1>4

LEMMA JoinedType ==
  ASSUME NEW S, NEW n \in Nat, NEW e, \A c \in 1 .. n : e[c] \in Seq(S)
  PROVE  Joined(e, n) \in Seq(S)
<1> DEFINE T == {m \in Nat : m <= n => Joined(e, m) \in Seq(S)}
<1>1. 0 \in T
  <2>1. << >> \in Seq(S) /\ Joined(e, 0) = << >>
    BY JoinedNone
  <2>2. QED
    BY <2>1
<1>2. ASSUME NEW m \in Nat, m \in T PROVE m + 1 \in T
  <2> SUFFICES ASSUME m + 1 <= n PROVE Joined(e, m + 1) \in Seq(S)
    OBVIOUS
  <2>1. Joined(e, m) \in Seq(S) /\ e[m + 1] \in Seq(S)
    BY <1>2
  <2>2. \A c \in 1 .. m + 1 : e[c] \in Seq(S)
    OBVIOUS
  <2>3. Joined(e, m + 1) = Joined(e, m) \o e[m + 1]
    BY <2>2, JoinedNext
  <2>4. QED
    BY <2>1, <2>3, JoinType
<1>3. Nat \subseteq T
  <2> HIDE DEF T
  <2>1. QED
    BY <1>1, <1>2, Counting
<1>4. QED
  BY <1>3

\* What is said of a section's symbols one by one, and of the sections.
Sayings == Char \cup {"/EXPORT:"}
RowOf(s) == [m \in DOMAIN s.symbols |-> DirectiveOf(s.symbols[m])]
RowsOf(ss) == [c \in DOMAIN ss |-> DirectivesOf(ss[c])]

LEMMA RowJoined ==
  ASSUME NEW s \in Section
  PROVE  /\ \A m \in 1 .. Len(s.symbols) :
              RowOf(s)[m] = DirectiveOf(s.symbols[m]) /\ RowOf(s)[m] \in Seq(Sayings)
         /\ DirectivesOf(s) = Joined(RowOf(s), Len(s.symbols))
         /\ DirectivesOf(s) \in Seq(Sayings)
<1>1. PICK n, row : n = Len(s.symbols) /\ row = RowOf(s)
  OBVIOUS
<1>2. s.symbols \in Seq(Symbol) /\ n \in Nat /\ DOMAIN s.symbols = 1 .. n
  BY <1>1, SectionFields
<1>3. row = [m \in 1 .. n |-> DirectiveOf(s.symbols[m])]
  BY <1>1, <1>2 DEF RowOf
<1>4. ASSUME NEW m \in 1 .. n
      PROVE  row[m] = DirectiveOf(s.symbols[m]) /\ row[m] \in Seq(Sayings)
  <2>1. PICK sym : sym = s.symbols[m]
    OBVIOUS
  <2>2. sym \in Symbol
    BY <1>2, <2>1
  <2>3. sym.name \in Seq(Sayings)
    BY <2>2 DEF Symbol, Name, Sayings
  <2>4. <<"/EXPORT:">> \in Seq(Sayings) /\ << >> \in Seq(Sayings)
    BY DEF Sayings
  <2>5. DirectiveOf(sym) \in Seq(Sayings)
    BY <2>3, <2>4, JoinType DEF DirectiveOf
  <2>6. QED
    BY <1>3, <2>1, <2>5
<1>5. DirectivesOf(s) = Joined(row, n)
  <2>1. row = [m \in 1 .. n |-> row[m]]
    BY <1>3
  <2>2. DirectivesOf(s) = FlattenSeq(row)
    BY <1>2, <1>3 DEF DirectivesOf
  <2>3. QED
    BY <2>1, <2>2 DEF Joined
<1>6. Joined(row, n) \in Seq(Sayings)
  BY <1>2, <1>4, JoinedType
<1>7. QED
  BY <1>1, <1>4, <1>5, <1>6

LEMMA RowsJoined ==
  ASSUME NEW ss \in Seq(Section)
  PROVE  /\ \A c \in 1 .. Len(ss) :
              RowsOf(ss)[c] = DirectivesOf(ss[c]) /\ RowsOf(ss)[c] \in Seq(Sayings)
         /\ Directives(ss) = Joined(RowsOf(ss), Len(ss))
<1>1. PICK n, rows : n = Len(ss) /\ rows = RowsOf(ss)
  OBVIOUS
<1>2. n \in Nat /\ DOMAIN ss = 1 .. n /\ \A c \in 1 .. n : ss[c] \in Section
  BY <1>1
<1>3. rows = [c \in 1 .. n |-> DirectivesOf(ss[c])]
  BY <1>1, <1>2 DEF RowsOf
<1>4. ASSUME NEW c \in 1 .. n
      PROVE  rows[c] = DirectivesOf(ss[c]) /\ rows[c] \in Seq(Sayings)
  <2>1. PICK s \in Section : s = ss[c]
    BY <1>2
  <2>2. DirectivesOf(s) \in Seq(Sayings)
    BY RowJoined
  <2>3. QED
    BY <1>3, <2>1, <2>2
<1>5. Directives(ss) = Joined(rows, n)
  <2>1. rows = [c \in 1 .. n |-> rows[c]]
    BY <1>3
  <2>2. Directives(ss) = FlattenSeq(rows)
    BY <1>2, <1>3 DEF Directives
  <2>3. QED
    BY <2>1, <2>2 DEF Joined
<1>6. QED
  BY <1>1, <1>4, <1>5

Told ==
  /\ pc = "exports" =>
       /\ i <= Len(sections) + 1
       /\ i <= Len(sections) =>
            /\ k <= Len(sections[i].symbols) + 1
            /\ directives = Joined(RowsOf(sections), i - 1) \o Joined(RowOf(sections[i]), k - 1)
       /\ i > Len(sections) => directives = Directives(sections)
  /\ pc \notin {"idle", "exports"} =>
       /\ directives = Directives(sections)
       /\ Len(work) > Len(sections) => directives # << >>

LEMMA WriteToTold == ASSUME IInv, Answers, WriteTo PROVE Told'
<1>1. /\ pc = "idle" /\ pc' = "exports" /\ sections' = sections
      /\ i' = i /\ k' = k /\ directives' = directives
  BY DEF WriteTo, file
<1>2. i = 1 /\ k = 1 /\ directives = << >>
  BY <1>1 DEF Answers, Scanned
<1>3. PICK ss \in Seq(Section) : ss = sections
  BY SectionsAssumption, SubsetType DEF IInv, TypeOK
<1>4. Len(ss) \in Nat /\ \A c \in 1 .. Len(ss) : Len(ss[c].symbols) \in Nat
  BY <1>3, PlaceType
<1>5. \A e : Joined(e, 0) = << >> /\ << >> \o << >> = << >>
  BY JoinedNone
<1>6. Len(ss) = 0 => Directives(ss) = << >>
  BY <1>5, RowsJoined
<1>7. QED
  BY <1>1, <1>2, <1>3, <1>4, <1>5, <1>6 DEF Told

LEMMA ScanSymbolTold == ASSUME IInv, Told, ScanSymbol PROVE Told'
<1>1. PICK ss \in Seq(Section) : ss = sections
  BY SectionsAssumption, SubsetType DEF IInv, TypeOK
<1>2. PICK a, b, sym, front, row :
        /\ a = i /\ b = k /\ sym = ss[a].symbols[b] /\ front = Joined(RowsOf(ss), a - 1)
        /\ row = RowOf(ss[a])
  OBVIOUS
<1>3. /\ pc = "exports" /\ pc' = "exports" /\ a <= Len(ss) /\ b <= Len(ss[a].symbols)
      /\ i' = a /\ k' = b + 1 /\ sections' = ss
      /\ directives' = IF sym.dllExport THEN directives \o <<"/EXPORT:">> \o sym.name
                       ELSE directives
      /\ directives = front \o Joined(row, b - 1)
  BY <1>1, <1>2 DEF ScanSymbol, file, Told
<1>4. /\ a \in 1 .. Len(ss) /\ Len(ss) \in Nat /\ b \in 1 .. Len(ss[a].symbols)
      /\ Len(ss[a].symbols) \in Nat /\ ss[a] \in Section
  BY <1>1, <1>2, <1>3, PlaceType
<1>5. /\ row[b] = DirectiveOf(sym)
      /\ \A m \in 1 .. Len(ss[a].symbols) : row[m] \in Seq(Sayings)
      /\ \A c \in 1 .. Len(ss) : RowsOf(ss)[c] \in Seq(Sayings)
  BY <1>2, <1>4, RowJoined, RowsJoined
<1>6. PICK d : d = b - 1 /\ d \in Nat /\ b = d + 1
  BY <1>4
<1>7. front \in Seq(Sayings) /\ Joined(row, d) \in Seq(Sayings) /\ row[b] \in Seq(Sayings)
  <2>1. \A c \in 1 .. a - 1 : RowsOf(ss)[c] \in Seq(Sayings)
    BY <1>4, <1>5
  <2>2. a - 1 \in Nat
    BY <1>4
  <2>3. front \in Seq(Sayings)
    BY <1>2, <2>1, <2>2, JoinedType
  <2>4. \A m \in 1 .. d : row[m] \in Seq(Sayings)
    BY <1>4, <1>5, <1>6
  <2>5. Joined(row, d) \in Seq(Sayings)
    BY <1>6, <2>4, JoinedType
  <2>6. QED
    BY <1>4, <1>5, <2>3, <2>5
<1>8. Joined(row, b) = Joined(row, d) \o row[b]
  <2>1. \A m \in 1 .. d + 1 : row[m] \in Seq(Sayings)
    BY <1>4, <1>5, <1>6
  <2>2. Joined(row, d + 1) = Joined(row, d) \o row[d + 1]
    BY <1>6, <2>1, JoinedNext
  <2>3. QED
    BY <1>6, <2>2
<1>9. directives' = directives \o row[b]
  <2>1. directives \in Seq(Sayings)
    BY DEF IInv, TypeOK, Sayings
  <2>2. CASE sym.dllExport
    <3>1. <<"/EXPORT:">> \in Seq(Sayings)
      BY DEF Sayings
    <3>2. sym.name \in Seq(Sayings)
      <4>1. ss[a].symbols \in Seq(Symbol)
        BY <1>4, SectionFields
      <4>2. sym \in Symbol
        BY <1>2, <1>4, <4>1
      <4>3. QED
        BY <4>2 DEF Symbol, Name, Sayings
    <3>3. (directives \o <<"/EXPORT:">>) \o sym.name = directives \o (<<"/EXPORT:">> \o sym.name)
      <4>1. PICK p, q, r : p = directives /\ q = <<"/EXPORT:">> /\ r = sym.name
        OBVIOUS
      <4>2. p \in Seq(Sayings) /\ q \in Seq(Sayings) /\ r \in Seq(Sayings)
        BY <2>1, <3>1, <3>2, <4>1
      <4>3. (p \o q) \o r = p \o (q \o r)
        BY <4>2
      <4>4. QED
        BY <4>1, <4>3
    <3>4. row[b] = <<"/EXPORT:">> \o sym.name
      BY <1>5, <2>2 DEF DirectiveOf
    <3>5. QED
      BY <1>3, <2>2, <3>3, <3>4
  <2>3. CASE ~sym.dllExport
    <3>1. row[b] = << >> /\ directives' = directives
      BY <1>3, <1>5, <2>3 DEF DirectiveOf
    <3>2. QED
      BY <2>1, <3>1
  <2>4. QED
    BY <2>2, <2>3
<1>10. directives' = front \o Joined(row, b)
  <2>1. (front \o Joined(row, d)) \o row[b] = front \o (Joined(row, d) \o row[b])
    <3>1. PICK p, q, r : p = front /\ q = Joined(row, d) /\ r = row[b]
      OBVIOUS
    <3>2. p \in Seq(Sayings) /\ q \in Seq(Sayings) /\ r \in Seq(Sayings)
      BY <1>7, <3>1
    <3>3. (p \o q) \o r = p \o (q \o r)
      BY <3>2
    <3>4. QED
      BY <3>1, <3>3
  <2>2. QED
    BY <1>3, <1>6, <1>8, <1>9, <2>1
<1>11. /\ i' <= Len(sections') + 1 /\ i' <= Len(sections') /\ ~(i' > Len(sections'))
       /\ k' <= Len(sections'[i'].symbols) + 1 /\ k' - 1 = b
  BY <1>3, <1>4
<1>12. QED
  BY <1>2, <1>3, <1>10, <1>11 DEF Told

LEMMA ScanNextSectionTold == ASSUME IInv, Told, ScanNextSection PROVE Told'
<1>1. PICK ss \in Seq(Section) : ss = sections
  BY SectionsAssumption, SubsetType DEF IInv, TypeOK
<1>2. PICK a, d, s, front, rows :
        /\ a = i /\ d = a - 1 /\ s = ss[a] /\ rows = RowsOf(ss) /\ front = Joined(rows, d)
  OBVIOUS
<1>3. /\ pc = "exports" /\ pc' = "exports" /\ a <= Len(ss) /\ k > Len(s.symbols)
      /\ i' = a + 1 /\ k' = 1 /\ sections' = ss /\ directives' = directives
      /\ k <= Len(s.symbols) + 1 /\ directives = front \o Joined(RowOf(s), k - 1)
  BY <1>1, <1>2 DEF ScanNextSection, NextSection, file, Told
<1>4. /\ a \in 1 .. Len(ss) /\ Len(ss) \in Nat /\ Len(s.symbols) \in Nat /\ k \in Nat
      /\ s \in Section /\ d \in Nat /\ a = d + 1
  BY <1>1, <1>2, <1>3, PlaceType
<1>5. k - 1 = Len(s.symbols)
  BY <1>3, <1>4
<1>6. directives = front \o rows[a]
  <2>1. rows[a] = DirectivesOf(s)
    BY <1>2, <1>4, RowsJoined
  <2>2. DirectivesOf(s) = Joined(RowOf(s), k - 1)
    BY <1>4, <1>5, RowJoined
  <2>3. QED
    BY <1>3, <2>1, <2>2
<1>7. \A c \in 1 .. Len(ss) : rows[c] \in Seq(Sayings)
  BY <1>2, RowsJoined
<1>8. Joined(rows, a) = directives /\ Joined(rows, a) \in Seq(Sayings)
  <2>1. \A c \in 1 .. d + 1 : rows[c] \in Seq(Sayings)
    BY <1>4, <1>7
  <2>2. Joined(rows, d + 1) = Joined(rows, d) \o rows[d + 1]
    BY <1>4, <2>1, JoinedNext
  <2>3. Joined(rows, d + 1) \in Seq(Sayings)
    BY <1>4, <2>1, JoinedType
  <2>4. QED
    BY <1>2, <1>4, <1>6, <2>2, <2>3
<1>9. CASE a = Len(ss)
  <2>1. Directives(ss) = directives
    BY <1>2, <1>8, <1>9, RowsJoined
  <2>2. i' > Len(sections') /\ i' <= Len(sections') + 1 /\ ~(i' <= Len(sections'))
    BY <1>3, <1>4, <1>9
  <2>3. QED
    BY <1>3, <2>1, <2>2 DEF Told
<1>10. CASE a < Len(ss)
  <2>1. /\ i' <= Len(sections') /\ i' <= Len(sections') + 1 /\ ~(i' > Len(sections'))
        /\ k' <= Len(sections'[i'].symbols) + 1 /\ i' - 1 = a /\ k' - 1 = 0
    <3>1. a + 1 \in 1 .. Len(ss)
      BY <1>4, <1>10
    <3>2. Len(ss[a + 1].symbols) \in Nat
      BY <1>1, <3>1, PlaceType
    <3>3. QED
      BY <1>3, <1>4, <1>10, <3>2
  <2>2. Joined(rows, a) \o Joined(RowOf(sections'[i']), 0) = directives
    <3>1. Joined(RowOf(sections'[i']), 0) = << >>
      BY JoinedNone
    <3>2. QED
      BY <1>8, <3>1
  <2>3. QED
    BY <1>2, <1>3, <2>1, <2>2 DEF Told
<1>11. QED
  BY <1>4, <1>9, <1>10

LEMMA ToldStep == IInv /\ Answers /\ Told /\ [Next]_vars => Told'
<1> SUFFICES ASSUME IInv, Answers, Told, [Next]_vars PROVE Told'
  OBVIOUS
<1> DEFINE Early == {"idle", "exports"}
<1>1. CASE WriteTo
  BY <1>1, WriteToTold
<1>2. CASE ScanSymbol
  BY <1>2, ScanSymbolTold
<1>3. CASE ScanNextSection
  BY <1>3, ScanNextSectionTold
<1>4. CASE ScanDone
  <2>1. /\ pc = "exports" /\ pc' = "check" /\ i > Len(sections) /\ sections' = sections
        /\ directives' = directives
        /\ work' = IF directives = << >> THEN sections ELSE Append(sections, Drectve)
    BY <1>4 DEF ScanDone, Goto, file
  <2>2. directives = Directives(sections)
    BY <2>1 DEF Told
  <2>3. Len(work') > Len(sections') => directives' # << >>
    BY <2>1, PlaceType
  <2>4. QED
    BY <2>1, <2>2, <2>3 DEF Told
<1>5. CASE \/ \E s \in Sections : AddSection(s)
           \/ \E v \in Subsystems : SetSubsystem(v)
           \/ TooManySections \/ UnnamedSection \/ RelocFails \/ TooManyRelocs \/ Deliver
  <2>1. pc' = "idle"
    BY <1>5 DEF AddSection, SetSubsystem, TooManySections, UnnamedSection, RelocFails,
       TooManyRelocs, Deliver, Fail, Return
  <2>2. QED
    BY <2>1 DEF Told
<1>6. CASE \/ Accept \/ InternName \/ InternNextSection \/ InternExtern \/ NamesDone
           \/ SectionSymbol \/ SectionSymbolsDone
           \/ DefineSymbol \/ DefineNextSection \/ UndefinedSymbol \/ SymbolsDone
           \/ ConvertSection \/ RelocsDone
           \/ SkipSection \/ PlaceSection \/ LayoutDone \/ WriteSection
  <2>1. pc \notin Early /\ pc' \notin Early /\ UNCHANGED <<sections, directives, work>>
    <3>1. CASE \/ Accept \/ InternName \/ InternNextSection \/ InternExtern \/ NamesDone
               \/ SectionSymbol \/ SectionSymbolsDone
      BY <3>1 DEF Accept, InternName, InternNextSection, InternExtern, NamesDone,
         SectionSymbol, SectionSymbolsDone, Goto, NextSection, file
    <3>2. CASE DefineSymbol \/ DefineNextSection \/ UndefinedSymbol \/ SymbolsDone
      BY <3>2 DEF DefineSymbol, DefineNextSection, UndefinedSymbol, SymbolsDone, Goto,
         NextSection, file
    <3>3. CASE \/ ConvertSection \/ RelocsDone
               \/ SkipSection \/ PlaceSection \/ LayoutDone \/ WriteSection
      BY <3>3 DEF ConvertSection, RelocsDone, SkipSection, PlaceSection, LayoutDone,
         WriteSection, Goto, file
    <3>4. QED
      BY <1>6, <3>1, <3>2, <3>3
  <2>2. QED
    BY <2>1 DEF Told
<1>7. CASE UNCHANGED vars
  BY <1>7 DEF vars, file, Told
<1>8. QED
  BY <1>1, <1>2, <1>3, <1>4, <1>5, <1>6, <1>7 DEF Next, Build, Caller

\* The name of .drectve takes all eight bytes of a name field.
LEMMA DrectveHeader ==
  ASSUME NEW n \in DOMAIN work, work[n] = Drectve
  PROVE  /\ Header(n).name = [inline |-> <<".drectve">>, at |-> 0]
         /\ Header(n).chars.content = "INFO"
<1>1. SectionName(Drectve) = <<".drectve">>
  BY DrectveFields DEF SectionName, BaseName
<1> DEFINE f == NameField(strtab, <<".drectve">>)
<1>2. f = [inline |-> <<".drectve">>, at |-> 0]
  BY LongNamesAssumption DEF NameField
<1>3. HeaderName(strtab, <<".drectve">>) = f
  <2>1. HeaderName(strtab, <<".drectve">>) =
          [f EXCEPT !.at = @ \div Min({d \in {1, 10, 100, 1000} : f.at \div d < Slash})]
    BY DEF HeaderName
  <2> HIDE DEF f
  <2>2. f.at = 0 /\ \A d \in {1, 10, 100, 1000} : 0 \div d = 0
    BY <1>2
  <2>3. {d \in {1, 10, 100, 1000} : f.at \div d < Slash} = {1, 10, 100, 1000}
    BY <2>2, WidthAssumption
  <2>4. Min({1, 10, 100, 1000}) \in {1, 10, 100, 1000}
    BY LeastExists
  <2>5. HeaderName(strtab, <<".drectve">>) = [f EXCEPT !.at = 0]
    BY <2>1, <2>2, <2>3, <2>4
  <2>6. QED
    BY <1>2, <2>5
<1>4. SectionChars(Drectve).content = "INFO"
  BY DrectveFields DEF SectionChars
<1>5. QED
  BY <1>1, <1>2, <1>3, <1>4, DrectveFields DEF Header

\* .drectve has no relocations, so nothing is written into it.
LEMMA DrectveCode ==
  ASSUME IInv, Answers, pc = "write", NEW n \in DOMAIN work, n > Len(sections), work[n] = Drectve
  PROVE  PatchedCode(n) = directives
<1>1. recs[n] = << >>
  <2>1. recs[n] \in Seq(Records) /\ n \in DOMAIN recs
    BY PlaceFields
  <2>2. Len(recs[n]) = Len(work[n].relocs)
    BY <2>1 DEF IInv, SlotsSound
  <2>3. Len(work[n].relocs) = 0
    BY DrectveFields
  <2>4. QED
    BY <2>1, <2>2, <2>3
<1>2. PICK code, fields : code = directives /\ fields = [m \in DOMAIN recs[n] |-> Field(n, m)]
  OBVIOUS
<1>3. DOMAIN fields = {} /\ code \in Seq(Char \cup {"/EXPORT:"})
  BY <1>1, <1>2 DEF IInv, TypeOK
<1>4. Patch(code, fields) = code
  <2>1. \A b \in DOMAIN code :
          {m \in DOMAIN fields : Inside(fields[m], Len(code)) /\ Covers(fields[m], b)} = {}
    BY <1>3
  <2>2. Patch(code, fields) = [b \in DOMAIN code |-> code[b]]
    BY <2>1 DEF Patch
  <2>3. QED
    BY <1>3, <2>2
<1>5. Code(n) = code
  BY <1>2 DEF Code
<1>6. QED
  BY <1>2, <1>4, <1>5 DEF PatchedCode

LEMMA DeliverLists ==
  ASSUME IInv, Answers, Laid, Filled, Told, Deliver
  PROVE  ExportsListed'
<1>1. /\ img' = Image /\ added' = sections /\ Built' /\ pc = "write"
      /\ Len(work) = Expected' /\ Len(img'.shdrs) = Len(work)
      /\ \A c \in DOMAIN work : img'.shdrs[c] = Header(c)
      /\ FewBytes' <=> Short
  BY ImageFields
<1>2. directives = Directives(sections) /\ (Len(work) > Len(sections) => directives # << >>)
  BY <1>1 DEF Told
<1>3. ASSUME Len(work) > Len(sections), NEW n, n = Len(work), NEW sh, sh = Header(n)
      PROVE  /\ sh.name = [inline |-> <<".drectve">>, at |-> 0] /\ sh.chars.content = "INFO"
             /\ Short => Contents(sh.raw, sh.size)' = directives
  <2>1. n \in DOMAIN work \ DOMAIN sections /\ n > Len(sections)
    BY <1>3, PlaceType
  <2>2. work[n] = Drectve
    BY <1>1, <2>1 DEF Answers, Listed
  <2>3. /\ sh.name = [inline |-> <<".drectve">>, at |-> 0] /\ sh.chars.content = "INFO"
    BY <1>3, <2>1, <2>2, DrectveHeader
  <2>4. ~NoBits(work[n])
    BY <2>2, DrectveFields
  <2>5. ASSUME Short PROVE sh.size > 0
    <3>1. directives \in Seq(Char \cup {"/EXPORT:"}) /\ directives # << >>
      BY <1>2, <1>3 DEF IInv, TypeOK
    <3>2. sh.size = work[n].size
      BY <1>1, <1>3, <2>1, <2>4, <2>5, HeaderFits
    <3>3. work[n].size = Len(directives)
      BY <2>2, DrectveFields
    <3>4. QED
      BY <3>1, <3>2, <3>3
  <2>6. Short => Contents(sh.raw, sh.size)' = PatchedCode(n)
    BY <1>3, <2>1, <2>4, <2>5, PiecesFound
  <2>7. PatchedCode(n) = directives
    BY <1>1, <2>1, <2>2, DrectveCode
  <2>8. QED
    BY <2>3, <2>6, <2>7
<1>4. ASSUME Len(work) > Len(sections), NEW sh, sh = img'.shdrs[Expected']
      PROVE  /\ sh.name = [inline |-> <<".drectve">>, at |-> 0] /\ sh.chars.content = "INFO"
             /\ Short => Contents(sh.raw, sh.size)' = directives
  <2>1. PICK n : n = Len(work) /\ n \in DOMAIN work
    BY <1>4, PlaceType
  <2>2. sh = Header(n)
    BY <1>1, <1>4, <2>1
  <2>3. QED
    BY <1>3, <1>4, <2>1, <2>2
<1>5. QED
  BY <1>1, <1>2, <1>4 DEF ExportsListed

\* In every image of a File with exported symbols the last section is .drectve
\* and, if the sections end before 2^32, says all of them to the linker, in the
\* order of the sections and of their symbols; the image of a File without has
\* the sections added alone: the synthetic section is there when it must be and
\* never twice, for it is appended to the build's copy of the list and not to
\* the File's.
THEOREM ExportsReachTheLinker == Spec => []ExportsListed
<1>1. Init => ExportsListed /\ Told
  BY InitReader DEF ExportsListed, Told, Init
<1>2. IInv /\ Answers /\ Laid /\ Filled /\ Told /\ ExportsListed /\ [Next]_vars
      => ExportsListed'
  <2> SUFFICES ASSUME IInv, Answers, Laid, Filled, Told, ExportsListed, [Next]_vars
               PROVE  ExportsListed'
    OBVIOUS
  <2>1. CASE Deliver
    BY <2>1, DeliverLists
  <2>2. CASE ~Built'
    BY <2>2 DEF ExportsListed
  <2>3. CASE UNCHANGED last
    <3>1. /\ Built' = Built /\ FewBytes' = FewBytes /\ img' = img /\ added' = added
          /\ Expected' = Expected
      BY <2>3, SameImage
    <3>2. \A at, size : Contents(at, size)' = Contents(at, size)
      BY <3>1 DEF Contents, Extent
    <3>3. QED
      BY <3>1, <3>2 DEF ExportsListed
  <2>4. QED
    BY <2>1, <2>2, <2>3, OtherSteps
<1>3. QED
  BY Inductive, InitAnswers, AnswersStep, InitReader, LaidStep, ToldStep, <1>1, <1>2, PTL DEF Spec

-----------------------------------------------------------------------------
(***************************************************************************)
(* Two calls with the same sections have the same outcome.  The build is a *)
(* function: After(a, ss, s) is the state of its locals behind state s, in *)
(* a build of sections ss for architecture a, and AfterStep shows that     *)
(* every action of Build does just that, the ones included that take an    *)
(* undefined name out of a Go map.  So a call that has returned has left   *)
(* behind a trace from the start to a state where the build ends, and two  *)
(* such traces are the same.                                               *)
(***************************************************************************)
At(p, m, n) == [pc |-> p, i |-> m, k |-> n]
Lists(text, list) == [directives |-> text, work |-> list]
Named(t, idx, list) == [strtab |-> t, symIdx |-> idx, slots |-> list]
Parts(rs, places, at, buf) == [recs |-> rs, lay |-> places, pos |-> at, out |-> buf]
Locals(at, lists, tables, parts) ==
  [at |-> at, lists |-> lists, tables |-> tables, parts |-> parts]

State ==
  Locals(At(pc, i, k), Lists(directives, work), Named(strtab, symIdx, slots),
         Parts(recs, lay, pos, out))

Waiting(phase) ==
  Locals(At(phase, 1, 1), Lists(<< >>, << >>), Named(NewTable, EmptyMap, << >>),
         Parts(<< >>, << >>, 0, EmptyOut))

\* Goto, NextSection and the least undefined name.
Gone(s, phase) == Locals(At(phase, 1, 1), s.lists, s.tables, s.parts)
Turned(s) == Locals(At(s.at.pc, s.at.i + 1, 1), s.lists, s.tables, s.parts)
Least(S) == CHOOSE name \in First(S) : TRUE

\* The section and the symbol at the cursors.
Current(s) == s.lists.work[s.at.i]
Through(s) == s.at.i > Len(s.lists.work)
Onward(s) == At(s.at.pc, s.at.i + 1, s.at.k)
Further(s) == At(s.at.pc, s.at.i, s.at.k + 1)

DrectveOf(text) ==
  [kind |-> "Custom", custom |-> <<".drectve">>, align |-> 1,
   size |-> Len(text), vsize |-> 0, symbols |-> << >>, relocs |-> << >>,
   linkOnce |-> FALSE]

Scanning(text, sym) == IF sym.dllExport THEN text \o <<"/EXPORT:">> \o sym.name ELSE text
Listing(text, ss) == IF text = << >> THEN ss ELSE Append(ss, DrectveOf(text))

AfterExports(ss, s) ==
  LET text == s.lists.directives
  IN  IF s.at.i > Len(ss)
      THEN Locals(At("check", 1, 1), Lists(text, Listing(text, ss)), s.tables, s.parts)
      ELSE IF s.at.k > Len(ss[s.at.i].symbols) THEN Turned(s)
      ELSE Locals(Further(s), Lists(Scanning(text, ss[s.at.i].symbols[s.at.k]), s.lists.work),
                  s.tables, s.parts)

\* The tables with another string table.
Interned(s, t) ==
  Named(t, s.tables.symIdx, s.tables.slots)
LongTodo(s) == (ExternalRefs(s.lists.work) \cap LongNames) \ DOMAIN s.tables.strtab.offsets

AfterNames(s) ==
  LET t == s.tables.strtab
  IN  IF Through(s)
      THEN IF LongTodo(s) = {} THEN Gone(s, "headers")
           ELSE Locals(s.at, s.lists, Interned(s, Intern(t, Least(LongTodo(s)))), s.parts)
      ELSE IF s.at.k > Len(Current(s).symbols) + 1 THEN Turned(s)
      ELSE Locals(Further(s), s.lists,
                  Interned(s, InternLong(t, NameAt(Current(s), s.at.k))), s.parts)

SlotIn(t, name, value, section, type, class, aux) ==
  [name |-> NameField(t, name), value |-> value, section |-> section,
   type |-> type, class |-> class, aux |-> aux]

HeadSlots(t, s, n) ==
  <<SlotIn(t, SectionName(s), 0, Int16(n), "NULL", "STATIC", IF s.linkOnce THEN 1 ELSE 0)>>
  \o (IF s.linkOnce THEN <<AuxSlot(s)>> ELSE << >>)

AfterHeaders(s) ==
  LET t == s.tables.strtab
  IN  IF Through(s) THEN Gone(s, "symbols")
      ELSE Locals(Onward(s), s.lists,
                  Named(InternLong(t, SectionName(Current(s))), s.tables.symIdx,
                          s.tables.slots \o HeadSlots(t, Current(s), s.at.i)),
                  s.parts)

\* EnterSymbol, on the tables alone.
Entering(tables, name, value, section, type, class) ==
  Named(InternLong(tables.strtab, name), Put(tables.symIdx, name, Len(tables.slots)),
          Append(tables.slots, SlotIn(tables.strtab, name, value, section, type, class, 0)))

Defining(tables, sym, n) ==
  Entering(tables, sym.name, sym.offset, Int16(n), Type(sym.kind), Class(sym.binding))
SymbolTodo(s) == ExternalRefs(s.lists.work) \ DOMAIN s.tables.symIdx

AfterSymbols(s) ==
  IF Through(s)
  THEN IF SymbolTodo(s) = {} THEN Gone(s, "relocs")
       ELSE Locals(s.at, s.lists,
                   Entering(s.tables, Least(SymbolTodo(s)), 0, 0, "NULL", "EXTERNAL"), s.parts)
  ELSE IF s.at.k > Len(Current(s).symbols) THEN Turned(s)
  ELSE Locals(Further(s), s.lists, Defining(s.tables, Current(s).symbols[s.at.k], s.at.i),
              s.parts)

RecordIn(a, idx, r) ==
  [offset |-> r.offset, sym |-> idx[r.symbol], type |-> RelocType(a, r.kind)]
RecordsIn(a, idx, rs) == [m \in DOMAIN rs |-> RecordIn(a, idx, rs[m])]

AfterRelocs(a, s) ==
  LET p == s.parts
  IN  IF Through(s)
      THEN Locals(At("layout", 1, 1), s.lists, s.tables,
                  Parts(p.recs, p.lay, 20 + 40 * Len(s.lists.work), p.out))
      ELSE Locals(Onward(s), s.lists, s.tables,
                  Parts(Append(p.recs, RecordsIn(a, s.tables.symIdx, Current(s).relocs)),
                        p.lay, p.pos, p.out))

\* The place of a section with bytes and n records, behind position from.
PlaceIn(s, from, n) ==
  LET at  == AlignUp(from, EffectiveAlign(s))
      end == at + s.size
  IN  [raw |-> at, relocs |-> IF n > 0 THEN end ELSE 0, count |-> n]
PassedIn(s, from, n) == AlignUp(from, EffectiveAlign(s)) + s.size + 10 * n

AfterLayout(s) ==
  LET p == s.parts
      n == Len(p.recs[s.at.i])
  IN  IF Through(s)
      THEN Locals(At("write", 1, 1), s.lists, s.tables,
                  Parts(p.recs, p.lay, p.pos,
                        [EmptyOut EXCEPT !.len = 20 + 40 * Len(s.lists.work)]))
      ELSE IF NoBits(Current(s))
      THEN Locals(Onward(s), s.lists, s.tables,
                  Parts(p.recs, Append(p.lay, NoPlace), p.pos, p.out))
      ELSE Locals(Onward(s), s.lists, s.tables,
                  Parts(p.recs, Append(p.lay, PlaceIn(Current(s), p.pos, n)),
                        PassedIn(Current(s), p.pos, n), p.out))

CodeIn(ss, lists, n) ==
  IF n > Len(ss) THEN lists.directives
  ELSE [b \in 1 .. lists.work[n].size |-> <<"code", n, b>>]

FieldIn(a, r, type) ==
  LET w == FieldWidth(type)
      v == IF Machine(a) = "AMD64" /\ type = 4 THEN r.addend + 4 ELSE r.addend
  IN  [offset |-> r.offset, width |-> w, value |-> IF w = 8 THEN v ELSE Int32(v)]

PatchedIn(a, code, rs, list) ==
  Patch(code, [m \in DOMAIN list |-> FieldIn(a, rs[m], list[m].type)])

\* The buffer once section s, with these records, is written at raw.
WrittenIn(buf, s, raw, code, list) ==
  LET placed == Emit(buf, Reach(buf.len, raw), s.size, code)
  IN  IF NoBits(s) THEN buf
      ELSE IF list = << >> THEN placed
      ELSE Emit(placed, 0, 10 * Len(list), list)

AfterWrite(a, ss, s) ==
  LET p    == s.parts
      n    == s.at.i
      code == PatchedIn(a, CodeIn(ss, s.lists, n), Current(s).relocs, p.recs[n])
  IN  Locals(Onward(s), s.lists, s.tables,
             Parts(p.recs, p.lay, p.pos,
                   WrittenIn(p.out, Current(s), p.lay[n].raw, code, p.recs[n])))

After(a, ss, s) ==
  CASE s.at.pc = "exports" -> AfterExports(ss, s)
    [] s.at.pc = "check"   -> Gone(s, "names")
    [] s.at.pc = "names"   -> AfterNames(s)
    [] s.at.pc = "headers" -> AfterHeaders(s)
    [] s.at.pc = "symbols" -> AfterSymbols(s)
    [] s.at.pc = "relocs"  -> AfterRelocs(a, s)
    [] s.at.pc = "layout"  -> AfterLayout(s)
    [] s.at.pc = "write"   -> AfterWrite(a, ss, s)

\* The states with which the build ends, and the outcome of a call there.
Stuck(a, s, r) == ~(r.symbol \in DOMAIN s.tables.symIdx /\ Supported(a, r.kind))

Ends(a, s) ==
  LET list == s.lists.work
  IN  \/ /\ s.at.pc = "check"
         /\ Len(list) >= Word16 \/ \E n \in DOMAIN list : Unnamed(list[n])
      \/ /\ s.at.pc = "relocs" /\ ~Through(s)
         /\ \E m \in DOMAIN Current(s).relocs : Stuck(a, s, Current(s).relocs[m])
      \/ /\ s.at.pc = "layout" /\ ~Through(s)
         /\ ~NoBits(Current(s)) /\ Len(s.parts.recs[s.at.i]) >= Word16
      \/ s.at.pc = "write" /\ Through(s)

Complaint(s) ==
  CASE s.at.pc = "check"  -> IF Len(s.lists.work) >= Word16 THEN "sections" ELSE "name"
    [] s.at.pc = "relocs" -> "relocation"
    [] s.at.pc = "layout" -> "relocations"

HeaderIn(t, s, place) ==
  [name |-> HeaderName(t, SectionName(s)), chars |-> SectionChars(s),
   size |-> Uint32(IF NoBits(s) THEN VirtualSize(s) ELSE s.size),
   raw |-> Uint32(place.raw), relocs |-> Uint32(place.relocs),
   count |-> Uint16(place.count)]

TablesIn(buf, at, list, t) ==
  LET syms == Emit(buf, Reach(buf.len, at), 18 * Len(list), list)
  IN  Emit(syms, 0, 4 + Len(t.data), t.data)

ImageIn(a, s) ==
  LET list == s.lists.work
      t    == s.tables
      p    == s.parts
  IN  [machine |-> Machine(a), count |-> Uint16(Len(list)), symtab |-> Uint32(p.pos),
       nsyms |-> Len(t.slots),
       shdrs |-> [n \in DOMAIN list |-> HeaderIn(t.strtab, list[n], p.lay[n])],
       chunks |-> TablesIn(p.out, p.pos, t.slots, t.strtab).chunks, extent |-> p.pos]

\* The outcome of a call with this input that ends in s, of which the writer
\* took w if there was something to take.
OutcomeIn(input, s, w) ==
  IF s.at.pc = "write"
  THEN [status |-> "built", input |-> input, image |-> ImageIn(input.opts.arch, s),
        written |-> w]
  ELSE [status |-> "failed", input |-> input, error |-> Complaint(s), written |-> "none"]

\* f[0 .. n] is the build's way from its start.
Trace(a, ss, f, n) ==
  /\ f[0] = Waiting("exports")
  /\ \A m \in 0 .. n - 1 : ~Ends(a, f[m]) /\ f[m + 1] = After(a, ss, f[m])

Reaches(a, ss, s) == \E n \in Nat : \E f : Trace(a, ss, f, n) /\ f[n] = s

\* Where the build is, and where the last call was when it returned.
Replays ==
  /\ pc = "idle" => State = Waiting("idle")
  /\ pc # "idle" => Reaches(opts.arch, sections, State)
  /\ last # NoCall =>
       /\ last.input.opts.arch = opts.arch
       /\ \E s, w : /\ Reaches(opts.arch, last.input.sections, s) /\ Ends(opts.arch, s)
                    /\ last = OutcomeIn(last.input, s, w)

LEMMA TracesAgree ==
  ASSUME NEW a, NEW ss, NEW n \in Nat, NEW f, Trace(a, ss, f, n), NEW g, Trace(a, ss, g, n)
  PROVE  \A m \in 0 .. n : f[m] = g[m]
<1> DEFINE S == {m \in Nat : m <= n => f[m] = g[m]}
<1>1. 0 \in S
  BY DEF Trace
<1>2. ASSUME NEW m \in Nat, m \in S PROVE m + 1 \in S
  <2> SUFFICES ASSUME m + 1 <= n PROVE f[m + 1] = g[m + 1]
    OBVIOUS
  <2>1. f[m] = g[m] /\ m \in 0 .. n - 1
    BY <1>2
  <2>2. f[m + 1] = After(a, ss, f[m]) /\ g[m + 1] = After(a, ss, g[m])
    BY <2>1 DEF Trace
  <2>3. QED
    BY <2>1, <2>2
<1>3. Nat \subseteq S
  <2> HIDE DEF S
  <2>1. QED
    BY <1>1, <1>2, Counting
<1>4. QED
  BY <1>3

\* Of two traces that both end where the build ends, none goes on longer.
LEMMA OneEnd ==
  ASSUME NEW a, NEW ss, NEW n \in Nat, NEW m \in Nat, n <= m,
         NEW f, Trace(a, ss, f, n), NEW g, Trace(a, ss, g, m), Ends(a, f[n])
  PROVE  f[n] = g[m]
<1>1. Trace(a, ss, g, n)
  BY DEF Trace
<1>2. f[n] = g[n]
  BY <1>1, TracesAgree
<1>3. CASE n < m
  <2>1. ~Ends(a, g[n])
    BY <1>3 DEF Trace
  <2>2. QED
    BY <1>2, <2>1
<1>4. QED
  BY <1>2, <1>3

LEMMA EndsMeet ==
  ASSUME NEW a, NEW ss, NEW s, NEW t, Reaches(a, ss, s), Reaches(a, ss, t), Ends(a, s), Ends(a, t)
  PROVE  s = t
<1>1. PICK n, f : n \in Nat /\ Trace(a, ss, f, n) /\ f[n] = s
  BY DEF Reaches
<1>2. PICK m, g : m \in Nat /\ Trace(a, ss, g, m) /\ g[m] = t
  BY DEF Reaches
<1>3. CASE n <= m
  BY <1>1, <1>2, <1>3, OneEnd
<1>4. CASE m <= n
  BY <1>1, <1>2, <1>4, OneEnd
<1>5. QED
  BY <1>1, <1>2, <1>3, <1>4

LEMMA ReachesNext ==
  ASSUME NEW a, NEW ss, NEW s, NEW t, Reaches(a, ss, s), ~Ends(a, s), t = After(a, ss, s)
  PROVE  Reaches(a, ss, t)
<1>1. PICK n, f : n \in Nat /\ Trace(a, ss, f, n) /\ f[n] = s
  BY DEF Reaches
<1> DEFINE g == [m \in 0 .. n + 1 |-> IF m <= n THEN f[m] ELSE t]
<1>2. (\A m \in 0 .. n : g[m] = f[m]) /\ g[n + 1] = t
  BY <1>1
<1> HIDE DEF g
<1>3. g[0] = Waiting("exports")
  BY <1>1, <1>2 DEF Trace
<1>4. ASSUME NEW m \in 0 .. n PROVE ~Ends(a, g[m]) /\ g[m + 1] = After(a, ss, g[m])
  <2>1. CASE m < n
    <3>1. g[m] = f[m] /\ g[m + 1] = f[m + 1] /\ m \in 0 .. n - 1
      BY <1>1, <1>2, <2>1
    <3>2. QED
      BY <1>1, <3>1 DEF Trace
  <2>2. CASE m = n
    BY <1>1, <1>2, <2>2
  <2>3. QED
    BY <1>1, <2>1, <2>2
<1>5. Trace(a, ss, g, n + 1)
  BY <1>1, <1>3, <1>4 DEF Trace
<1>6. QED
  BY <1>1, <1>2, <1>5 DEF Reaches

\* What is where in State.
LEMMA ReadState ==
  /\ State.at = At(pc, i, k) /\ State.lists = Lists(directives, work)
  /\ State.tables = Named(strtab, symIdx, slots) /\ State.parts = Parts(recs, lay, pos, out)
  /\ State.at.pc = pc /\ State.at.i = i /\ State.at.k = k
  /\ State.lists.directives = directives /\ State.lists.work = work
  /\ State.tables.strtab = strtab /\ State.tables.symIdx = symIdx /\ State.tables.slots = slots
  /\ State.parts.recs = recs /\ State.parts.lay = lay
  /\ State.parts.pos = pos /\ State.parts.out = out
BY DEF State, Locals, At, Lists, Named, Parts

LEMMA ReadCursor ==
  /\ Current(State) = work[i] /\ (Through(State) <=> i > Len(work))
  /\ Onward(State) = At(pc, i + 1, k) /\ Further(State) = At(pc, i, k + 1)
  /\ Turned(State) = Locals(At(pc, i + 1, 1), State.lists, State.tables, State.parts)
BY ReadState DEF Current, Through, Onward, Further, Turned

\* What an action does to the locals is what After says.
LEMMA ExportsAfter ==
  ASSUME IInv, ScanSymbol \/ ScanNextSection \/ ScanDone
  PROVE  State' = AfterExports(sections, State)
<1>1. i \in Nat /\ k \in Nat /\ Len(sections) \in Nat
  BY PlaceType
<1>2. CASE ScanSymbol
  <2>1. i <= Len(sections) /\ k <= Len(sections[i].symbols)
    BY <1>2 DEF ScanSymbol
  <2>2. ~(i > Len(sections)) /\ ~(k > Len(sections[i].symbols))
    BY <1>1, <2>1, PlaceType
  <2>3. directives' = Scanning(directives, sections[i].symbols[k])
    BY <1>2 DEF ScanSymbol, Scanning
  <2>4. AfterExports(sections, State) =
          Locals(At(pc, i, k + 1), Lists(directives', work), State.tables, State.parts)
    BY ReadState, ReadCursor, <2>2, <2>3 DEF AfterExports
  <2>5. QED
    BY ReadState, <1>2, <2>4 DEF ScanSymbol, State, names, layout
<1>3. CASE ScanNextSection
  <2>1. ~(i > Len(sections)) /\ k > Len(sections[i].symbols)
    BY <1>1, <1>3 DEF ScanNextSection
  <2>2. AfterExports(sections, State) = Turned(State)
    BY ReadState, <2>1 DEF AfterExports
  <2>3. QED
    BY ReadState, <1>3, <2>2 DEF ScanNextSection, NextSection, Turned, State, names, layout
<1>4. CASE ScanDone
  <2>1. work' = Listing(directives, sections)
    BY <1>4 DEF ScanDone, Drectve, DrectveOf, Listing
  <2>2. AfterExports(sections, State) =
          Locals(At("check", 1, 1), Lists(directives, work'), State.tables, State.parts)
    BY ReadState, <1>4, <2>1 DEF AfterExports, ScanDone
  <2>3. QED
    BY ReadState, <1>4, <2>2 DEF ScanDone, Goto, State, names, layout
<1>5. QED
  BY <1>2, <1>3, <1>4

\* At most one undefined name comes first: the Go map they come out of leaves
\* no choice.
LEMMA OneLeast ==
  ASSUME IInv, Answers, pc \notin {"idle", "exports"},
         NEW todo, todo \subseteq ExternalRefs(work), NEW name \in First(todo)
  PROVE  name = Least(todo)
<1>1. \A a, b \in First(todo) : a = b
  BY Ranked DEF First
<1>2. Least(todo) \in First(todo)
  BY DEF Least
<1>3. QED
  BY <1>1, <1>2

LEMMA NamesAfter ==
  ASSUME IInv, Answers, pc = "names",
         InternName \/ InternNextSection \/ InternExtern \/ NamesDone
  PROVE  State' = AfterNames(State)
<1>1. i \in Nat /\ k \in Nat /\ Len(work) \in Nat
  BY PlaceType
<1>2. CASE InternName
  <2>1. i <= Len(work) /\ k <= Len(work[i].symbols) + 1
    BY <1>2 DEF InternName
  <2>2. ~(i > Len(work)) /\ ~(k > Len(work[i].symbols) + 1)
    BY <1>1, <2>1, PlaceType
  <2>3. strtab' = InternLong(strtab, NameAt(work[i], k))
    BY <1>2 DEF InternName
  <2>4. AfterNames(State) =
          Locals(At(pc, i, k + 1), State.lists, Named(strtab', symIdx, slots), State.parts)
    BY ReadState, ReadCursor, <2>2, <2>3 DEF AfterNames, Interned
  <2>5. QED
    BY ReadState, <1>2, <2>4 DEF InternName, State, names, layout
<1>3. CASE InternNextSection
  <2>1. ~(i > Len(work)) /\ k > Len(work[i].symbols) + 1
    BY <1>1, <1>3 DEF InternNextSection
  <2>2. AfterNames(State) = Turned(State)
    BY ReadState, ReadCursor, <2>1 DEF AfterNames
  <2>3. QED
    BY ReadState, ReadCursor, <1>3, <2>2 DEF InternNextSection, NextSection, State, names, layout
<1>4. CASE InternExtern
  <2>1. PICK todo : todo = LongTodo(State)
    OBVIOUS
  <2>2. todo = (ExternalRefs(work) \cap LongNames) \ DOMAIN strtab.offsets
    BY <2>1, ReadState DEF LongTodo
  <2>3. PICK name \in First(todo) : strtab' = Intern(strtab, name)
    BY <1>4, <2>2 DEF InternExtern
  <2>4. name = Least(todo)
    BY <2>2, OneLeast
  <2>5. i > Len(work) /\ todo # {}
    BY <1>4, <2>2 DEF InternExtern
  <2>6. AfterNames(State) =
          Locals(State.at, State.lists, Named(strtab', symIdx, slots), State.parts)
    BY ReadState, ReadCursor, <2>1, <2>3, <2>4, <2>5 DEF AfterNames, Interned
  <2>7. QED
    BY ReadState, <1>4, <2>6 DEF InternExtern, State, layout
<1>5. CASE NamesDone
  <2>1. LongTodo(State) = {} /\ i > Len(work)
    BY <1>5, ReadState DEF NamesDone, LongTodo
  <2>2. AfterNames(State) = Gone(State, "headers")
    BY ReadCursor, <2>1 DEF AfterNames
  <2>3. QED
    BY ReadState, <1>5, <2>2 DEF NamesDone, Goto, Gone, State, names, layout
<1>6. QED
  BY <1>2, <1>3, <1>4, <1>5

LEMMA HeadersAfter ==
  ASSUME IInv, pc = "headers", SectionSymbol \/ SectionSymbolsDone
  PROVE  State' = AfterHeaders(State)
<1>1. i \in Nat /\ Len(work) \in Nat
  BY PlaceType
<1>2. CASE SectionSymbol
  <2>1. ~(i > Len(work))
    BY <1>1, <1>2 DEF SectionSymbol
  <2>2. strtab' = InternLong(strtab, SectionName(work[i]))
    BY <1>2 DEF SectionSymbol
  <2>3. slots' = slots \o HeadSlots(strtab, work[i], i)
    <3>1. PICK head, tail :
            /\ head = <<Slot(SectionName(work[i]), 0, Int16(i), "NULL", "STATIC",
                             IF work[i].linkOnce THEN 1 ELSE 0)>>
            /\ tail = IF work[i].linkOnce THEN <<AuxSlot(work[i])>> ELSE << >>
      OBVIOUS
    <3>2. slots' = slots \o head \o tail
      BY <1>2, <3>1 DEF SectionSymbol
    <3>3. HeadSlots(strtab, work[i], i) = head \o tail
      BY <3>1 DEF HeadSlots, SlotIn, Slot
    <3>4. QED
      BY <3>1, <3>2, <3>3
  <2>4. AfterHeaders(State) =
          Locals(At(pc, i + 1, k), State.lists, Named(strtab', symIdx, slots'), State.parts)
    BY ReadState, ReadCursor, <2>1, <2>2, <2>3 DEF AfterHeaders
  <2>5. QED
    BY ReadState, <1>2, <2>4 DEF SectionSymbol, State, layout
<1>3. CASE SectionSymbolsDone
  <2>1. i > Len(work)
    BY <1>3 DEF SectionSymbolsDone
  <2>2. AfterHeaders(State) = Gone(State, "symbols")
    BY ReadCursor, <2>1 DEF AfterHeaders
  <2>3. QED
    BY ReadState, <1>3, <2>2 DEF SectionSymbolsDone, Goto, Gone, State, names, layout
<1>4. QED
  BY <1>2, <1>3

LEMMA EnteringIs ==
  ASSUME NEW name, NEW value, NEW section, NEW type, NEW class,
         EnterSymbol(name, value, section, type, class)
  PROVE  Named(strtab', symIdx', slots')
           = Entering(State.tables, name, value, section, type, class)
<1>1. Entering(State.tables, name, value, section, type, class)
        = Named(InternLong(strtab, name), Put(symIdx, name, Len(slots)),
                Append(slots, Slot(name, value, section, type, class, 0)))
  BY ReadState DEF Entering, SlotIn, Slot
<1>2. QED
  BY <1>1 DEF EnterSymbol

LEMMA SymbolsAfter ==
  ASSUME IInv, Answers, pc = "symbols",
         DefineSymbol \/ DefineNextSection \/ UndefinedSymbol \/ SymbolsDone
  PROVE  State' = AfterSymbols(State)
<1>1. i \in Nat /\ k \in Nat /\ Len(work) \in Nat
  BY PlaceType
<1>2. CASE DefineSymbol
  <2>1. i <= Len(work) /\ k <= Len(work[i].symbols)
    BY <1>2 DEF DefineSymbol
  <2>2. ~(i > Len(work)) /\ ~(k > Len(work[i].symbols))
    BY <1>1, <2>1, PlaceType
  <2>3. PICK sym : sym = work[i].symbols[k]
    OBVIOUS
  <2>4. EnterSymbol(sym.name, sym.offset, Int16(i), Type(sym.kind), Class(sym.binding))
    BY <1>2, <2>3 DEF DefineSymbol
  <2>5. Named(strtab', symIdx', slots') = Defining(State.tables, sym, i)
    BY <2>4, EnteringIs DEF Defining
  <2>6. AfterSymbols(State) =
          Locals(At(pc, i, k + 1), State.lists, Named(strtab', symIdx', slots'), State.parts)
    BY ReadState, ReadCursor, <2>2, <2>3, <2>5 DEF AfterSymbols
  <2>7. QED
    BY ReadState, <1>2, <2>6 DEF DefineSymbol, State, layout
<1>3. CASE DefineNextSection
  <2>1. ~(i > Len(work)) /\ k > Len(work[i].symbols)
    BY <1>1, <1>3 DEF DefineNextSection
  <2>2. AfterSymbols(State) = Turned(State)
    BY ReadState, ReadCursor, <2>1 DEF AfterSymbols
  <2>3. QED
    BY ReadState, ReadCursor, <1>3, <2>2 DEF DefineNextSection, NextSection, State, names, layout
<1>4. CASE UndefinedSymbol
  <2>1. PICK todo : todo = SymbolTodo(State)
    OBVIOUS
  <2>2. todo = ExternalRefs(work) \ DOMAIN symIdx
    BY <2>1, ReadState DEF SymbolTodo
  <2>3. PICK name \in First(todo) : EnterSymbol(name, 0, 0, "NULL", "EXTERNAL")
    BY <1>4, <2>2 DEF UndefinedSymbol
  <2>4. name = Least(todo)
    BY <2>2, OneLeast
  <2>5. i > Len(work) /\ todo # {}
    BY <1>4, <2>2 DEF UndefinedSymbol
  <2>6. Named(strtab', symIdx', slots')
          = Entering(State.tables, name, 0, 0, "NULL", "EXTERNAL")
    BY <2>3, EnteringIs
  <2>7. AfterSymbols(State) =
          Locals(State.at, State.lists, Named(strtab', symIdx', slots'), State.parts)
    BY ReadCursor, <2>1, <2>4, <2>5, <2>6 DEF AfterSymbols
  <2>8. QED
    BY ReadState, <1>4, <2>7 DEF UndefinedSymbol, State, layout
<1>5. CASE SymbolsDone
  <2>1. SymbolTodo(State) = {} /\ i > Len(work)
    BY <1>5, ReadState DEF SymbolsDone, SymbolTodo
  <2>2. AfterSymbols(State) = Gone(State, "relocs")
    BY ReadCursor, <2>1 DEF AfterSymbols
  <2>3. QED
    BY ReadState, <1>5, <2>2 DEF SymbolsDone, Goto, Gone, State, names, layout
<1>6. QED
  BY <1>2, <1>3, <1>4, <1>5

LEMMA RelocsAfter ==
  ASSUME IInv, pc = "relocs", ConvertSection \/ RelocsDone
  PROVE  State' = AfterRelocs(opts.arch, State)
<1>1. i \in Nat /\ Len(work) \in Nat
  BY PlaceType
<1>2. CASE ConvertSection
  <2>1. ~(i > Len(work))
    BY <1>1, <1>2 DEF ConvertSection
  <2>2. PICK rs : rs = work[i].relocs
    OBVIOUS
  <2>3. [m \in DOMAIN rs |-> Record(rs[m])] = RecordsIn(opts.arch, symIdx, rs)
    BY DEF RecordsIn, RecordIn, Record
  <2>4. recs' = Append(recs, RecordsIn(opts.arch, symIdx, rs))
    BY <1>2, <2>2, <2>3 DEF ConvertSection
  <2>5. AfterRelocs(opts.arch, State) =
          Locals(At(pc, i + 1, k), State.lists, State.tables, Parts(recs', lay, pos, out))
    BY ReadState, ReadCursor, <2>1, <2>2, <2>4 DEF AfterRelocs
  <2>6. QED
    BY ReadState, <1>2, <2>5 DEF ConvertSection, State, names, layout
<1>3. CASE RelocsDone
  <2>1. i > Len(work) /\ pos' = 20 + 40 * Len(work)
    BY <1>3 DEF RelocsDone
  <2>2. AfterRelocs(opts.arch, State) =
          Locals(At("layout", 1, 1), State.lists, State.tables, Parts(recs, lay, pos', out))
    BY ReadState, ReadCursor, <2>1 DEF AfterRelocs
  <2>3. QED
    BY ReadState, <1>3, <2>2 DEF RelocsDone, Goto, State, names
<1>4. QED
  BY <1>2, <1>3

LEMMA LayoutAfter ==
  ASSUME IInv, pc = "layout", SkipSection \/ PlaceSection \/ LayoutDone
  PROVE  State' = AfterLayout(State)
<1>1. i \in Nat /\ Len(work) \in Nat
  BY PlaceType
<1>2. CASE SkipSection
  <2>1. ~(i > Len(work)) /\ NoBits(work[i]) /\ lay' = Append(lay, NoPlace)
    BY <1>1, <1>2 DEF SkipSection
  <2>2. AfterLayout(State) =
          Locals(At(pc, i + 1, k), State.lists, State.tables, Parts(recs, lay', pos, out))
    BY ReadState, ReadCursor, <2>1 DEF AfterLayout
  <2>3. QED
    BY ReadState, <1>2, <2>2 DEF SkipSection, State, names
<1>3. CASE PlaceSection
  <2>1. ~(i > Len(work)) /\ ~NoBits(work[i])
    BY <1>1, <1>3 DEF PlaceSection
  <2>2. /\ lay' = Append(lay, PlaceIn(work[i], pos, Len(recs[i])))
        /\ pos' = PassedIn(work[i], pos, Len(recs[i]))
    BY <1>3 DEF PlaceSection, PlaceIn, PassedIn
  <2>3. AfterLayout(State) =
          Locals(At(pc, i + 1, k), State.lists, State.tables, Parts(recs, lay', pos', out))
    BY ReadState, ReadCursor, <2>1, <2>2 DEF AfterLayout
  <2>4. QED
    BY ReadState, <1>3, <2>3 DEF PlaceSection, State, names
<1>4. CASE LayoutDone
  <2>1. i > Len(work) /\ out' = [EmptyOut EXCEPT !.len = 20 + 40 * Len(work)]
    BY <1>4 DEF LayoutDone
  <2>2. AfterLayout(State) =
          Locals(At("write", 1, 1), State.lists, State.tables, Parts(recs, lay, pos, out'))
    BY ReadState, ReadCursor, <2>1 DEF AfterLayout
  <2>3. QED
    BY ReadState, <1>4, <2>2 DEF LayoutDone, Goto, State, names
<1>5. QED
  BY <1>2, <1>3, <1>4

LEMMA WriteAfter ==
  ASSUME IInv, pc = "write", WriteSection
  PROVE  State' = AfterWrite(opts.arch, sections, State)
<1>1. i \in Nat /\ Len(work) \in Nat /\ i <= Len(work)
  BY PlaceType DEF WriteSection
<1>2. PICK code : code = PatchedIn(opts.arch, CodeIn(sections, State.lists, i), work[i].relocs, recs[i])
  OBVIOUS
<1>3. code = PatchedCode(i)
  <2>1. CodeIn(sections, State.lists, i) = Code(i)
    BY ReadState DEF CodeIn, Code
  <2>2. \A m : FieldIn(opts.arch, work[i].relocs[m], recs[i][m].type) = Field(i, m)
    BY DEF FieldIn, Field
  <2>3. QED
    BY <1>2, <2>1, <2>2 DEF PatchedIn, PatchedCode
<1>4. out' = WrittenIn(out, work[i], lay[i].raw, code, recs[i])
  BY <1>3 DEF WriteSection, WrittenIn
<1>5. AfterWrite(opts.arch, sections, State) =
        Locals(At(pc, i + 1, k), State.lists, State.tables, Parts(recs, lay, pos, out'))
  BY ReadState, ReadCursor, <1>2, <1>4 DEF AfterWrite
<1>6. QED
  BY ReadState, <1>5 DEF WriteSection, State, names

Finishing == TooManySections \/ UnnamedSection \/ RelocFails \/ TooManyRelocs \/ Deliver

LEMMA EndsHere ==
  Ends(opts.arch, State) <=>
    \/ pc = "check" /\ (Len(work) >= Word16 \/ \E n \in DOMAIN work : Unnamed(work[n]))
    \/ pc = "relocs" /\ ~(i > Len(work)) /\ \E m \in DOMAIN work[i].relocs : ~RelocOK(work[i].relocs[m])
    \/ pc = "layout" /\ ~(i > Len(work)) /\ ~NoBits(work[i]) /\ Len(recs[i]) >= Word16
    \/ pc = "write" /\ i > Len(work)
<1>1. \A r : Stuck(opts.arch, State, r) <=> ~RelocOK(r)
  BY ReadState DEF Stuck, RelocOK
<1>2. QED
  BY <1>1, ReadState, ReadCursor DEF Ends

LEMMA GoesOn ==
  ASSUME IInv, Answers, Build, ~Finishing
  PROVE  /\ State' = After(opts.arch, sections, State) /\ ~Ends(opts.arch, State)
         /\ pc # "idle" /\ pc' # "idle" /\ UNCHANGED <<file, last>>
<1>1. /\ i \in Nat /\ Len(work) \in Nat /\ Word16 \in Nat
      /\ \A n \in DOMAIN recs : Len(recs[n]) \in Nat
  BY PlaceType, PlaceFields, WidthAssumption DEF IInv, TypeOK
<1>2. CASE ScanSymbol \/ ScanNextSection \/ ScanDone
  <2>1. pc = "exports"
    BY <1>2 DEF ScanSymbol, ScanNextSection, ScanDone
  <2>2. State' = After(opts.arch, sections, State)
    BY <1>2, <2>1, ReadState, ExportsAfter DEF After
  <2>3. ~Ends(opts.arch, State)
    BY <2>1, EndsHere
  <2>4. pc' # "idle" /\ UNCHANGED <<file, last>>
    BY <1>2, <2>1 DEF ScanSymbol, ScanNextSection, ScanDone, Goto, NextSection
  <2>5. QED
    BY <2>1, <2>2, <2>3, <2>4
<1>3. CASE Accept
  <2>1. pc = "check" /\ Len(work) < Word16 /\ \A n \in DOMAIN work : ~Unnamed(work[n])
    BY <1>3 DEF Accept
  <2>2. State' = After(opts.arch, sections, State)
    BY <1>3, <2>1, ReadState DEF After, Accept, Goto, Gone, State, names, layout
  <2>3. ~Ends(opts.arch, State)
    BY <1>1, <2>1, EndsHere
  <2>4. pc' # "idle" /\ UNCHANGED <<file, last>>
    BY <1>3 DEF Accept, Goto
  <2>5. QED
    BY <2>1, <2>2, <2>3, <2>4
<1>4. CASE InternName \/ InternNextSection \/ InternExtern \/ NamesDone
  <2>1. pc = "names"
    BY <1>4 DEF InternName, InternNextSection, InternExtern, NamesDone
  <2>2. State' = After(opts.arch, sections, State)
    BY <1>4, <2>1, ReadState, NamesAfter DEF After
  <2>3. ~Ends(opts.arch, State)
    BY <2>1, EndsHere
  <2>4. pc' # "idle" /\ UNCHANGED <<file, last>>
    BY <1>4, <2>1 DEF InternName, InternNextSection, InternExtern, NamesDone, Goto, NextSection
  <2>5. QED
    BY <2>1, <2>2, <2>3, <2>4
<1>5. CASE SectionSymbol \/ SectionSymbolsDone
  <2>1. pc = "headers"
    BY <1>5 DEF SectionSymbol, SectionSymbolsDone
  <2>2. State' = After(opts.arch, sections, State)
    BY <1>5, <2>1, ReadState, HeadersAfter DEF After
  <2>3. ~Ends(opts.arch, State)
    BY <2>1, EndsHere
  <2>4. pc' # "idle" /\ UNCHANGED <<file, last>>
    BY <1>5, <2>1 DEF SectionSymbol, SectionSymbolsDone, Goto
  <2>5. QED
    BY <2>1, <2>2, <2>3, <2>4
<1>6. CASE DefineSymbol \/ DefineNextSection \/ UndefinedSymbol \/ SymbolsDone
  <2>1. pc = "symbols"
    BY <1>6 DEF DefineSymbol, DefineNextSection, UndefinedSymbol, SymbolsDone
  <2>2. State' = After(opts.arch, sections, State)
    BY <1>6, <2>1, ReadState, SymbolsAfter DEF After
  <2>3. ~Ends(opts.arch, State)
    BY <2>1, EndsHere
  <2>4. pc' # "idle" /\ UNCHANGED <<file, last>>
    BY <1>6, <2>1 DEF DefineSymbol, DefineNextSection, UndefinedSymbol, SymbolsDone, Goto,
       NextSection
  <2>5. QED
    BY <2>1, <2>2, <2>3, <2>4
<1>7. CASE ConvertSection \/ RelocsDone
  <2>1. pc = "relocs"
    BY <1>7 DEF ConvertSection, RelocsDone
  <2>2. State' = After(opts.arch, sections, State)
    BY <1>7, <2>1, ReadState, RelocsAfter DEF After
  <2>3. i > Len(work) \/ \A m \in DOMAIN work[i].relocs : RelocOK(work[i].relocs[m])
    BY <1>7 DEF ConvertSection, RelocsDone
  <2>4. ~Ends(opts.arch, State)
    BY <2>1, <2>3, EndsHere
  <2>5. pc' # "idle" /\ UNCHANGED <<file, last>>
    BY <1>7, <2>1 DEF ConvertSection, RelocsDone, Goto
  <2>6. QED
    BY <2>1, <2>2, <2>4, <2>5
<1>8. CASE SkipSection \/ PlaceSection \/ LayoutDone
  <2>1. pc = "layout"
    BY <1>8 DEF SkipSection, PlaceSection, LayoutDone
  <2>2. State' = After(opts.arch, sections, State)
    BY <1>8, <2>1, ReadState, LayoutAfter DEF After
  <2>3. i > Len(work) \/ NoBits(work[i]) \/ Len(recs[i]) < Word16
    BY <1>8 DEF SkipSection, PlaceSection, LayoutDone
  <2>4. i > Len(work) \/ Len(recs[i]) \in Nat
    BY <1>1, <2>1, PlaceType DEF IInv, Shape
  <2>5. ~Ends(opts.arch, State)
    BY <1>1, <2>1, <2>3, <2>4, EndsHere
  <2>6. pc' # "idle" /\ UNCHANGED <<file, last>>
    BY <1>8, <2>1 DEF SkipSection, PlaceSection, LayoutDone, Goto
  <2>7. QED
    BY <2>1, <2>2, <2>5, <2>6
<1>9. CASE WriteSection
  <2>1. pc = "write" /\ ~(i > Len(work))
    BY <1>1, <1>9 DEF WriteSection
  <2>2. State' = After(opts.arch, sections, State)
    BY <1>9, <2>1, ReadState, WriteAfter DEF After
  <2>3. ~Ends(opts.arch, State)
    BY <2>1, EndsHere
  <2>4. pc' # "idle" /\ UNCHANGED <<file, last>>
    BY <1>9, <2>1 DEF WriteSection
  <2>5. QED
    BY <2>1, <2>2, <2>3, <2>4
<1>10. QED
  BY <1>2, <1>3, <1>4, <1>5, <1>6, <1>7, <1>8, <1>9 DEF Build, Finishing

LEMMA FinishesWith ==
  ASSUME IInv, Finishing
  PROVE  /\ Ends(opts.arch, State) /\ pc # "idle" /\ UNCHANGED file
         /\ State' = Waiting("idle")
         /\ last'.input = Input /\ \E w : last' = OutcomeIn(Input, State, w)
<1>1. i \in Nat /\ Len(work) \in Nat /\ Word16 \in Nat
  BY PlaceType, WidthAssumption
<1>2. ASSUME NEW outcome, Return(outcome)
      PROVE  State' = Waiting("idle") /\ UNCHANGED file /\ last' = outcome
  BY <1>2 DEF Return, State, Waiting
<1>3. ASSUME NEW why, Fail(why), why = Complaint(State), pc # "write"
      PROVE  /\ UNCHANGED file /\ State' = Waiting("idle")
             /\ last'.input = Input /\ \E w : last' = OutcomeIn(Input, State, w)
  <2>1. last' = [status |-> "failed", input |-> Input, error |-> why, written |-> "none"]
    BY <1>2, <1>3 DEF Fail
  <2>2. last' = OutcomeIn(Input, State, "none")
    BY <1>3, <2>1, ReadState DEF OutcomeIn
  <2>3. State' = Waiting("idle") /\ UNCHANGED file
    BY <1>2, <1>3 DEF Fail
  <2>4. QED
    BY <2>1, <2>2, <2>3
<1>4. CASE TooManySections
  <2>1. pc = "check" /\ Len(work) >= Word16 /\ Fail("sections")
    BY <1>4 DEF TooManySections
  <2>2. Complaint(State) = "sections"
    BY <2>1, ReadState DEF Complaint
  <2>3. QED
    BY <1>3, <2>1, <2>2, EndsHere
<1>5. CASE UnnamedSection
  <2>1. /\ pc = "check" /\ Len(work) < Word16 /\ Fail("name")
        /\ \E n \in DOMAIN work : Unnamed(work[n])
    BY <1>5 DEF UnnamedSection
  <2>2. Complaint(State) = "name"
    BY <1>1, <2>1, ReadState DEF Complaint
  <2>3. QED
    BY <1>3, <2>1, <2>2, EndsHere
<1>6. CASE RelocFails
  <2>1. /\ pc = "relocs" /\ ~(i > Len(work)) /\ Fail("relocation")
        /\ \E m \in DOMAIN work[i].relocs : ~RelocOK(work[i].relocs[m])
    BY <1>1, <1>6 DEF RelocFails
  <2>2. Complaint(State) = "relocation"
    BY <2>1, ReadState DEF Complaint
  <2>3. QED
    BY <1>3, <2>1, <2>2, EndsHere
<1>7. CASE TooManyRelocs
  <2>1. /\ pc = "layout" /\ ~(i > Len(work)) /\ Fail("relocations")
        /\ ~NoBits(work[i]) /\ Len(recs[i]) >= Word16
    BY <1>1, <1>7 DEF TooManyRelocs
  <2>2. Complaint(State) = "relocations"
    BY <2>1, ReadState DEF Complaint
  <2>3. QED
    BY <1>3, <2>1, <2>2, EndsHere
<1>8. CASE Deliver
  <2>1. pc = "write" /\ i > Len(work)
    BY <1>8 DEF Deliver
  <2>2. PICK w : Return([status |-> "built", input |-> Input, image |-> Image, written |-> w])
    BY <1>8 DEF Deliver
  <2>3. Image = ImageIn(opts.arch, State)
    <3>1. \A n : HeaderIn(strtab, work[n], lay[n]) = Header(n)
      BY DEF HeaderIn, Header
    <3>2. TablesIn(out, pos, slots, strtab) = Tables
      BY DEF TablesIn, Tables
    <3>3. QED
      BY <3>1, <3>2, ReadState DEF Image, ImageIn
  <2>4. last' = [status |-> "built", input |-> Input, image |-> Image, written |-> w]
    BY <1>2, <2>2
  <2>5. Input.opts.arch = opts.arch
    BY DEF Input
  <2>6. last' = OutcomeIn(Input, State, w)
    BY <2>1, <2>3, <2>4, <2>5, ReadState DEF OutcomeIn
  <2>7. last'.input = Input
    BY <2>4
  <2>8. State' = Waiting("idle") /\ UNCHANGED file
    BY <1>2, <2>2
  <2>9. QED
    BY <2>1, <2>6, <2>7, <2>8, EndsHere
<1>9. QED
  BY <1>4, <1>5, <1>6, <1>7, <1>8 DEF Finishing

LEMMA InitReplays == Init => Replays
<1> SUFFICES ASSUME Init PROVE Replays
  OBVIOUS
<1>1. State = Waiting("idle")
  BY DEF Init, State, Waiting
<1>2. QED
  BY <1>1 DEF Init, Replays

\* A call starts from the same locals as every other.
LEMMA StartReplays ==
  ASSUME Replays, WriteTo
  PROVE  Reaches(opts.arch, sections, State') /\ UNCHANGED <<file, last>> /\ pc' # "idle"
<1>1. /\ pc = "idle" /\ pc' = "exports" /\ UNCHANGED <<file, last>>
      /\ UNCHANGED <<i, k, directives, work, strtab, symIdx, slots, recs, lay, pos, out>>
  BY DEF WriteTo, names, layout
<1>2. State = Waiting("idle")
  BY <1>1 DEF Replays
<1>3. /\ State.lists = Waiting("idle").lists /\ State.tables = Waiting("idle").tables
      /\ State.parts = Waiting("idle").parts /\ i = 1 /\ k = 1
  BY <1>2, ReadState DEF Waiting, Locals, At
<1>4. State' = Locals(At("exports", i, k), State.lists, State.tables, State.parts)
  BY <1>1, ReadState DEF State
<1>5. /\ Waiting("idle").lists = Lists(<< >>, << >>)
      /\ Waiting("idle").tables = Named(NewTable, EmptyMap, << >>)
      /\ Waiting("idle").parts = Parts(<< >>, << >>, 0, EmptyOut)
  BY DEF Waiting, Locals
<1>6. State' = Waiting("exports")
  BY <1>3, <1>4, <1>5 DEF Waiting
<1> DEFINE f == [m \in 0 .. 0 |-> Waiting("exports")]
<1>7. Trace(opts.arch, sections, f, 0) /\ f[0] = Waiting("exports")
  BY DEF Trace
<1>8. QED
  BY <1>1, <1>6, <1>7 DEF Reaches

LEMMA ReplaysStep ==
  ASSUME IInv, Answers, Replays, [Next]_vars
  PROVE  Replays' /\ opts'.arch = opts.arch
<1>1. ASSUME UNCHANGED last, opts'.arch = opts.arch
      PROVE  last' # NoCall =>
               /\ last'.input.opts.arch = opts'.arch
               /\ \E s, w : /\ Reaches(opts'.arch, last'.input.sections, s) /\ Ends(opts'.arch, s)
                            /\ last' = OutcomeIn(last'.input, s, w)
  BY <1>1 DEF Replays
<1>2. CASE Build /\ ~Finishing
  <2>1. /\ State' = After(opts.arch, sections, State) /\ ~Ends(opts.arch, State)
        /\ pc # "idle" /\ pc' # "idle" /\ UNCHANGED <<file, last>>
    BY <1>2, GoesOn
  <2>2. opts' = opts /\ sections' = sections
    BY <2>1 DEF file
  <2>3. Reaches(opts.arch, sections, State)
    BY <2>1 DEF Replays
  <2>4. Reaches(opts.arch, sections, State')
    BY <2>1, <2>3, ReachesNext
  <2>5. QED
    BY <1>1, <2>1, <2>2, <2>4 DEF Replays
<1>3. CASE Finishing
  <2>1. /\ Ends(opts.arch, State) /\ pc # "idle" /\ UNCHANGED file
        /\ State' = Waiting("idle")
        /\ last'.input = Input /\ \E w : last' = OutcomeIn(Input, State, w)
    BY <1>3, FinishesWith
  <2>2. opts' = opts /\ sections' = sections
    BY <2>1 DEF file
  <2>3. Reaches(opts.arch, sections, State)
    BY <2>1 DEF Replays
  <2>4. Input.opts.arch = opts.arch /\ Input.sections = sections
    BY DEF Input
  <2>5. PICK w : last' = OutcomeIn(Input, State, w)
    BY <2>1
  <2>6. pc' = "idle"
    BY <1>3 DEF Finishing, TooManySections, UnnamedSection, RelocFails, TooManyRelocs, Deliver,
       Fail, Return
  <2>7. PICK s : s = State
    OBVIOUS
  <2>8. /\ last'.input.opts.arch = opts'.arch
        /\ Reaches(opts'.arch, last'.input.sections, s) /\ Ends(opts'.arch, s)
        /\ last' = OutcomeIn(last'.input, s, w)
    BY <2>1, <2>2, <2>3, <2>4, <2>5, <2>7
  <2>9. QED
    BY <2>1, <2>2, <2>6, <2>8 DEF Replays
<1>4. CASE WriteTo
  <2>1. Reaches(opts.arch, sections, State') /\ UNCHANGED <<file, last>> /\ pc' # "idle"
    BY <1>4, StartReplays
  <2>2. opts' = opts /\ sections' = sections
    BY <2>1 DEF file
  <2>3. QED
    BY <1>1, <2>1, <2>2 DEF Replays
<1>5. CASE (\E s \in Sections : AddSection(s)) \/ (\E v \in Subsystems : SetSubsystem(v))
  <2>1. /\ pc = "idle" /\ opts'.arch = opts.arch
        /\ UNCHANGED <<pc, i, k, directives, work, names, slots, recs, layout, last>>
    BY <1>5 DEF AddSection, SetSubsystem, IInv, TypeOK
  <2>2. State' = State
    BY <2>1 DEF State, names, layout
  <2>3. QED
    BY <1>1, <2>1, <2>2 DEF Replays
<1>6. CASE UNCHANGED vars
  <2>1. UNCHANGED <<opts, sections, pc, last>>
    BY <1>6 DEF vars, file
  <2>2. State' = State
    BY <1>6 DEF vars, names, layout, State
  <2>3. QED
    BY <1>1, <2>1, <2>2 DEF Replays
<1>7. QED
  BY <1>2, <1>3, <1>4, <1>5, <1>6 DEF Next, Caller, Finishing, Build

\* Two outcomes of the same ending differ in their inputs and in what the
\* writer took.
LEMMA OneOutcome ==
  ASSUME NEW s, NEW a, NEW b, a.input.opts.arch = b.input.opts.arch,
         \E v : a = OutcomeIn(a.input, s, v), \E w : b = OutcomeIn(b.input, s, w)
  PROVE  [b EXCEPT !.written = a.written, !.input = a.input] = a
<1>0. PICK v, w, first, second :
        /\ first = a.input /\ second = b.input /\ first.opts.arch = second.opts.arch
        /\ a = OutcomeIn(first, s, v) /\ b = OutcomeIn(second, s, w)
  OBVIOUS
<1>1. CASE s.at.pc = "write"
  <2>1. PICK image : image = ImageIn(first.opts.arch, s) /\ image = ImageIn(second.opts.arch, s)
    BY <1>0
  <2>2. /\ a = [status |-> "built", input |-> first, image |-> image, written |-> v]
        /\ b = [status |-> "built", input |-> second, image |-> image, written |-> w]
    BY <1>0, <1>1, <2>1 DEF OutcomeIn
  <2>3. PICK c : c = [b EXCEPT !.written = v]
    OBVIOUS
  <2>4. c = [status |-> "built", input |-> second, image |-> image, written |-> v]
    BY <2>2, <2>3
  <2>5. [c EXCEPT !.input = first] = a
    BY <2>2, <2>4
  <2>6. a.written = v /\ a.input = first
    BY <2>2
  <2>7. QED
    BY <2>3, <2>5, <2>6
<1>2. CASE s.at.pc # "write"
  <2>1. PICK error : error = Complaint(s)
    OBVIOUS
  <2>2. /\ a = [status |-> "failed", input |-> first, error |-> error, written |-> "none"]
        /\ b = [status |-> "failed", input |-> second, error |-> error, written |-> "none"]
    BY <1>0, <1>2, <2>1 DEF OutcomeIn
  <2>3. [b EXCEPT !.written = "none"] = b
    BY <2>2
  <2>4. [b EXCEPT !.input = first] = a
    BY <2>2
  <2>5. a.written = "none" /\ a.input = first
    BY <2>2
  <2>6. QED
    BY <2>3, <2>4, <2>5
<1>3. QED
  BY <1>1, <1>2

\* A File that is serialised again with the same sections gives the same
\* image, or fails in the same way, whatever else has been called and whatever
\* its earlier calls have been given: nothing of the build is left behind in
\* the File, and no choice of the Go map's shows in what is written.
THEOREM SameSectionsSameImage == Spec => Reproducible
<1>1. IInv /\ Answers /\ Replays /\ [Next]_vars =>
        [/\ last # NoCall /\ last' # last
         /\ last'.input.sections = last.input.sections
         => [last' EXCEPT !.written = last.written, !.input = last.input] = last]_vars
  <2> SUFFICES ASSUME IInv, Answers, Replays, [Next]_vars, last # NoCall, last' # last,
                      last'.input.sections = last.input.sections
               PROVE  [last' EXCEPT !.written = last.written, !.input = last.input] = last
    OBVIOUS
  <2>1. Replays' /\ opts'.arch = opts.arch
    BY ReplaysStep
  <2>2. Finishing
    BY GoesOn DEF Next, Caller, AddSection, SetSubsystem, WriteTo, vars
  <2>3. last' # NoCall
    <3>1. last'.status \in {"built", "failed"}
      BY <2>2 DEF Finishing, TooManySections, UnnamedSection, RelocFails, TooManyRelocs, Deliver,
         Fail, Return
    <3>2. QED
      BY <3>1 DEF NoCall
  <2>4. PICK s, v : /\ Reaches(opts.arch, last.input.sections, s) /\ Ends(opts.arch, s)
                    /\ last = OutcomeIn(last.input, s, v)
    BY DEF Replays
  <2>5. PICK t, w : /\ Reaches(opts.arch, last'.input.sections, t) /\ Ends(opts.arch, t)
                    /\ last' = OutcomeIn(last'.input, t, w)
    BY <2>1, <2>3 DEF Replays
  <2>6. s = t
    BY <2>4, <2>5, EndsMeet
  <2>7. last.input.opts.arch = last'.input.opts.arch
    BY <2>1, <2>3 DEF Replays
  <2>8. PICK a, b : a = last /\ b = last'
    OBVIOUS
  <2>9. /\ a.input.opts.arch = b.input.opts.arch
        /\ \E x : a = OutcomeIn(a.input, s, x)
        /\ \E x : b = OutcomeIn(b.input, s, x)
    BY <2>4, <2>5, <2>6, <2>7, <2>8
  <2>10. [b EXCEPT !.written = a.written, !.input = a.input] = a
    BY <2>9, OneOutcome
  <2>11. QED
    BY <2>8, <2>10
<1>2. QED
  BY Inductive, InitAnswers, AnswersStep, InitReplays, ReplaysStep, <1>1, PTL
     DEF Spec, Reproducible

=============================================================================
