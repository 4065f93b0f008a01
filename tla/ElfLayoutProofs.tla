-------------------------- MODULE ElfLayoutProofs --------------------------
(***************************************************************************)
(* The section descriptors of the ELF build: the indices computed from     *)
(* counts hit the descriptors they are meant for, and the serialised bytes *)
(* land where the layout put them, for every file.                         *)
(*                                                                         *)
(* LInv adds to the two properties how many descriptors there are at each  *)
(* point of the three loops that append them.  What the fields other than  *)
(* align, size and off hold is of no concern to the layout, so that the    *)
(* type of a descriptor leaves them open.  The step lemmas use IInv of     *)
(* ElfProofs for the tables the descriptors are made of.                   *)
(*                                                                         *)
(* The last part has the build as a function of the sections and options   *)
(* and proves that two calls with the same input have the same outcome.    *)
(***************************************************************************)
EXTENDS ElfProofs, FiniteSetTheorems

-----------------------------------------------------------------------------
DescOf(D) ==
  [name : D, type : D, link : D, info : D, align : Nat, size : Nat,
   noSize : D, data : D, off : Nat]

DescsOK(ds) == \E D : ds \in Seq(DescOf(D))

Types ==
  /\ DescsOK(descs)
  /\ pos \in Nat
  /\ \E C : out \in [len : Nat, chunks : Seq(C)]

\* The sections in front of n that have a group.
Groups(n) == {m \in DOMAIN sections : m < n /\ sections[m].linkOnce}

Counted ==
  /\ pc = "content" => i <= Len(sections) + 1 /\ Len(descs) = i
  /\ pc = "rela" => i <= Len(relaWork) + 1 /\ Len(descs) = Len(sections) + i
  /\ pc = "group" =>
       /\ i <= Len(sections) + 1
       /\ Len(descs) = 1 + Len(sections) + Len(relaWork) + Cardinality(Groups(i))
  /\ pc \in {"layout", "write"} => i >= 2

IsRela(d, j) == d.type = "RELA" /\ d.link = SymtabIdx /\ d.info = relaWork[j].content

Appended ==
  pc \in Phase3 =>
    /\ \A c \in DOMAIN sections :
         c < Len(descs) => descs[c + 1].type = ContentType(sections[c])
    /\ \A j \in DOMAIN relaWork :
         Len(sections) + j < Len(descs) => IsRela(descs[Len(sections) + j + 1], j)

BehindHeader == pc = "layout" => Class(opts.arch).ehdr <= pos

LInv == Types /\ Counted /\ Appended /\ BehindHeader /\ IndicesHit /\ WrittenWhereLaidOut

-----------------------------------------------------------------------------
LEMMA DescFields ==
  ASSUME NEW ds, DescsOK(ds), NEW n \in 1 .. Len(ds)
  PROVE  /\ ds[n].align \in Nat /\ ds[n].size \in Nat /\ ds[n].off \in Nat
         /\ Len(ds) \in Nat
<1>1. PICK D : ds \in Seq(DescOf(D))
  BY DEF DescsOK
<1>2. ds[n] \in DescOf(D)
  BY <1>1
<1>3. QED
  BY <1>1, <1>2 DEF DescOf

\* A descriptor, whatever its other fields hold.
IsDesc(d) ==
  d \in DescOf({d.name, d.type, d.link, d.info, d.noSize, d.data})

LEMMA SeqSubset ==
  ASSUME NEW S, NEW T, S \subseteq T, NEW s \in Seq(S)
  PROVE  s \in Seq(T)
<1>1. Len(s) \in Nat /\ s \in [1 .. Len(s) -> T]
  OBVIOUS
<1>2. QED
  BY <1>1

LEMMA CommonType ==
  ASSUME NEW ds, NEW es, DescsOK(ds), DescsOK(es)
  PROVE  \E D : ds \in Seq(DescOf(D)) /\ es \in Seq(DescOf(D))
<1>1. PICK D : ds \in Seq(DescOf(D))
  BY DEF DescsOK
<1>2. PICK E : es \in Seq(DescOf(E))
  BY DEF DescsOK
<1>3. /\ DescOf(D) \subseteq DescOf(D \cup E)
      /\ DescOf(E) \subseteq DescOf(D \cup E)
  BY DEF DescOf
<1>4. \A S, T, s : S \subseteq T /\ s \in Seq(S) => s \in Seq(T)
  BY SeqSubset
<1> HIDE DEF DescOf
<1>5. QED
  BY <1>1, <1>2, <1>3, <1>4

LEMMA JoinDescs ==
  ASSUME NEW ds, NEW es, DescsOK(ds), DescsOK(es)
  PROVE  /\ DescsOK(ds \o es)
         /\ Len(ds) \in Nat /\ Len(es) \in Nat
         /\ Len(ds \o es) = Len(ds) + Len(es)
         /\ \A n \in 1 .. Len(ds) : (ds \o es)[n] = ds[n]
         /\ \A n \in 1 .. Len(es) : (ds \o es)[Len(ds) + n] = es[n]
<1>1. PICK D : ds \in Seq(DescOf(D)) /\ es \in Seq(DescOf(D))
  BY CommonType
<1>2. ds \o es \in Seq(DescOf(D))
  BY <1>1
<1>3. QED
  BY <1>1, <1>2 DEF DescsOK

LEMMA AppendDesc ==
  ASSUME NEW ds, DescsOK(ds), NEW d, IsDesc(d)
  PROVE  /\ DescsOK(Append(ds, d))
         /\ Len(ds) \in Nat
         /\ Len(Append(ds, d)) = Len(ds) + 1
         /\ \A n \in 1 .. Len(ds) : Append(ds, d)[n] = ds[n]
         /\ Append(ds, d)[Len(ds) + 1] = d
<1>1. PICK D : ds \in Seq(DescOf(D))
  BY DEF DescsOK
<1> DEFINE E == {d.name, d.type, d.link, d.info, d.noSize, d.data}
<1>2. DescOf(D) \subseteq DescOf(D \cup E) /\ d \in DescOf(D \cup E)
  <2>1. DescOf(E) \subseteq DescOf(D \cup E) /\ DescOf(D) \subseteq DescOf(D \cup E)
    BY DEF DescOf
  <2>2. QED
    BY <2>1 DEF IsDesc
<1> HIDE DEF E
<1>3. ds \in Seq(DescOf(D \cup E))
  <2>1. \A S, T, s : S \subseteq T /\ s \in Seq(S) => s \in Seq(T)
    BY SeqSubset
  <2>2. QED
    BY <1>1, <1>2, <2>1
<1>4. Append(ds, d) \in Seq(DescOf(D \cup E))
  BY <1>2, <1>3
<1>5. QED
  BY <1>2, <1>3, <1>4 DEF DescsOK

LEMMA GroupsFinite ==
  ASSUME TypeOK, NEW n \in Nat
  PROVE  /\ IsFiniteSet(Groups(n)) /\ Cardinality(Groups(n)) \in Nat
         /\ GroupCount \in Nat
<1>1. Len(sections) \in Nat /\ DOMAIN sections = 1 .. Len(sections)
  BY DEF TypeOK
<1>2. IsFiniteSet(DOMAIN sections)
  BY <1>1, FS_Interval
<1>3. IsFiniteSet(Groups(n)) /\ IsFiniteSet({m \in DOMAIN sections : sections[m].linkOnce})
  BY <1>2, FS_Subset DEF Groups
<1>4. QED
  BY <1>3, FS_CardinalityType DEF GroupCount

-----------------------------------------------------------------------------
(***************************************************************************)
(* What each loop appends is a descriptor.                                 *)
(***************************************************************************)
LEMMA ClassType ==
  ASSUME NEW arch
  PROVE  /\ Class(arch).ehdr \in Nat /\ Class(arch).sym \in Nat
         /\ Class(arch).rela \in Nat /\ Class(arch).word \in Nat
  BY DEF Class, Class64, Class32

LEMMA ContentDescLemma ==
  ASSUME TypeOK, NEW n \in 1 .. Len(sections)
  PROVE  /\ IsDesc(ContentDesc(n))
         /\ ContentDesc(n).type = ContentType(sections[n])
<1> DEFINE s == sections[n]
<1>1. s \in Section
  BY SectionType
<1>2. s.align \in Nat /\ s.size \in Nat /\ s.vsize \in Nat
  BY <1>1 DEF Section
<1>3. DefaultAlign(opts.arch, s) \in Nat
  BY ClassType DEF DefaultAlign
<1>4. VirtualSize(s) \in Nat
  BY <1>2 DEF VirtualSize
<1> DEFINE d == ContentDesc(n)
<1> HIDE DEF s
<1>5. /\ d.type = ContentType(s)
      /\ d = [name |-> d.name, type |-> d.type, link |-> d.link, info |-> d.info,
              align |-> d.align, size |-> d.size, noSize |-> d.noSize, data |-> d.data,
              off |-> d.off]
  <2>1. PICK bytes : bytes = IF NoBits(s) \/ s.kind = "Unknown" THEN 0 ELSE s.size
    OBVIOUS
  <2>2. PICK align : align = IF s.align > 0 THEN s.align ELSE DefaultAlign(opts.arch, s)
    OBVIOUS
  <2>3. PICK data, room : /\ data = IF bytes = 0 THEN << >> ELSE <<n>>
                          /\ room = IF NoBits(s) THEN VirtualSize(s) ELSE 0
    OBVIOUS
  <2>4. d = [NullDesc EXCEPT !.name = SectionName(s), !.type = ContentType(s),
                             !.align = align, !.size = bytes, !.data = data, !.noSize = room]
    BY <2>1, <2>2, <2>3 DEF ContentDesc, s
  <2> HIDE DEF d
  <2>5. QED
    BY <2>4 DEF NullDesc
<1>6. d.align \in Nat /\ d.size \in Nat /\ d.off \in Nat
  BY <1>2, <1>3, <1>4 DEF ContentDesc, NullDesc, s
<1> HIDE DEF d
<1>7. IsDesc(d)
  BY <1>5, <1>6 DEF IsDesc, DescOf
<1>8. QED
  BY <1>5, <1>7 DEF d, s

LEMMA RelaDescLemma ==
  ASSUME TypeOK, NEW j \in 1 .. Len(relaWork)
  PROVE  /\ IsDesc(RelaDesc(relaWork[j]))
         /\ IsRela(RelaDesc(relaWork[j]), j)
<1>1. relaWork[j] \in RelaSections
  BY DEF TypeOK
<1>2. Len(relaWork[j].data) \in Nat
  BY <1>1 DEF RelaSections
<1>3. /\ Class(opts.arch).rela * Len(relaWork[j].data) \in Nat
      /\ Class(opts.arch).word \in Nat
  BY <1>2, ClassType
<1>4. QED
  BY <1>3 DEF RelaDesc, IsDesc, IsRela, DescOf, NullDesc

LEMMA GroupDescLemma ==
  ASSUME NEW n PROVE IsDesc(GroupDesc(n))
<1> DEFINE rela == IF \E j \in DOMAIN relaWork : relaWork[j].content = n
                   THEN <<Len(sections) + (CHOOSE j \in DOMAIN relaWork :
                                             relaWork[j].content = n)>>
                   ELSE << >>
<1>1. PICK x : rela \in {<<x>>, << >>}
  OBVIOUS
<1>2. Members(n) = <<n>> \o rela
  BY DEF Members
<1> HIDE DEF rela
<1>3. Len(Members(n)) \in Nat
  <2>1. <<n>> \in Seq({n, x}) /\ <<x>> \in Seq({n, x}) /\ << >> \in Seq({n, x})
    OBVIOUS
  <2>2. Members(n) \in Seq({n, x})
    <3>1. \A S, s, t : s \in Seq(S) /\ t \in Seq(S) => s \o t \in Seq(S)
      OBVIOUS
    <3>2. QED
      BY <1>1, <1>2, <2>1, <3>1
  <2>3. QED
    BY <2>2
<1>4. 4 * (1 + Len(Members(n))) \in Nat
  BY <1>3
<1>5. QED
  BY <1>4 DEF GroupDesc, IsDesc, DescOf, NullDesc

LEMMA ThreeDescs ==
  ASSUME NEW a, NEW b, NEW c, IsDesc(a), IsDesc(b), IsDesc(c)
  PROVE  /\ DescsOK(<<a, b, c>>) /\ Len(<<a, b, c>>) = 3
         /\ <<a, b, c>>[1] = a /\ <<a, b, c>>[2] = b /\ <<a, b, c>>[3] = c
<1> DEFINE F(d) == {d.name, d.type, d.link, d.info, d.noSize, d.data}
           D == F(a) \cup F(b) \cup F(c)
<1>1. /\ DescOf(F(a)) \subseteq DescOf(D)
      /\ DescOf(F(b)) \subseteq DescOf(D)
      /\ DescOf(F(c)) \subseteq DescOf(D)
  BY DEF DescOf
<1>2. a \in DescOf(D) /\ b \in DescOf(D) /\ c \in DescOf(D)
  BY <1>1 DEF IsDesc
<1> HIDE DEF D, F
<1>3. <<a, b, c>> \in Seq(DescOf(D))
  BY <1>2
<1>4. QED
  BY <1>3 DEF DescsOK

StackCount == IF opts.gnuStack THEN 1 ELSE 0

LEMMA TailDescsLemma ==
  ASSUME TypeOK
  PROVE  /\ DescsOK(TailDescs)
         /\ Len(TailDescs) = StackCount + 3
         /\ opts.gnuStack => TailDescs[1].type = "PROGBITS"
         /\ TailDescs[StackCount + 1].type = "SYMTAB"
         /\ TailDescs[StackCount + 1].link = StrtabIdx
         /\ TailDescs[StackCount + 2].type = "STRTAB"
         /\ TailDescs[StackCount + 2].data = strtab.data
         /\ TailDescs[StackCount + 3].type = "STRTAB"
         /\ TailDescs[StackCount + 3].data = TailShstrtab.data
<1> DEFINE note == [NullDesc EXCEPT !.name = <<".note.GNU-stack">>,
                                    !.type = "PROGBITS", !.align = 1]
           symtab == [NullDesc EXCEPT
                        !.name  = <<".symtab">>,
                        !.type  = "SYMTAB",
                        !.align = Class(opts.arch).word,
                        !.link  = StrtabIdx,
                        !.info  = firstGlobal,
                        !.size  = Class(opts.arch).sym * Len(syms),
                        !.data  = syms]
           str == StrDesc(<<".strtab">>, strtab.data)
           shstr == StrDesc(<<".shstrtab">>, TailShstrtab.data)
<1>1. Len(strtab.data) \in Nat /\ Len(TailShstrtab.data) \in Nat
  <2>1. StrTabOK(shstrtab) /\ TailNames \subseteq Name
    BY FixedNamesAssumption DEF TypeOK
  <2>2. \A t, n : StrTabOK(t) /\ n \in TailNames => StrTabOK(Intern(t, n))
    BY <2>1, InternLemma
  <2>3. StrTabOK(TailShstrtab)
    BY <2>1, <2>2 DEF TailShstrtab, TailNames
  <2>4. QED
    BY <2>3 DEF TypeOK, StrTabOK, Consistent
<1>2. IsDesc(note) /\ note.type = "PROGBITS"
  BY DEF IsDesc, DescOf, NullDesc
<1>3. IsDesc(symtab) /\ symtab.type = "SYMTAB" /\ symtab.link = StrtabIdx
  <2>1. Class(opts.arch).sym * Len(syms) \in Nat /\ Class(opts.arch).word \in Nat
    <3>1. Len(syms) \in Nat
      BY DEF TypeOK
    <3>2. QED
      BY <3>1, ClassType
  <2>2. QED
    BY <2>1 DEF IsDesc, DescOf, NullDesc
<1>4. IsDesc(str) /\ str.type = "STRTAB" /\ str.data = strtab.data
  BY <1>1 DEF StrDesc, IsDesc, DescOf, NullDesc
<1>5. IsDesc(shstr) /\ shstr.type = "STRTAB" /\ shstr.data = TailShstrtab.data
  BY <1>1 DEF StrDesc, IsDesc, DescOf, NullDesc
<1>6. TailDescs = (IF opts.gnuStack THEN <<note>> ELSE << >>) \o <<symtab, str, shstr>>
  BY DEF TailDescs
<1> HIDE DEF note, symtab, str, shstr
<1> DEFINE front == IF opts.gnuStack THEN <<note>> ELSE << >>
           back  == <<symtab, str, shstr>>
<1>7. DescsOK(front)
  <2>1. DescsOK(<< >>)
    BY DEF DescsOK
  <2>2. DescsOK(Append(<< >>, note))
    BY <1>2, <2>1, AppendDesc
  <2>3. QED
    BY <2>1, <2>2
<1>8. DescsOK(back)
  BY <1>3, <1>4, <1>5, ThreeDescs
<1>9. /\ Len(front) = StackCount /\ Len(back) = 3
      /\ back[1] = symtab /\ back[2] = str /\ back[3] = shstr
  BY DEF StackCount
<1>10. TailDescs = front \o back
  BY <1>6
<1> HIDE DEF front, back
<1>11. /\ DescsOK(front \o back) /\ Len(front \o back) = Len(front) + Len(back)
       /\ \A n \in 1 .. Len(front) : (front \o back)[n] = front[n]
       /\ \A n \in 1 .. Len(back) : (front \o back)[Len(front) + n] = back[n]
  BY <1>7, <1>8, JoinDescs
<1>12. /\ DescsOK(TailDescs) /\ Len(TailDescs) = StackCount + 3
       /\ TailDescs[StackCount + 1] = symtab
       /\ TailDescs[StackCount + 2] = str
       /\ TailDescs[StackCount + 3] = shstr
  BY <1>9, <1>10, <1>11
<1>13. opts.gnuStack => TailDescs[1] = note
  <2>1. opts.gnuStack => front = <<note>> /\ Len(front) = 1 /\ 1 \in 1 .. Len(front)
    BY <1>9 DEF front, StackCount
  <2>2. QED
    BY <1>10, <1>11, <2>1
<1>14. QED
  BY <1>2, <1>3, <1>4, <1>5, <1>12, <1>13

-----------------------------------------------------------------------------
(***************************************************************************)
(* The steps up to the last loop that appends descriptors.                 *)
(***************************************************************************)
LEMMA InitLInv == Init => LInv
<1> SUFFICES ASSUME Init PROVE LInv
  OBVIOUS
<1>1. pc = "idle" /\ descs = << >> /\ pos = 0 /\ out = EmptyOut
  BY DEF Init
<1>2. Types
  BY <1>1 DEF Types, DescsOK, EmptyOut
<1>3. Counted /\ Appended /\ BehindHeader /\ IndicesHit /\ WrittenWhereLaidOut
  BY <1>1 DEF Counted, Appended, BehindHeader, IndicesHit, WrittenWhereLaidOut, Phase3
<1>4. QED
  BY <1>2, <1>3 DEF LInv

\* Outside phases 3 to 5 nothing is said of the descriptors but their type.
LEMMA QuietStep ==
  ASSUME LInv, pc' \notin Phase3, UNCHANGED <<descs, pos, out>> PROVE LInv'
<1>1. Types'
  BY DEF LInv, Types, DescsOK
<1>2. Counted' /\ Appended' /\ BehindHeader' /\ IndicesHit' /\ WrittenWhereLaidOut'
  BY DEF Counted, Appended, BehindHeader, IndicesHit, WrittenWhereLaidOut, Phase3
<1>3. QED
  BY <1>1, <1>2 DEF LInv

LEMMA ReturnLStep == ASSUME NEW outcome, Return(outcome) PROVE LInv'
<1>1. pc' = "idle" /\ descs' = << >> /\ pos' = 0 /\ out' = EmptyOut
  BY DEF Return
<1>2. Types'
  BY <1>1 DEF Types, DescsOK, EmptyOut
<1>3. Counted' /\ Appended' /\ BehindHeader' /\ IndicesHit' /\ WrittenWhereLaidOut'
  BY <1>1 DEF Counted, Appended, BehindHeader, IndicesHit, WrittenWhereLaidOut, Phase3
<1>4. QED
  BY <1>2, <1>3 DEF LInv

LEMMA RelocsDoneLStep == ASSUME IInv, LInv, RelocsDone PROVE LInv'
<1>1. /\ pc' = "content" /\ i' = 1 /\ descs' = <<NullDesc>>
      /\ UNCHANGED <<sections, relaWork, pos, out>>
  BY DEF RelocsDone, Goto, file, relocs
<1>2. DescsOK(<<NullDesc>>) /\ Len(<<NullDesc>>) = 1
  <2>1. DescsOK(<< >>) /\ IsDesc(NullDesc)
    BY DEF DescsOK, IsDesc, NullDesc, DescOf
  <2>2. DescsOK(Append(<< >>, NullDesc))
    BY <2>1, AppendDesc
  <2>3. QED
    BY <2>2
<1>3. Types'
  BY <1>1, <1>2 DEF LInv, Types
<1>4. /\ DOMAIN sections = 1 .. Len(sections) /\ Len(sections) \in Nat
      /\ DOMAIN relaWork = 1 .. Len(relaWork)
  BY DEF IInv, TypeOK
<1>5. Counted' /\ Appended'
  BY <1>1, <1>2, <1>4 DEF Counted, Appended
<1>6. BehindHeader' /\ IndicesHit' /\ WrittenWhereLaidOut'
  BY <1>1 DEF BehindHeader, IndicesHit, WrittenWhereLaidOut
<1>7. QED
  BY <1>3, <1>5, <1>6 DEF LInv

\* What the three loops have in common: a descriptor goes to the end and
\* those in front stay.
LEMMA AppendStep ==
  ASSUME IInv, LInv, pc \in {"content", "rela", "group"},
         UNCHANGED <<pc, sections, relaWork, pos, out, opts>>,
         NEW d, IsDesc(d), descs' = Append(descs, d),
         pc = "content" => d.type = ContentType(sections[i]),
         pc = "rela" => IsRela(d, i),
         Counted'
  PROVE  LInv'
<1>1. /\ DescsOK(descs') /\ Len(descs) \in Nat /\ Len(descs') = Len(descs) + 1
      /\ \A n \in 1 .. Len(descs) : descs'[n] = descs[n]
      /\ descs'[Len(descs) + 1] = d
  BY AppendDesc DEF LInv, Types
<1>2. Types'
  BY <1>1 DEF LInv, Types
<1>3. /\ DOMAIN sections = 1 .. Len(sections) /\ Len(sections) \in Nat
      /\ DOMAIN relaWork = 1 .. Len(relaWork) /\ Len(relaWork) \in Nat
      /\ i \in Nat \ {0}
  BY DEF IInv, TypeOK
<1>4. Counted /\ Appended
  BY DEF LInv
<1>5. Cardinality(Groups(i)) \in Nat
  BY <1>3, GroupsFinite DEF IInv
<1>6. SymtabIdx' = SymtabIdx
  BY DEF SymtabIdx, GroupCount
<1>7. ASSUME NEW c \in DOMAIN sections, c < Len(descs')
      PROVE  descs'[c + 1].type = ContentType(sections[c])
  <2>1. CASE c < Len(descs)
    BY <1>1, <1>3, <1>4, <2>1 DEF Appended, Phase3
  <2>2. CASE c = Len(descs)
    <3>1. pc = "content" /\ i = c
      BY <1>3, <1>4, <1>5, <2>2 DEF Counted
    <3>2. QED
      BY <1>1, <2>2, <3>1
  <2>3. QED
    BY <1>1, <1>3, <1>7, <2>1, <2>2
<1>8. ASSUME NEW j \in DOMAIN relaWork, Len(sections) + j < Len(descs')
      PROVE  IsRela(descs'[Len(sections) + j + 1], j)
  <2>1. CASE Len(sections) + j < Len(descs)
    BY <1>1, <1>3, <1>4, <2>1 DEF Appended, Phase3
  <2>2. CASE Len(sections) + j = Len(descs)
    <3>1. pc = "rela" /\ i = j
      BY <1>3, <1>4, <1>5, <2>2 DEF Counted
    <3>2. QED
      BY <1>1, <2>2, <3>1
  <2>3. QED
    BY <1>1, <1>3, <1>8, <2>1, <2>2
<1>9. Appended'
  BY <1>6, <1>7, <1>8 DEF Appended, IsRela
<1>10. BehindHeader' /\ IndicesHit' /\ WrittenWhereLaidOut'
  BY DEF BehindHeader, IndicesHit, WrittenWhereLaidOut
<1>11. QED
  BY <1>2, <1>9, <1>10 DEF LInv

LEMMA ContentSectionLStep == ASSUME IInv, LInv, ContentSection PROVE LInv'
<1>1. /\ pc = "content" /\ i \in 1 .. Len(sections) /\ i' = i + 1
      /\ descs' = Append(descs, ContentDesc(i))
      /\ UNCHANGED <<pc, sections, relaWork, pos, out, opts>>
  BY DEF ContentSection, AddDesc, file, relocs, IInv, TypeOK
<1>2. IsDesc(ContentDesc(i)) /\ ContentDesc(i).type = ContentType(sections[i])
  BY <1>1, ContentDescLemma DEF IInv
<1>3. Counted'
  <2>1. Len(descs') = Len(descs) + 1
    BY <1>1, <1>2, AppendDesc DEF LInv, Types
  <2>2. QED
    BY <1>1, <2>1 DEF LInv, Counted, IInv, TypeOK
<1>4. QED
  BY <1>1, <1>2, <1>3, AppendStep

LEMMA RelaSectionLStep == ASSUME IInv, LInv, RelaSection PROVE LInv'
<1>1. /\ pc = "rela" /\ i \in 1 .. Len(relaWork) /\ i' = i + 1
      /\ descs' = Append(descs, RelaDesc(relaWork[i]))
      /\ UNCHANGED <<pc, sections, relaWork, pos, out, opts>>
  BY DEF RelaSection, AddDesc, file, relocs, IInv, TypeOK
<1>2. IsDesc(RelaDesc(relaWork[i])) /\ IsRela(RelaDesc(relaWork[i]), i)
  BY <1>1, RelaDescLemma DEF IInv
<1>3. Counted'
  <2>1. Len(descs') = Len(descs) + 1
    BY <1>1, <1>2, AppendDesc DEF LInv, Types
  <2>2. Len(sections) \in Nat /\ Len(relaWork) \in Nat /\ Len(descs) = Len(sections) + i
    BY <1>1 DEF LInv, Counted, IInv, TypeOK
  <2>3. QED
    BY <1>1, <2>1, <2>2 DEF Counted
<1>4. QED
  BY <1>1, <1>2, <1>3, AppendStep

\* The groups in front of the next section: one more if this one has one.
LEMMA GroupsGrow ==
  ASSUME TypeOK, i \in 1 .. Len(sections)
  PROVE  Cardinality(Groups(i + 1)) =
           Cardinality(Groups(i)) + (IF sections[i].linkOnce THEN 1 ELSE 0)
<1>1. DOMAIN sections = 1 .. Len(sections) /\ Len(sections) \in Nat
  BY DEF TypeOK
<1>2. IsFiniteSet(Groups(i)) /\ Cardinality(Groups(i)) \in Nat
  BY GroupsFinite
<1>3. CASE sections[i].linkOnce
  <2>1. Groups(i + 1) = Groups(i) \cup {i} /\ i \notin Groups(i)
    BY <1>1, <1>3 DEF Groups
  <2>2. QED
    BY <1>2, <1>3, <2>1, FS_AddElement
<1>4. CASE ~sections[i].linkOnce
  <2>1. Groups(i + 1) = Groups(i)
    BY <1>1, <1>4 DEF Groups
  <2>2. QED
    BY <1>2, <1>4, <2>1
<1>5. QED
  BY <1>3, <1>4

LEMMA GroupSectionLStep == ASSUME IInv, LInv, GroupSection PROVE LInv'
<1>1. /\ pc = "group" /\ i \in 1 .. Len(sections) /\ i' = i + 1
      /\ sections[i].linkOnce
      /\ descs' = Append(descs, GroupDesc(i))
      /\ UNCHANGED <<pc, sections, relaWork, pos, out, opts>>
  BY DEF GroupSection, AddDesc, file, relocs, IInv, TypeOK
<1>2. IsDesc(GroupDesc(i))
  BY GroupDescLemma
<1>3. Counted'
  <2>1. Len(descs') = Len(descs) + 1
    BY <1>1, <1>2, AppendDesc DEF LInv, Types
  <2>2. Cardinality(Groups(i + 1)) = Cardinality(Groups(i)) + 1
    BY <1>1, GroupsGrow DEF IInv
  <2>3. Groups(i)' = Groups(i + 1)
    BY <1>1 DEF Groups
  <2>4. Cardinality(Groups(i)) \in Nat
    BY <1>1, GroupsFinite DEF IInv
  <2>5. /\ Len(sections) \in Nat /\ Len(relaWork) \in Nat
        /\ Len(descs) = 1 + Len(sections) + Len(relaWork) + Cardinality(Groups(i))
    BY <1>1 DEF LInv, Counted, IInv, TypeOK
  <2>6. QED
    BY <1>1, <2>1, <2>2, <2>3, <2>4, <2>5 DEF Counted
<1>4. QED
  BY <1>1, <1>2, <1>3, AppendStep

\* The steps of the three loops that append nothing.
LEMMA LoopMoveStep ==
  ASSUME IInv, LInv, ContentDone \/ RelaDone \/ NoGroup PROVE LInv'
<1>1. /\ pc \in {"content", "rela", "group"} /\ pc' \in {"rela", "group"}
      /\ UNCHANGED <<opts, sections, relaWork, descs, pos, out>>
  BY DEF ContentDone, RelaDone, NoGroup, Goto, file, relocs, layout
<1>2. Types'
  BY <1>1 DEF LInv, Types, DescsOK
<1>3. SymtabIdx' = SymtabIdx
  BY <1>1 DEF SymtabIdx, GroupCount
<1>4. Appended'
  BY <1>1, <1>3 DEF LInv, Appended, IsRela, Phase3
<1>5. BehindHeader' /\ IndicesHit' /\ WrittenWhereLaidOut'
  BY <1>1 DEF BehindHeader, IndicesHit, WrittenWhereLaidOut
<1>6. /\ DOMAIN sections = 1 .. Len(sections) /\ Len(sections) \in Nat
      /\ Len(relaWork) \in Nat /\ i \in Nat \ {0}
  BY DEF IInv, TypeOK
<1>7. Counted'
  <2>1. CASE ContentDone
    <3>1. pc = "content" /\ i > Len(sections) /\ pc' = "rela" /\ i' = 1
      BY <2>1 DEF ContentDone, Goto
    <3>2. i <= Len(sections) + 1 /\ Len(descs) = i
      BY <3>1 DEF LInv, Counted
    <3>3. QED
      BY <1>1, <1>6, <3>1, <3>2 DEF Counted
  <2>2. CASE RelaDone
    <3>1. pc = "rela" /\ i > Len(relaWork) /\ pc' = "group" /\ i' = 1
      BY <2>2 DEF RelaDone, Goto
    <3>2. i <= Len(relaWork) + 1 /\ Len(descs) = Len(sections) + i
      BY <3>1 DEF LInv, Counted
    <3>3. Groups(i)' = {}
      BY <1>1, <1>6, <3>1 DEF Groups
    <3>4. Cardinality(Groups(i)') = 0
      BY <3>3, FS_EmptySet
    <3>5. QED
      BY <1>1, <1>6, <3>1, <3>2, <3>4 DEF Counted
  <2>3. CASE NoGroup
    <3>1. /\ pc = "group" /\ i \in 1 .. Len(sections) /\ pc' = "group" /\ i' = i + 1
          /\ ~sections[i].linkOnce
      BY <1>6, <2>3 DEF NoGroup
    <3>2. Len(descs) = 1 + Len(sections) + Len(relaWork) + Cardinality(Groups(i))
      BY <3>1 DEF LInv, Counted
    <3>3. Groups(i)' = Groups(i + 1)
      BY <1>1, <3>1 DEF Groups
    <3>4. Cardinality(Groups(i + 1)) = Cardinality(Groups(i)) /\ Cardinality(Groups(i)) \in Nat
      BY <3>1, GroupsGrow, GroupsFinite DEF IInv
    <3>5. QED
      BY <1>1, <1>6, <3>1, <3>2, <3>3, <3>4 DEF Counted
  <2>4. QED
    BY <2>1, <2>2, <2>3
<1>8. QED
  BY <1>2, <1>4, <1>5, <1>7 DEF LInv

-----------------------------------------------------------------------------
(***************************************************************************)
(* The last descriptors: from here on the indices are those of descriptors *)
(* that exist.                                                             *)
(***************************************************************************)
LEMMA TailSectionsLStep == ASSUME IInv, LInv, TailSections PROVE LInv'
<1> DEFINE b == Len(descs)
<1>1. /\ pc = "group" /\ i > Len(sections) /\ pc' = "layout" /\ i' = 2
      /\ descs' = descs \o TailDescs /\ shstrtab' = TailShstrtab
      /\ pos' = Class(opts.arch).ehdr
      /\ UNCHANGED <<opts, sections, relaWork, strtab, out>>
  BY DEF TailSections, file, relocs, tables
<1>2. /\ DOMAIN sections = 1 .. Len(sections) /\ Len(sections) \in Nat
      /\ DOMAIN relaWork = 1 .. Len(relaWork) /\ Len(relaWork) \in Nat
      /\ i \in Nat \ {0}
  BY DEF IInv, TypeOK
<1>3. GroupCount \in Nat /\ b = 1 + Len(sections) + Len(relaWork) + GroupCount
  <2>1. /\ i <= Len(sections) + 1
        /\ b = 1 + Len(sections) + Len(relaWork) + Cardinality(Groups(i))
    BY <1>1 DEF LInv, Counted
  <2>2. Groups(i) = {n \in DOMAIN sections : sections[n].linkOnce}
    BY <1>1, <1>2, <2>1 DEF Groups
  <2>3. QED
    BY <1>2, <2>1, <2>2, GroupsFinite DEF GroupCount, IInv
<1>4. DescsOK(descs) /\ DescsOK(TailDescs)
  BY TailDescsLemma DEF LInv, Types, IInv
<1>5. /\ DescsOK(descs') /\ b \in Nat /\ Len(descs') = b + Len(TailDescs)
      /\ \A n \in 1 .. b : descs'[n] = descs[n]
      /\ \A n \in 1 .. Len(TailDescs) : descs'[b + n] = TailDescs[n]
  BY <1>1, <1>4, JoinDescs
<1>6. /\ SymtabIdx = b + StackCount /\ StrtabIdx = b + StackCount + 1
      /\ ShstrtabIdx = b + StackCount + 2 /\ StackCount \in {0, 1}
  BY <1>2, <1>3 DEF SymtabIdx, StrtabIdx, ShstrtabIdx, StackCount
<1>7. /\ SymtabIdx' = SymtabIdx /\ StrtabIdx' = StrtabIdx
      /\ ShstrtabIdx' = ShstrtabIdx
  BY <1>1 DEF SymtabIdx, StrtabIdx, ShstrtabIdx, GroupCount
<1>8. /\ Len(TailDescs) = StackCount + 3
      /\ TailDescs[StackCount + 1].type = "SYMTAB"
      /\ TailDescs[StackCount + 1].link = StrtabIdx
      /\ TailDescs[StackCount + 2].type = "STRTAB"
      /\ TailDescs[StackCount + 2].data = strtab.data
      /\ TailDescs[StackCount + 3].type = "STRTAB"
      /\ TailDescs[StackCount + 3].data = TailShstrtab.data
  BY TailDescsLemma DEF IInv
<1>9. /\ descs'[SymtabIdx + 1] = TailDescs[StackCount + 1]
      /\ descs'[StrtabIdx + 1] = TailDescs[StackCount + 2]
      /\ descs'[ShstrtabIdx + 1] = TailDescs[StackCount + 3]
      /\ Len(descs') = ShstrtabIdx + 1
  BY <1>5, <1>6, <1>8
<1>10. /\ \A c \in DOMAIN sections : descs'[c + 1].type = ContentType(sections[c])
       /\ \A j \in DOMAIN relaWork : IsRela(descs'[Len(sections) + j + 1], j)
  <2>1. ASSUME NEW c \in DOMAIN sections
        PROVE  descs'[c + 1].type = ContentType(sections[c])
    <3>1. c + 1 \in 1 .. b /\ c < b
      BY <1>2, <1>3
    <3>2. descs[c + 1].type = ContentType(sections[c])
      BY <1>1, <3>1 DEF LInv, Appended, Phase3
    <3>3. QED
      BY <1>5, <3>1, <3>2
  <2>2. ASSUME NEW j \in DOMAIN relaWork
        PROVE  IsRela(descs'[Len(sections) + j + 1], j)
    <3>1. Len(sections) + j + 1 \in 1 .. b /\ Len(sections) + j < b
      BY <1>2, <1>3
    <3>2. IsRela(descs[Len(sections) + j + 1], j)
      BY <1>1, <3>1 DEF LInv, Appended, Phase3
    <3>3. descs'[Len(sections) + j + 1] = descs[Len(sections) + j + 1]
      BY <1>5, <3>1
    <3>4. QED
      BY <3>2, <3>3
  <2>3. QED
    BY <2>1, <2>2
<1>11. IndicesHit'
  BY <1>1, <1>7, <1>8, <1>9, <1>10 DEF IndicesHit, IsRela
<1>12. Appended'
  BY <1>1, <1>7, <1>10 DEF Appended, IsRela
<1>13. Types'
  BY <1>1, <1>5, ClassType DEF LInv, Types
<1>14. Counted' /\ BehindHeader'
  BY <1>1, ClassType DEF Counted, BehindHeader
<1>15. WrittenWhereLaidOut'
  <2>1. Placed' = {}
    BY <1>1 DEF Placed
  <2>2. QED
    BY <1>1, <2>1 DEF WrittenWhereLaidOut
<1>16. QED
  BY <1>11, <1>12, <1>13, <1>14, <1>15 DEF LInv

-----------------------------------------------------------------------------
(***************************************************************************)
(* The layout and the bytes.                                               *)
(***************************************************************************)
\* What moves no descriptor and changes no field but off keeps the indices.
LEMMA SameDescsLemma ==
  ASSUME IInv, LInv, pc \in {"layout", "write"}, pc' \in {"layout", "write"},
         UNCHANGED <<opts, sections, relaWork, strtab, shstrtab>>,
         Len(descs') = Len(descs),
         \A n \in 1 .. Len(descs) :
           /\ descs'[n].type = descs[n].type /\ descs'[n].link = descs[n].link
           /\ descs'[n].info = descs[n].info /\ descs'[n].data = descs[n].data
  PROVE  IndicesHit' /\ Appended'
<1>1. IndicesHit /\ Appended
  BY DEF LInv
<1>2. /\ SymtabIdx' = SymtabIdx /\ StrtabIdx' = StrtabIdx
      /\ ShstrtabIdx' = ShstrtabIdx
  BY DEF SymtabIdx, StrtabIdx, ShstrtabIdx, GroupCount
<1>3. /\ Len(sections) \in Nat /\ DOMAIN sections = 1 .. Len(sections)
      /\ Len(relaWork) \in Nat /\ DOMAIN relaWork = 1 .. Len(relaWork)
  BY DEF IInv, TypeOK
<1>4. /\ GroupCount \in Nat
      /\ SymtabIdx \in Nat /\ StrtabIdx = SymtabIdx + 1 /\ ShstrtabIdx = SymtabIdx + 2
      /\ SymtabIdx >= 1 + Len(sections) + Len(relaWork)
      /\ Len(descs) = SymtabIdx + 3
  <2>1. GroupCount \in Nat
    BY <1>3, GroupsFinite DEF IInv
  <2>2. QED
    BY <1>1, <1>3, <2>1 DEF SymtabIdx, StrtabIdx, ShstrtabIdx, IndicesHit
<1>5. /\ SymtabIdx + 1 \in 1 .. Len(descs) /\ StrtabIdx + 1 \in 1 .. Len(descs)
      /\ ShstrtabIdx + 1 \in 1 .. Len(descs)
      /\ \A c \in DOMAIN sections : c + 1 \in 1 .. Len(descs)
      /\ \A j \in DOMAIN relaWork : Len(sections) + j + 1 \in 1 .. Len(descs)
  BY <1>3, <1>4
<1>6. \A c \in DOMAIN sections : descs'[c + 1].type = ContentType(sections[c])
  BY <1>1, <1>5 DEF IndicesHit
<1>7. \A j \in DOMAIN relaWork :
        /\ descs'[Len(sections) + j + 1].type = "RELA"
        /\ descs'[Len(sections) + j + 1].link = SymtabIdx
        /\ descs'[Len(sections) + j + 1].info = relaWork[j].content
  BY <1>1, <1>5 DEF IndicesHit
<1>8. IndicesHit'
  BY <1>1, <1>2, <1>5, <1>6, <1>7 DEF IndicesHit
<1>9. Appended'
  BY <1>2, <1>6, <1>7 DEF Appended, IsRela
<1>10. QED
  BY <1>8, <1>9

LEMMA PlaceSectionLStep == ASSUME IInv, LInv, PlaceSection PROVE LInv'
<1> DEFINE d  == descs[i]
           at == PlaceOf(d)
           room == IF d.type = "NOBITS" THEN 0 ELSE d.size
<1>1. /\ pc = "layout" /\ pc' = "layout" /\ i' = i + 1
      /\ descs' = [descs EXCEPT ![i].off = at] /\ pos' = at + room
      /\ UNCHANGED <<opts, sections, relaWork, strtab, shstrtab, out>>
  BY DEF PlaceSection, file, tables, relocs
<1>2. i \in 2 .. Len(descs)
  BY DEF PlaceSection, LInv, Counted, IInv, TypeOK
<1>3. DescsOK(descs) /\ pos \in Nat /\ Len(descs) \in Nat
  <2>1. DescsOK(descs) /\ pos \in Nat
    BY DEF LInv, Types
  <2>2. QED
    BY <2>1 DEF DescsOK
<1>4. \A n \in 1 .. Len(descs) :
        descs[n].align \in Nat /\ descs[n].size \in Nat /\ descs[n].off \in Nat
  BY <1>3, DescFields
<1>5. /\ at \in Nat /\ pos <= at
      /\ HasBytes(d) /\ d.align > 1 => at % d.align = 0
  <2>1. d.align \in Nat /\ d.size \in Nat
    BY <1>2, <1>4
  <2>2. /\ AlignUp(pos, d.align) \in Nat /\ pos <= AlignUp(pos, d.align)
        /\ d.align > 1 => AlignUp(pos, d.align) % d.align = 0
    BY <1>3, <2>1, AlignUpLemma
  <2>3. /\ at \in {pos, AlignUp(pos, d.align)}
        /\ HasBytes(d) => at = AlignUp(pos, d.align)
    BY <2>1 DEF PlaceOf, HasBytes
  <2> HIDE DEF d, at
  <2>4. QED
    BY <1>3, <2>2, <2>3
<1>6. room \in Nat /\ (HasBytes(d) => room = d.size)
  BY <1>2, <1>4 DEF HasBytes
<1> HIDE DEF at, room
<1>7. /\ DescsOK(descs') /\ Len(descs') = Len(descs)
      /\ \A n \in 1 .. Len(descs) :
           /\ descs'[n].type = descs[n].type /\ descs'[n].link = descs[n].link
           /\ descs'[n].info = descs[n].info /\ descs'[n].data = descs[n].data
           /\ descs'[n].size = descs[n].size /\ descs'[n].align = descs[n].align
           /\ descs'[n].off = IF n = i THEN at ELSE descs[n].off
  <2>1. PICK D : descs \in Seq(DescOf(D))
    BY <1>3 DEF DescsOK
  <2>2. \A n \in 1 .. Len(descs) : descs[n] \in DescOf(D)
    BY <2>1
  <2>3. [d EXCEPT !.off = at] \in DescOf(D)
    BY <1>2, <1>5, <2>2 DEF DescOf
  <2>4. descs' \in Seq(DescOf(D)) /\ Len(descs') = Len(descs)
    BY <1>1, <1>2, <2>1, <2>3
  <2>5. \A n \in 1 .. Len(descs) :
          descs'[n] = IF n = i THEN [d EXCEPT !.off = at] ELSE descs[n]
    BY <1>1, <1>2, <2>1
  <2>6. ASSUME NEW n \in 1 .. Len(descs)
        PROVE  /\ descs'[n].type = descs[n].type /\ descs'[n].link = descs[n].link
               /\ descs'[n].info = descs[n].info /\ descs'[n].data = descs[n].data
               /\ descs'[n].size = descs[n].size /\ descs'[n].align = descs[n].align
               /\ descs'[n].off = IF n = i THEN at ELSE descs[n].off
    <3>1. CASE n = i
      BY <1>2, <2>2, <2>5, <3>1 DEF DescOf
    <3>2. CASE n # i
      BY <2>5, <3>2
    <3>3. QED
      BY <3>1, <3>2
  <2>7. QED
    BY <2>4, <2>6 DEF DescsOK
<1>8. IndicesHit' /\ Appended'
  BY <1>1, <1>7, SameDescsLemma
<1>9. Types' /\ Counted' /\ BehindHeader'
  <2>1. pos' \in Nat /\ pos <= pos'
    BY <1>1, <1>3, <1>5, <1>6
  <2>2. Class(opts.arch).ehdr <= pos /\ Class(opts.arch).ehdr \in Nat
    BY <1>1, ClassType DEF LInv, BehindHeader
  <2>3. Types'
    BY <1>1, <1>7, <2>1 DEF LInv, Types
  <2>4. Counted' /\ BehindHeader'
    BY <1>1, <1>2, <1>3, <2>1, <2>2 DEF Counted, BehindHeader
  <2>5. QED
    BY <2>3, <2>4
<1>10. WrittenWhereLaidOut'
  <2>1. Placed' = Placed \cup (IF HasBytes(d) THEN {i} ELSE {})
    BY <1>1, <1>2, <1>3, <1>7 DEF Placed, HasBytes
  <2>2. Placed \subseteq 1 .. i - 1 /\ Placed \subseteq 1 .. Len(descs)
    BY <1>1, <1>2, <1>3 DEF Placed
  <2>3. \A n \in Placed :
          /\ Class(opts.arch).ehdr <= descs[n].off
          /\ descs[n].off + descs[n].size <= pos
          /\ descs[n].align > 1 => descs[n].off % descs[n].align = 0
          /\ \A m \in Placed : m < n => descs[m].off + descs[m].size <= descs[n].off
    BY <1>1 DEF LInv, WrittenWhereLaidOut
  <2>4. Class(opts.arch).ehdr <= pos /\ Class(opts.arch).ehdr \in Nat
    BY <1>1, ClassType DEF LInv, BehindHeader
  <2>5. ASSUME NEW n \in Placed
        PROVE  /\ Class(opts.arch).ehdr <= descs'[n].off
               /\ descs'[n].off + descs'[n].size <= pos'
               /\ descs'[n].align > 1 => descs'[n].off % descs'[n].align = 0
               /\ \A m \in Placed' :
                    m < n => descs'[m].off + descs'[m].size <= descs'[n].off
    <3>1. /\ n \in 1 .. i - 1 /\ n \in 1 .. Len(descs)
          /\ \A m \in Placed' : m < n => m \in Placed /\ m \in 1 .. Len(descs) /\ m # i
      BY <1>2, <2>1, <2>2
    <3>2. /\ descs'[n].off = descs[n].off /\ descs'[n].size = descs[n].size
          /\ descs'[n].align = descs[n].align
          /\ \A m \in Placed' : m < n =>
               descs'[m].off = descs[m].off /\ descs'[m].size = descs[m].size
      BY <1>2, <1>7, <3>1
    <3>3. pos <= pos' /\ pos' \in Nat
      BY <1>1, <1>3, <1>5, <1>6
    <3>4. descs[n].off \in Nat /\ descs[n].size \in Nat
      BY <1>4, <3>1
    <3>5. descs'[n].off + descs'[n].size <= pos'
      BY <1>3, <2>3, <3>2, <3>3, <3>4
    <3>6. QED
      BY <2>3, <3>1, <3>2, <3>5
  <2>6. ASSUME HasBytes(d)
        PROVE  /\ Class(opts.arch).ehdr <= descs'[i].off
               /\ descs'[i].off + descs'[i].size <= pos'
               /\ descs'[i].align > 1 => descs'[i].off % descs'[i].align = 0
               /\ \A m \in Placed' :
                    m < i => descs'[m].off + descs'[m].size <= descs'[i].off
    BY <1>1, <1>2, <1>3, <1>4, <1>5, <1>6, <1>7, <2>1, <2>2, <2>3, <2>4, <2>6
  <2>7. QED
    BY <1>1, <2>1, <2>5, <2>6 DEF WrittenWhereLaidOut
<1>11. QED
  BY <1>8, <1>9, <1>10 DEF LInv

LEMMA LayoutDoneLStep == ASSUME IInv, LInv, LayoutDone PROVE LInv'
<1>1. /\ pc = "layout" /\ pc' = "write" /\ i' = 2 /\ i > Len(descs)
      /\ pos' = AlignUp(pos, Class(opts.arch).word)
      /\ out' = [len |-> Class(opts.arch).ehdr, chunks |-> << >>]
      /\ UNCHANGED <<opts, sections, relaWork, strtab, shstrtab, descs>>
  BY DEF LayoutDone, file, tables, relocs, EmptyOut
<1>2. /\ DescsOK(descs) /\ pos \in Nat /\ Class(opts.arch).ehdr <= pos
      /\ WrittenWhereLaidOut
  BY <1>1 DEF LInv, Types, BehindHeader
<1>3. /\ pos' \in Nat /\ pos <= pos' /\ Class(opts.arch).ehdr \in Nat
  BY <1>1, <1>2, ClassType, AlignUpLemma
<1>4. IndicesHit' /\ Appended'
  BY <1>1, SameDescsLemma
<1>5. Types' /\ Counted' /\ BehindHeader'
  BY <1>1, <1>2, <1>3 DEF Types, DescsOK, Counted, BehindHeader
<1>6. i \in Nat /\ Len(descs) \in Nat
  BY <1>2 DEF IInv, TypeOK, DescsOK
<1>7. Placed' = Placed /\ Placed \subseteq 2 .. Len(descs)
  BY <1>1, <1>6 DEF Placed
<1>8. \A n \in Placed : descs[n].off \in Nat /\ descs[n].size \in Nat
  BY <1>2, <1>6, <1>7, DescFields
<1>9. WrittenWhereLaidOut'
  BY <1>1, <1>2, <1>3, <1>7, <1>8 DEF WrittenWhereLaidOut
<1>10. QED
  BY <1>4, <1>5, <1>9 DEF LInv

LEMMA WriteSectionLStep == ASSUME IInv, LInv, WriteSection PROVE LInv'
<1> DEFINE d  == descs[i]
           at == PadTo(out.len, d.off)
           chunk == [at |-> at, size |-> d.size, data |-> d.data]
<1>1. /\ pc = "write" /\ pc' = "write" /\ i' = i + 1
      /\ out' = IF HasBytes(d) THEN [len |-> at + d.size, chunks |-> Append(out.chunks, chunk)]
                ELSE out
      /\ UNCHANGED <<opts, sections, relaWork, strtab, shstrtab, descs, pos>>
  BY DEF WriteSection, file, tables, relocs
<1>2. i \in 2 .. Len(descs)
  BY DEF WriteSection, LInv, Counted, IInv, TypeOK
<1>3. /\ DescsOK(descs) /\ pos \in Nat /\ Len(descs) \in Nat
      /\ WrittenWhereLaidOut
  <2>1. DescsOK(descs) /\ pos \in Nat /\ WrittenWhereLaidOut
    BY DEF LInv, Types
  <2>2. QED
    BY <2>1 DEF DescsOK
<1>4. PICK C : out \in [len : Nat, chunks : Seq(C)]
  BY DEF LInv, Types
<1>5. \A n \in 1 .. Len(descs) : descs[n].size \in Nat /\ descs[n].off \in Nat
  BY <1>3, DescFields
<1>6. Placed' = Placed /\ Placed \subseteq 2 .. Len(descs)
  BY <1>1 DEF Placed
<1>7. IndicesHit' /\ Appended'
  BY <1>1, SameDescsLemma
<1>8. i \in Placed <=> HasBytes(d)
  BY <1>1, <1>2 DEF Placed
<1>9. CASE ~HasBytes(d)
  <2>1. UNCHANGED out
    BY <1>1, <1>9
  <2>2. Types' /\ Counted' /\ BehindHeader'
    BY <1>1, <1>2, <1>3, <1>4, <2>1 DEF Types, DescsOK, Counted, BehindHeader
  <2>3. WrittenWhereLaidOut'
    BY <1>1, <1>2, <1>3, <1>6, <1>8, <1>9, <2>1 DEF WrittenWhereLaidOut
  <2>4. QED
    BY <1>7, <2>2, <2>3 DEF LInv
<1>10. CASE HasBytes(d)
  <2>1. at = d.off
    BY <1>1, <1>2, <1>3, <1>4, <1>5, <1>8, <1>10 DEF WrittenWhereLaidOut, PadTo
  <2>2. /\ out'.len = d.off + d.size
        /\ out'.chunks = Append(out.chunks, [at |-> d.off, size |-> d.size, data |-> d.data])
    BY <1>1, <1>10, <2>1
  <2>3. /\ Len(out.chunks) \in Nat
        /\ DOMAIN out.chunks = 1 .. Len(out.chunks)
        /\ DOMAIN out'.chunks = 1 .. Len(out.chunks) + 1
        /\ \A c \in DOMAIN out.chunks : out'.chunks[c] = out.chunks[c]
        /\ out'.chunks[Len(out.chunks) + 1] = [at |-> d.off, size |-> d.size, data |-> d.data]
    BY <1>4, <2>2
  <2>4. Types' /\ Counted' /\ BehindHeader'
    <3>1. out.chunks \in Seq(C) /\ C \subseteq C \cup {chunk} /\ chunk \in C \cup {chunk}
      BY <1>4
    <3>2. out.chunks \in Seq(C \cup {chunk})
      BY <3>1, SeqSubset
    <3>3. Append(out.chunks, chunk) \in Seq(C \cup {chunk})
      BY <3>2
    <3>4. at + d.size \in Nat
      BY <1>2, <1>5, <2>1
    <3>5. out' \in [len : Nat, chunks : Seq(C \cup {chunk})]
      BY <1>1, <1>10, <3>3, <3>4
    <3>6. QED
      BY <1>1, <1>2, <1>3, <3>5 DEF Types, DescsOK, Counted, BehindHeader
  <2>5. out'.len <= pos /\ \A n \in Placed : n >= i + 1 => out'.len <= descs[n].off
    BY <1>1, <1>2, <1>3, <1>5, <1>6, <1>8, <1>10, <2>2 DEF WrittenWhereLaidOut
  <2>6. ASSUME NEW n \in Placed, n < i + 1
        PROVE  \E c \in DOMAIN out'.chunks :
                 /\ out'.chunks[c].at = descs[n].off
                 /\ out'.chunks[c].size = descs[n].size
                 /\ out'.chunks[c].data = descs[n].data
    <3>1. CASE n = i
      BY <2>3, <3>1
    <3>2. CASE n < i
      <4>1. PICK c \in DOMAIN out.chunks :
              /\ out.chunks[c].at = descs[n].off
              /\ out.chunks[c].size = descs[n].size
              /\ out.chunks[c].data = descs[n].data
        BY <1>1, <1>2, <1>3, <1>6, <3>2 DEF WrittenWhereLaidOut
      <4>2. QED
        BY <2>3, <4>1
    <3>3. QED
      BY <1>2, <1>6, <2>6, <3>1, <3>2
  <2>7. WrittenWhereLaidOut'
    BY <1>1, <1>2, <1>3, <1>6, <2>5, <2>6 DEF WrittenWhereLaidOut
  <2>8. QED
    BY <1>7, <2>4, <2>7 DEF LInv
<1>11. QED
  BY <1>9, <1>10

-----------------------------------------------------------------------------
LEMMA BuildLStep == IInv /\ LInv /\ Build => LInv'
<1> SUFFICES ASSUME IInv, LInv, Build PROVE LInv'
  OBVIOUS
<1>1. CASE RelocFails \/ GroupFails \/ Deliver
  BY <1>1, ReturnLStep DEF RelocFails, GroupFails, Deliver, Fail
<1>2. CASE \/ DefineSymbol \/ SkipSymbol \/ SectionSymbolsDone \/ LocalsDone
           \/ GlobalsDone \/ ExternSymbol \/ ExternsDone
           \/ ConvertReloc \/ SectionRelocsDone
  <2>1. pc' \notin Phase3 /\ UNCHANGED <<descs, pos, out>>
    <3> USE DEF Phase3, file, layout
    <3>1. CASE DefineSymbol
      BY <3>1 DEF DefineSymbol
    <3>2. CASE SkipSymbol
      BY <3>2 DEF SkipSymbol
    <3>3. CASE SectionSymbolsDone
      BY <3>3 DEF SectionSymbolsDone, NextSection
    <3>4. CASE LocalsDone \/ GlobalsDone \/ ExternsDone
      BY <3>4 DEF LocalsDone, GlobalsDone, ExternsDone, Goto
    <3>5. CASE ExternSymbol
      BY <3>5 DEF ExternSymbol
    <3>6. CASE ConvertReloc
      BY <3>6 DEF ConvertReloc
    <3>7. CASE SectionRelocsDone
      BY <3>7 DEF SectionRelocsDone, NextSection
    <3>8. QED
      BY <1>2, <3>1, <3>2, <3>3, <3>4, <3>5, <3>6, <3>7
  <2>2. QED
    BY <2>1, QuietStep
<1>3. CASE RelocsDone
  BY <1>3, RelocsDoneLStep
<1>4. CASE ContentSection
  BY <1>4, ContentSectionLStep
<1>5. CASE RelaSection
  BY <1>5, RelaSectionLStep
<1>6. CASE GroupSection
  BY <1>6, GroupSectionLStep
<1>7. CASE ContentDone \/ RelaDone \/ NoGroup
  BY <1>7, LoopMoveStep
<1>8. CASE TailSections
  BY <1>8, TailSectionsLStep
<1>9. CASE PlaceSection
  BY <1>9, PlaceSectionLStep
<1>10. CASE LayoutDone
  BY <1>10, LayoutDoneLStep
<1>11. CASE WriteSection
  BY <1>11, WriteSectionLStep
<1>12. QED
  BY <1>1, <1>2, <1>3, <1>4, <1>5, <1>6, <1>7, <1>8, <1>9, <1>10, <1>11 DEF Build

LEMMA OtherLStep == LInv /\ (Caller \/ UNCHANGED vars) => LInv'
<1> SUFFICES ASSUME LInv, Caller \/ UNCHANGED vars PROVE LInv'
  OBVIOUS
<1>1. CASE Caller
  <2>1. pc' \notin Phase3 /\ UNCHANGED <<descs, pos, out>>
    BY <1>1 DEF Caller, AddSection, SetOSABI, EnableDWARF, EnableGNUStack, SetOption,
                WriteTo, Phase3, locals, layout
  <2>2. QED
    BY <2>1, QuietStep
<1>2. CASE UNCHANGED vars
  <2> USE DEF vars, file, tables, relocs, layout
  <2>1. Types' /\ BehindHeader'
    BY <1>2 DEF LInv, Types, DescsOK, BehindHeader
  <2>2. Counted'
    BY <1>2 DEF LInv, Counted, Groups
  <2>3. Appended' /\ IndicesHit'
    <3>1. SymtabIdx' = SymtabIdx /\ StrtabIdx' = StrtabIdx /\ ShstrtabIdx' = ShstrtabIdx
      BY <1>2 DEF SymtabIdx, StrtabIdx, ShstrtabIdx, GroupCount
    <3>2. Appended'
      BY <1>2, <3>1 DEF LInv, Appended, IsRela
    <3>3. IndicesHit'
      BY <1>2, <3>1 DEF LInv, IndicesHit
    <3>4. QED
      BY <3>2, <3>3
  <2>4. WrittenWhereLaidOut'
    <3>1. Placed' = Placed
      BY <1>2 DEF Placed
    <3>2. QED
      BY <1>2, <3>1 DEF LInv, WrittenWhereLaidOut
  <2>5. QED
    BY <2>1, <2>2, <2>3, <2>4 DEF LInv
<1>3. QED
  BY <1>1, <1>2

\* The counts, the types and the two properties hold in every reachable state.
THEOREM LayoutInductive == Spec => []LInv
<1>1. IInv /\ LInv /\ [Next]_vars => LInv'
  BY BuildLStep, OtherLStep DEF Next
<1>2. QED
  BY Inductive, InitLInv, <1>1, PTL DEF Spec

\* Once all descriptors exist, every index the build computed from counts
\* before they did (symtabIdx, strtabIdx, shstrtabIdx, the RELA link and info
\* fields) is that of the descriptor it was meant for.
THEOREM IndicesComputedRight == Spec => []IndicesHit
<1>1. LInv => IndicesHit
  BY DEF LInv
<1>2. QED
  BY LayoutInductive, <1>1, PTL

\* The sections of the image follow one another without overlap, aligned as
\* they ask, and the bytes of each lie where its header says (the layout loop
\* against padTo in the serialisation).
THEOREM LayoutHonest == Spec => []WrittenWhereLaidOut
<1>1. LInv => WrittenWhereLaidOut
  BY DEF LInv
<1>2. QED
  BY LayoutInductive, <1>1, PTL

-----------------------------------------------------------------------------
(***************************************************************************)
(* Two calls with the same input have the same outcome.  The build is a    *)
(* function: After(o, ss, s) is the state of its locals behind state s, in *)
(* a build of sections ss with options o, and GoesOn shows that every      *)
(* action of Build does just that, the one included that takes the next    *)
(* undefined name.  So a call that has returned has left behind a trace    *)
(* from the start to a state where the build ends, and two such traces are *)
(* the same.                                                               *)
(***************************************************************************)
At(p, m, n) == [pc |-> p, i |-> m, k |-> n]
SymTabs(t, idx, list, n) == [strtab |-> t, symIndex |-> idx, syms |-> list, firstGlobal |-> n]
RelaLists(some, done) == [relas |-> some, relaWork |-> done]
Parts(t, list, at, buf) == [shstrtab |-> t, descs |-> list, pos |-> at, out |-> buf]
Locals(at, symtab, entries, parts) ==
  [at |-> at, symtab |-> symtab, entries |-> entries, parts |-> parts]

State ==
  Locals(At(pc, i, k), SymTabs(strtab, symIndex, syms, firstGlobal), RelaLists(relas, relaWork),
         Parts(shstrtab, descs, pos, out))

Waiting(phase, list) ==
  Locals(At(phase, 1, 1), SymTabs(NewStrTab, EmptyMap, list, 0), RelaLists(<< >>, << >>),
         Parts(NewStrTab, << >>, 0, EmptyOut))

Starting(ss) == Waiting("locals", <<NullSym>> \o [n \in 1 .. Len(ss) |-> SectionSym(n)])

\* Goto, NextSection; the cursors one item and one section on.
Gone(s, phase) == Locals(At(phase, 1, 1), s.symtab, s.entries, s.parts)
Turned(s) == Locals(At(s.at.pc, s.at.i + 1, 1), s.symtab, s.entries, s.parts)
Further(s) == At(s.at.pc, s.at.i, s.at.k + 1)
Onward(s) == At(s.at.pc, s.at.i + 1, s.at.k)

WantedIn(phase, sym) ==
  \/ phase = "locals" /\ sym.binding = "Local" /\ sym.kind # "Section"
  \/ phase = "globals" /\ sym.binding # "Local"

\* EnterSymbol, on the tables alone.
Entering(t, name, bind, type, shndx, value) ==
  SymTabs(Intern(t.strtab, name), Put(t.symIndex, name, Len(t.syms)),
          Append(t.syms, [name |-> OffsetOf(t.strtab, name), bind |-> bind, type |-> type,
                          shndx |-> shndx, value |-> value]),
          t.firstGlobal)
Defining(t, sym, n) ==
  Entering(t, sym.name, SymBind[sym.binding], SymType[sym.kind], Uint16(n), sym.offset)

AfterSymbols(ss, s) ==
  LET t   == s.symtab
      sym == ss[s.at.i].symbols[s.at.k]
  IN  IF s.at.i > Len(ss)
      THEN IF s.at.pc = "globals" THEN Gone(s, "externs")
           ELSE Locals(At("globals", 1, 1), SymTabs(t.strtab, t.symIndex, t.syms, Len(t.syms)),
                       s.entries, s.parts)
      ELSE IF s.at.k > Len(ss[s.at.i].symbols) THEN Turned(s)
      ELSE Locals(Further(s), IF WantedIn(s.at.pc, sym) THEN Defining(t, sym, s.at.i) ELSE t,
                  s.entries, s.parts)

Todo(ss, s) == ExternalSymbols(ss) \ DOMAIN s.symtab.symIndex
Least(S) == CHOOSE name \in S : \A other \in S : Rank(name) <= Rank(other)

AfterExterns(ss, s) ==
  IF Todo(ss, s) = {} THEN Gone(s, "relocs")
  ELSE Locals(s.at, Entering(s.symtab, Least(Todo(ss, s)), "GLOBAL", "NOTYPE", 0, 0), s.entries,
              s.parts)

EntryIn(o, idx, r) ==
  [offset |-> r.offset, sym |-> SymNum(o.arch, idx[r.symbol]),
   type |-> RelocType(o.arch, r.kind), addend |-> Addend(o.arch, r.addend)]

AfterRelocs(o, ss, s) ==
  LET e  == s.entries
      rs == ss[s.at.i].relocs
  IN  IF s.at.i > Len(ss)
      THEN Locals(At("content", 1, 1), s.symtab, e,
                  Parts(Intern(NewStrTab, NoName), <<NullDesc>>, s.parts.pos, s.parts.out))
      ELSE IF s.at.k > Len(rs)
      THEN Locals(At(s.at.pc, s.at.i + 1, 1), s.symtab,
                  RelaLists(<< >>, IF rs = << >> THEN e.relaWork
                                 ELSE Append(e.relaWork, [content |-> s.at.i, data |-> e.relas])),
                  s.parts)
      ELSE Locals(Further(s), s.symtab,
                  RelaLists(Append(e.relas, EntryIn(o, s.symtab.symIndex, rs[s.at.k])), e.relaWork),
                  s.parts)

SymtabAt(o, ss, works) ==
  1 + Len(ss) + Len(works) + Cardinality({n \in DOMAIN ss : ss[n].linkOnce})
    + (IF o.gnuStack THEN 1 ELSE 0)

ContentIn(o, ss, n) ==
  LET s     == ss[n]
      bytes == IF NoBits(s) \/ s.kind = "Unknown" THEN 0 ELSE s.size
  IN  [NullDesc EXCEPT
         !.name   = SectionName(s),
         !.type   = ContentType(s),
         !.align  = IF s.align > 0 THEN s.align ELSE DefaultAlign(o.arch, s),
         !.size   = bytes,
         !.data   = IF bytes = 0 THEN << >> ELSE <<n>>,
         !.noSize = IF NoBits(s) THEN VirtualSize(s) ELSE 0]

RelaIn(o, ss, works, rw) ==
  [NullDesc EXCEPT
     !.name  = RelaName(ss[rw.content]),
     !.type  = "RELA",
     !.align = Class(o.arch).word,
     !.link  = SymtabAt(o, ss, works),
     !.info  = rw.content,
     !.size  = Class(o.arch).rela * Len(rw.data),
     !.data  = rw.data]

SignersIn(s, idx) ==
  {n \in DOMAIN s.symbols : s.symbols[n].binding # "Local" /\ s.symbols[n].name \in DOMAIN idx}

MembersIn(ss, works, n) ==
  <<n>> \o (IF \E j \in DOMAIN works : works[j].content = n
            THEN <<Len(ss) + (CHOOSE j \in DOMAIN works : works[j].content = n)>>
            ELSE << >>)

GroupIn(o, ss, works, idx, n) ==
  [NullDesc EXCEPT
     !.name  = <<".group">>,
     !.type  = "GROUP",
     !.align = 4,
     !.link  = SymtabAt(o, ss, works),
     !.info  = idx[ss[n].symbols[First(SignersIn(ss[n], idx))].name],
     !.size  = 4 * (1 + Len(MembersIn(ss, works, n))),
     !.data  = MembersIn(ss, works, n)]

\* AddDesc, on the descriptors alone.
Described(p, d) == Parts(Intern(p.shstrtab, d.name), Append(p.descs, d), p.pos, p.out)

AfterContent(o, ss, s) ==
  IF s.at.i > Len(ss) THEN Gone(s, "rela")
  ELSE Locals(Onward(s), s.symtab, s.entries, Described(s.parts, ContentIn(o, ss, s.at.i)))

AfterRela(o, ss, s) ==
  LET works == s.entries.relaWork
  IN  IF s.at.i > Len(works) THEN Gone(s, "group")
      ELSE Locals(Onward(s), s.symtab, s.entries,
                  Described(s.parts, RelaIn(o, ss, works, works[s.at.i])))

TailTable(o, t) ==
  LET u == IF o.gnuStack THEN Intern(t, <<".note.GNU-stack">>) ELSE t
  IN  Intern(Intern(Intern(u, <<".symtab">>), <<".strtab">>), <<".shstrtab">>)

TailIn(o, ss, s) ==
  (IF o.gnuStack
   THEN <<[NullDesc EXCEPT !.name = <<".note.GNU-stack">>, !.type = "PROGBITS",
                           !.align = 1]>>
   ELSE << >>)
  \o <<[NullDesc EXCEPT
          !.name  = <<".symtab">>,
          !.type  = "SYMTAB",
          !.align = Class(o.arch).word,
          !.link  = SymtabAt(o, ss, s.entries.relaWork) + 1,
          !.info  = s.symtab.firstGlobal,
          !.size  = Class(o.arch).sym * Len(s.symtab.syms),
          !.data  = s.symtab.syms],
       StrDesc(<<".strtab">>, s.symtab.strtab.data),
       StrDesc(<<".shstrtab">>, TailTable(o, s.parts.shstrtab).data)>>

AfterGroup(o, ss, s) ==
  LET p     == s.parts
      works == s.entries.relaWork
  IN  IF s.at.i > Len(ss)
      THEN Locals(At("layout", 2, 1), s.symtab, s.entries,
                  Parts(TailTable(o, p.shstrtab), p.descs \o TailIn(o, ss, s),
                        Class(o.arch).ehdr, p.out))
      ELSE Locals(Onward(s), s.symtab, s.entries,
                  IF ss[s.at.i].linkOnce
                  THEN Described(p, GroupIn(o, ss, works, s.symtab.symIndex, s.at.i)) ELSE p)

PlaceIn(d, from) == IF d.type # "NOBITS" /\ d.size = 0 THEN from ELSE AlignUp(from, d.align)
PassedIn(d, from) == PlaceIn(d, from) + (IF d.type = "NOBITS" THEN 0 ELSE d.size)

AfterLayout(o, s) ==
  LET p == s.parts
      d == p.descs[s.at.i]
  IN  IF s.at.i > Len(p.descs)
      THEN Locals(At("write", 2, 1), s.symtab, s.entries,
                  Parts(p.shstrtab, p.descs, AlignUp(p.pos, Class(o.arch).word),
                        [EmptyOut EXCEPT !.len = Class(o.arch).ehdr]))
      ELSE Locals(Onward(s), s.symtab, s.entries,
                  Parts(p.shstrtab, [p.descs EXCEPT ![s.at.i].off = PlaceIn(d, p.pos)],
                        PassedIn(d, p.pos), p.out))

WrittenIn(buf, d) ==
  LET at == PadTo(buf.len, d.off)
  IN  IF HasBytes(d)
      THEN [len |-> at + d.size,
            chunks |-> Append(buf.chunks, [at |-> at, size |-> d.size, data |-> d.data])]
      ELSE buf

AfterWrite(s) ==
  LET p == s.parts
  IN  Locals(Onward(s), s.symtab, s.entries,
             Parts(p.shstrtab, p.descs, p.pos, WrittenIn(p.out, p.descs[s.at.i])))

After(o, ss, s) ==
  CASE s.at.pc \in {"locals", "globals"} -> AfterSymbols(ss, s)
    [] s.at.pc = "externs" -> AfterExterns(ss, s)
    [] s.at.pc = "relocs"  -> AfterRelocs(o, ss, s)
    [] s.at.pc = "content" -> AfterContent(o, ss, s)
    [] s.at.pc = "rela"    -> AfterRela(o, ss, s)
    [] s.at.pc = "group"   -> AfterGroup(o, ss, s)
    [] s.at.pc = "layout"  -> AfterLayout(o, s)
    [] s.at.pc = "write"   -> AfterWrite(s)

\* The states with which the build ends, and the outcome of a call there.
Stuck(o, s, r) == ~(r.symbol \in DOMAIN s.symtab.symIndex /\ Supported(o.arch, r.kind))

Ends(o, ss, s) ==
  \/ /\ s.at.pc = "relocs" /\ ~(s.at.i > Len(ss)) /\ ~(s.at.k > Len(ss[s.at.i].relocs))
     /\ Stuck(o, s, ss[s.at.i].relocs[s.at.k])
  \/ /\ s.at.pc = "group" /\ ~(s.at.i > Len(ss)) /\ ss[s.at.i].linkOnce
     /\ SignersIn(ss[s.at.i], s.symtab.symIndex) = {}
  \/ s.at.pc = "write" /\ s.at.i > Len(s.parts.descs)

Complaint(s) == IF s.at.pc = "relocs" THEN "relocation" ELSE "comdat"

HeaderIn(o, t, d) ==
  [name |-> Lookup(t, d.name), type |-> d.type, link |-> d.link,
   info |-> d.info, align |-> d.align, off |-> Size(o.arch, d.off),
   size |-> Size(o.arch, IF d.type = "NOBITS" THEN d.noSize ELSE d.size)]

ImageIn(o, ss, s) ==
  LET p == s.parts
  IN  [arch     |-> o.arch,
       osabi    |-> o.osabi,
       shoff    |-> Size(o.arch, p.pos),
       shnum    |-> Uint16(Len(p.descs)),
       shstrndx |-> Uint16(SymtabAt(o, ss, s.entries.relaWork) + 2),
       chunks   |-> p.out.chunks,
       shdrs    |-> [n \in 1 .. Len(p.descs) |-> HeaderIn(o, p.shstrtab, p.descs[n])],
       shdrsAt  |-> PadTo(p.out.len, p.pos)]

\* The outcome of a call with this input that ends in s, of which the writer
\* took w if there was something to take.
OutcomeIn(input, s, w) ==
  IF s.at.pc = "write"
  THEN [status |-> "built", input |-> input, image |-> ImageIn(input.opts, input.sections, s),
        written |-> w]
  ELSE [status |-> "failed", input |-> input, error |-> Complaint(s), written |-> "none"]

\* f[0 .. n] is the build's way from its start.
Trace(o, ss, f, n) ==
  /\ f[0] = Starting(ss)
  /\ \A m \in 0 .. n - 1 : ~Ends(o, ss, f[m]) /\ f[m + 1] = After(o, ss, f[m])

Reaches(o, ss, s) == \E n \in Nat : \E f : Trace(o, ss, f, n) /\ f[n] = s

\* The options the build looks at are the File's.
SameOptions(o) == o.arch = opts.arch /\ o.osabi = opts.osabi /\ o.gnuStack = opts.gnuStack

\* Where the build is, and where the last call was when it returned.
EndedIn(o, ss, call) ==
  \E s, w : /\ Reaches(o, ss, s) /\ Ends(o, ss, s)
            /\ call = OutcomeIn([opts |-> o, sections |-> ss], s, w)

Replays ==
  /\ pc = "idle" => State = Waiting("idle", << >>)
  /\ pc # "idle" => Reaches(opts, sections, State)
  /\ last # NoCall => \E o \in Options : \E ss : EndedIn(o, ss, last)

LEMMA TracesAgree ==
  ASSUME NEW o, NEW ss, NEW n \in Nat, NEW f, Trace(o, ss, f, n), NEW g, Trace(o, ss, g, n)
  PROVE  \A m \in 0 .. n : f[m] = g[m]
<1> DEFINE S == {m \in Nat : m <= n => f[m] = g[m]}
<1>1. 0 \in S
  BY DEF Trace
<1>2. ASSUME NEW m \in Nat, m \in S PROVE m + 1 \in S
  <2> SUFFICES ASSUME m + 1 <= n PROVE f[m + 1] = g[m + 1]
    OBVIOUS
  <2>1. f[m] = g[m] /\ m \in 0 .. n - 1
    BY <1>2
  <2>2. f[m + 1] = After(o, ss, f[m]) /\ g[m + 1] = After(o, ss, g[m])
    BY <2>1 DEF Trace
  <2>3. QED
    BY <2>1, <2>2
<1>3. Nat \subseteq S
  <2> HIDE DEF S
  <2>1. QED
    BY <1>1, <1>2, Counting
<1>4. QED
  BY <1>3

\* Of two traces that both end where the build ends, none goes on longer.
LEMMA OneEnd ==
  ASSUME NEW o, NEW ss, NEW n \in Nat, NEW m \in Nat, n <= m,
         NEW f, Trace(o, ss, f, n), NEW g, Trace(o, ss, g, m), Ends(o, ss, f[n])
  PROVE  f[n] = g[m]
<1>1. Trace(o, ss, g, n)
  <2>1. \A q \in 0 .. n - 1 : q \in 0 .. m - 1
    OBVIOUS
  <2>2. QED
    BY <2>1 DEF Trace
<1>2. f[n] = g[n]
  BY <1>1, TracesAgree
<1>3. CASE n < m
  <2>1. ~Ends(o, ss, g[n])
    BY <1>3 DEF Trace
  <2>2. QED
    BY <1>2, <2>1
<1>4. QED
  BY <1>2, <1>3

LEMMA EndsMeet ==
  ASSUME NEW o, NEW ss, NEW s, NEW t, Reaches(o, ss, s), Reaches(o, ss, t), Ends(o, ss, s),
         Ends(o, ss, t)
  PROVE  s = t
<1>1. PICK n, f : n \in Nat /\ Trace(o, ss, f, n) /\ f[n] = s
  BY DEF Reaches
<1>2. PICK m, g : m \in Nat /\ Trace(o, ss, g, m) /\ g[m] = t
  BY DEF Reaches
<1>3. CASE n <= m
  BY <1>1, <1>2, <1>3, OneEnd
<1>4. CASE m <= n
  BY <1>1, <1>2, <1>4, OneEnd
<1>5. QED
  BY <1>1, <1>2, <1>3, <1>4

LEMMA ReachesNext ==
  ASSUME NEW o, NEW ss, NEW s, NEW t, Reaches(o, ss, s), ~Ends(o, ss, s), t = After(o, ss, s)
  PROVE  Reaches(o, ss, t)
<1>1. PICK n, f : n \in Nat /\ Trace(o, ss, f, n) /\ f[n] = s
  BY DEF Reaches
<1> DEFINE g == [m \in 0 .. n + 1 |-> IF m <= n THEN f[m] ELSE t]
<1>2. (\A m \in 0 .. n : g[m] = f[m]) /\ g[n + 1] = t
  BY <1>1
<1> HIDE DEF g
<1>3. g[0] = Starting(ss)
  BY <1>1, <1>2 DEF Trace
<1>4. ASSUME NEW m \in 0 .. n PROVE ~Ends(o, ss, g[m]) /\ g[m + 1] = After(o, ss, g[m])
  <2>1. CASE m < n
    <3>1. g[m] = f[m] /\ g[m + 1] = f[m + 1] /\ m \in 0 .. n - 1
      BY <1>1, <1>2, <2>1
    <3>2. QED
      BY <1>1, <3>1 DEF Trace
  <2>2. CASE m = n
    BY <1>1, <1>2, <2>2
  <2>3. QED
    BY <1>1, <2>1, <2>2
<1>5. Trace(o, ss, g, n + 1)
  BY <1>1, <1>3, <1>4 DEF Trace
<1>6. QED
  BY <1>1, <1>2, <1>5 DEF Reaches

\* What is where in State.
LEMMA ReadState ==
  /\ State.at = At(pc, i, k) /\ State.symtab = SymTabs(strtab, symIndex, syms, firstGlobal)
  /\ State.entries = RelaLists(relas, relaWork) /\ State.parts = Parts(shstrtab, descs, pos, out)
  /\ State.at.pc = pc /\ State.at.i = i /\ State.at.k = k
  /\ State.symtab.strtab = strtab /\ State.symtab.symIndex = symIndex
  /\ State.symtab.syms = syms /\ State.symtab.firstGlobal = firstGlobal
  /\ State.entries.relas = relas /\ State.entries.relaWork = relaWork
  /\ State.parts.shstrtab = shstrtab /\ State.parts.descs = descs
  /\ State.parts.pos = pos /\ State.parts.out = out
BY DEF State, Locals, At, SymTabs, RelaLists, Parts

LEMMA ReadCursor ==
  /\ Onward(State) = At(pc, i + 1, k) /\ Further(State) = At(pc, i, k + 1)
  /\ Turned(State) = Locals(At(pc, i + 1, 1), State.symtab, State.entries, State.parts)
BY ReadState DEF Onward, Further, Turned

\* Every step keeps this form of the locals.
LEMMA MadeOf ==
  ASSUME NEW p, NEW m, NEW n, pc' = p, i' = m, k' = n
  PROVE  /\ UNCHANGED <<relocs, layout>> =>
              State' = Locals(At(p, m, n), SymTabs(strtab, symIndex, syms, firstGlobal)',
                              State.entries, State.parts)
         /\ UNCHANGED <<tables, layout>> =>
              State' = Locals(At(p, m, n), State.symtab, RelaLists(relas, relaWork)', State.parts)
         /\ UNCHANGED <<tables, relocs>> =>
              State' = Locals(At(p, m, n), State.symtab, State.entries,
                              Parts(shstrtab, descs, pos, out)')
         /\ UNCHANGED <<tables, relocs, layout>> =>
              State' = Locals(At(p, m, n), State.symtab, State.entries, State.parts)
BY ReadState DEF State, tables, relocs, layout

LEMMA CursorType ==
  ASSUME IInv
  PROVE  /\ i \in Nat /\ k \in Nat /\ Len(sections) \in Nat /\ Len(relaWork) \in Nat
         /\ i <= Len(sections) =>
              Len(sections[i].symbols) \in Nat /\ Len(sections[i].relocs) \in Nat
<1>1. /\ i \in Nat \ {0} /\ k \in Nat /\ sections \in Seq(Sections)
      /\ relaWork \in Seq(RelaSections)
  BY DEF IInv, TypeOK
<1>2. Len(sections) \in Nat /\ Len(relaWork) \in Nat
  BY <1>1
<1>3. ASSUME i <= Len(sections)
      PROVE  Len(sections[i].symbols) \in Nat /\ Len(sections[i].relocs) \in Nat
  <2>1. i \in 1 .. Len(sections)
    BY <1>1, <1>2, <1>3
  <2>2. sections[i].symbols \in Seq(Symbol) /\ sections[i].relocs \in Seq(Reloc)
    BY <2>1, SectionType DEF IInv
  <2>3. QED
    BY <2>2
<1>4. QED
  BY <1>1, <1>2, <1>3

LEMMA EnteringIs ==
  ASSUME NEW name, NEW bind, NEW type, NEW shndx, NEW value,
         EnterSymbol(name, bind, type, shndx, value), UNCHANGED firstGlobal
  PROVE  SymTabs(strtab, symIndex, syms, firstGlobal)'
           = Entering(State.symtab, name, bind, type, shndx, value)
<1>1. Entering(State.symtab, name, bind, type, shndx, value)
        = SymTabs(Intern(strtab, name), Put(symIndex, name, Len(syms)),
                  Append(syms, NewEntry(name, bind, type, shndx, value)), firstGlobal)
  BY ReadState DEF Entering, NewEntry
<1>2. QED
  BY <1>1 DEF EnterSymbol

LEMMA SymbolsAfter ==
  ASSUME IInv, pc \in {"locals", "globals"},
         DefineSymbol \/ SkipSymbol \/ SectionSymbolsDone \/ LocalsDone \/ GlobalsDone
  PROVE  State' = AfterSymbols(sections, State)
<1>1. PICK sym : sym = sections[i].symbols[k]
  OBVIOUS
<1>2. Wanted(sym) <=> WantedIn(pc, sym)
  BY DEF Wanted, WantedIn
<1>3. CASE DefineSymbol
  <2>1. ~(i > Len(sections)) /\ ~(k > Len(sections[i].symbols)) /\ WantedIn(pc, sym)
    BY <1>1, <1>2, <1>3, CursorType DEF DefineSymbol, AtSymbol
  <2>2. /\ EnterSymbol(sym.name, SymBind[sym.binding], SymType[sym.kind], Uint16(i), sym.offset)
        /\ UNCHANGED firstGlobal
    BY <1>1, <1>3 DEF DefineSymbol
  <2>3. SymTabs(strtab, symIndex, syms, firstGlobal)' = Defining(State.symtab, sym, i)
    BY <2>2, EnteringIs DEF Defining
  <2>4. AfterSymbols(sections, State) =
          Locals(At(pc, i, k + 1), SymTabs(strtab, symIndex, syms, firstGlobal)',
                 State.entries, State.parts)
    BY <1>1, <2>1, <2>3, ReadState, ReadCursor DEF AfterSymbols
  <2>5. pc' = pc /\ i' = i /\ k' = k + 1 /\ UNCHANGED <<relocs, layout>>
    BY <1>3 DEF DefineSymbol
  <2>6. QED
    BY <2>4, <2>5, MadeOf
<1>4. CASE SkipSymbol
  <2>1. ~(i > Len(sections)) /\ ~(k > Len(sections[i].symbols)) /\ ~WantedIn(pc, sym)
    BY <1>1, <1>2, <1>4, CursorType DEF SkipSymbol, AtSymbol
  <2>2. AfterSymbols(sections, State) =
          Locals(At(pc, i, k + 1), State.symtab, State.entries, State.parts)
    BY <1>1, <2>1, ReadState, ReadCursor DEF AfterSymbols
  <2>3. pc' = pc /\ i' = i /\ k' = k + 1 /\ UNCHANGED <<tables, relocs, layout>>
    BY <1>4 DEF SkipSymbol
  <2>4. QED
    BY <2>2, <2>3, MadeOf
<1>5. CASE SectionSymbolsDone
  <2>1. ~(i > Len(sections)) /\ k > Len(sections[i].symbols)
    BY <1>5, CursorType DEF SectionSymbolsDone
  <2>2. AfterSymbols(sections, State) =
          Locals(At(pc, i + 1, 1), State.symtab, State.entries, State.parts)
    BY <2>1, ReadState, ReadCursor DEF AfterSymbols
  <2>3. pc' = pc /\ i' = i + 1 /\ k' = 1 /\ UNCHANGED <<tables, relocs, layout>>
    BY <1>5 DEF SectionSymbolsDone, NextSection
  <2>4. QED
    BY <2>2, <2>3, MadeOf
<1>6. CASE LocalsDone
  <2>1. pc = "locals" /\ i > Len(sections) /\ firstGlobal' = Len(syms)
    BY <1>6 DEF LocalsDone
  <2>2. pc' = "globals" /\ i' = 1 /\ k' = 1 /\ UNCHANGED <<strtab, symIndex, syms, relocs, layout>>
    BY <1>6 DEF LocalsDone, Goto
  <2>3. AfterSymbols(sections, State) =
          Locals(At("globals", 1, 1), SymTabs(strtab, symIndex, syms, firstGlobal)',
                 State.entries, State.parts)
    BY <2>1, <2>2, ReadState DEF AfterSymbols
  <2>4. QED
    BY <2>2, <2>3, MadeOf
<1>7. CASE GlobalsDone
  <2>1. pc = "globals" /\ i > Len(sections)
    BY <1>7 DEF GlobalsDone
  <2>2. AfterSymbols(sections, State) =
          Locals(At("externs", 1, 1), State.symtab, State.entries, State.parts)
    BY <2>1, ReadState DEF AfterSymbols, Gone
  <2>3. pc' = "externs" /\ i' = 1 /\ k' = 1 /\ UNCHANGED <<tables, relocs, layout>>
    BY <1>7 DEF GlobalsDone, Goto
  <2>4. QED
    BY <2>2, <2>3, MadeOf
<1>8. QED
  BY <1>3, <1>4, <1>5, <1>6, <1>7

\* The undefined names have an order, so that at most one comes first.
LEMMA OneLeast ==
  ASSUME IInv, NEW todo, todo \subseteq ExternalSymbols(sections), NEW name \in todo,
         \A other \in todo : Rank(name) <= Rank(other)
  PROVE  name = Least(todo)
<1>1. ASSUME NEW a \in todo
      PROVE  a \in UNION {ReferencedNames(<<s>>) : s \in Sections}
  <2>1. PICK n \in DOMAIN sections : \E m \in DOMAIN sections[n].relocs :
          a = sections[n].relocs[m].symbol
    BY <1>1 DEF ExternalSymbols, ReferencedNames
  <2>2. PICK m \in DOMAIN sections[n].relocs : a = sections[n].relocs[m].symbol
    BY <2>1
  <2>3. PICK s \in Sections : s = sections[n]
    BY <2>1 DEF IInv, TypeOK
  <2>4. DOMAIN <<s>> = {1} /\ <<s>>[1] = s
    OBVIOUS
  <2>5. a \in {<<s>>[1].relocs[q].symbol : q \in DOMAIN <<s>>[1].relocs}
    BY <2>2, <2>3, <2>4
  <2>6. a \in ReferencedNames(<<s>>)
    BY <2>4, <2>5 DEF ReferencedNames
  <2>7. QED
    BY <2>6
<1>2. PICK a : a = Least(todo)
  OBVIOUS
<1>3. a \in todo /\ \A other \in todo : Rank(a) <= Rank(other)
  BY <1>2 DEF Least
<1>4. Rank(a) \in Nat /\ Rank(name) \in Nat /\ (Rank(a) = Rank(name) => a = name)
  BY <1>1, <1>3, RankAssumption
<1>5. Rank(a) <= Rank(name) /\ Rank(name) <= Rank(a)
  BY <1>3
<1>6. QED
  BY <1>2, <1>4, <1>5

LEMMA ExternsAfter ==
  ASSUME IInv, pc = "externs", ExternSymbol \/ ExternsDone
  PROVE  State' = AfterExterns(sections, State)
<1>1. PICK todo : todo = Undefined
  OBVIOUS
<1>2. Todo(sections, State) = todo /\ todo \subseteq ExternalSymbols(sections)
  BY <1>1, ReadState DEF Todo, Undefined
<1>3. CASE ExternSymbol
  <2>1. PICK name \in todo :
          /\ \A other \in todo : Rank(name) <= Rank(other)
          /\ EnterSymbol(name, "GLOBAL", "NOTYPE", 0, 0)
    BY <1>1, <1>3 DEF ExternSymbol
  <2>2. name = Least(todo)
    BY <1>2, <2>1, OneLeast
  <2>3. pc' = pc /\ i' = i /\ k' = k /\ UNCHANGED <<firstGlobal, relocs, layout>>
    BY <1>3 DEF ExternSymbol
  <2>4. SymTabs(strtab, symIndex, syms, firstGlobal)'
          = Entering(State.symtab, name, "GLOBAL", "NOTYPE", 0, 0)
    BY <2>1, <2>3, EnteringIs
  <2>5. AfterExterns(sections, State) =
          Locals(At(pc, i, k), SymTabs(strtab, symIndex, syms, firstGlobal)',
                 State.entries, State.parts)
    BY <1>2, <2>1, <2>2, <2>4, ReadState DEF AfterExterns
  <2>6. QED
    BY <2>3, <2>5, MadeOf
<1>4. CASE ExternsDone
  <2>1. todo = {}
    BY <1>1, <1>4 DEF ExternsDone
  <2>2. AfterExterns(sections, State) =
          Locals(At("relocs", 1, 1), State.symtab, State.entries, State.parts)
    BY <1>2, <2>1 DEF AfterExterns, Gone
  <2>3. pc' = "relocs" /\ i' = 1 /\ k' = 1 /\ UNCHANGED <<tables, relocs, layout>>
    BY <1>4 DEF ExternsDone, Goto
  <2>4. QED
    BY <2>2, <2>3, MadeOf
<1>5. QED
  BY <1>3, <1>4

LEMMA RelocsAfter ==
  ASSUME IInv, NEW o, SameOptions(o), pc = "relocs", ConvertReloc \/ SectionRelocsDone \/ RelocsDone
  PROVE  State' = AfterRelocs(o, sections, State)
<1>1. CASE ConvertReloc
  <2>1. PICK r : r = sections[i].relocs[k]
    OBVIOUS
  <2>2. ~(i > Len(sections)) /\ ~(k > Len(sections[i].relocs))
    BY <1>1, CursorType DEF ConvertReloc, AtReloc
  <2>3. RelaEntry(r) = EntryIn(o, symIndex, r)
    BY DEF RelaEntry, EntryIn, SameOptions
  <2>4. relas' = Append(relas, EntryIn(o, symIndex, r)) /\ UNCHANGED relaWork
    BY <1>1, <2>1, <2>3 DEF ConvertReloc
  <2>5. AfterRelocs(o, sections, State) =
          Locals(At(pc, i, k + 1), State.symtab, RelaLists(relas, relaWork)', State.parts)
    BY <2>1, <2>2, <2>4, ReadState, ReadCursor DEF AfterRelocs
  <2>6. pc' = pc /\ i' = i /\ k' = k + 1 /\ UNCHANGED <<tables, layout>>
    BY <1>1 DEF ConvertReloc
  <2>7. QED
    BY <2>5, <2>6, MadeOf
<1>2. CASE SectionRelocsDone
  <2>1. PICK rs : rs = sections[i].relocs
    OBVIOUS
  <2>2. ~(i > Len(sections)) /\ k > Len(rs)
    BY <1>2, <2>1, CursorType DEF SectionRelocsDone
  <2>3. /\ relaWork' = IF rs = << >> THEN relaWork
                       ELSE Append(relaWork, [content |-> i, data |-> relas])
        /\ relas' = << >>
    BY <1>2, <2>1 DEF SectionRelocsDone
  <2>4. AfterRelocs(o, sections, State) =
          Locals(At(pc, i + 1, 1), State.symtab, RelaLists(relas, relaWork)', State.parts)
    BY <2>1, <2>2, <2>3, ReadState DEF AfterRelocs
  <2>5. pc' = pc /\ i' = i + 1 /\ k' = 1 /\ UNCHANGED <<tables, layout>>
    BY <1>2 DEF SectionRelocsDone, NextSection
  <2>6. QED
    BY <2>4, <2>5, MadeOf
<1>3. CASE RelocsDone
  <2>1. i > Len(sections) /\ shstrtab' = Intern(NewStrTab, NoName) /\ descs' = <<NullDesc>>
    BY <1>3 DEF RelocsDone
  <2>2. pc' = "content" /\ i' = 1 /\ k' = 1 /\ UNCHANGED <<tables, relocs, pos, out>>
    BY <1>3 DEF RelocsDone, Goto
  <2>3. AfterRelocs(o, sections, State) =
          Locals(At("content", 1, 1), State.symtab, State.entries,
                 Parts(shstrtab, descs, pos, out)')
    BY <2>1, <2>2, ReadState DEF AfterRelocs
  <2>4. QED
    BY <2>2, <2>3, MadeOf
<1>4. QED
  BY <1>1, <1>2, <1>3

LEMMA DescribedIs ==
  ASSUME NEW d, AddDesc(d), UNCHANGED <<pos, out>>
  PROVE  Parts(shstrtab, descs, pos, out)' = Described(State.parts, d)
BY ReadState DEF AddDesc, Described

\* The descriptors and the indices in them are those of the build's tables.
LEMMA DescsIn ==
  ASSUME NEW o, SameOptions(o)
  PROVE  /\ SymtabAt(o, sections, relaWork) = SymtabIdx
         /\ \A n : ContentIn(o, sections, n) = ContentDesc(n)
         /\ \A rw : RelaIn(o, sections, relaWork, rw) = RelaDesc(rw)
         /\ \A n : GroupIn(o, sections, relaWork, symIndex, n) = GroupDesc(n)
         /\ \A s : SignersIn(s, symIndex) = Signatures(s)
<1>1. SymtabAt(o, sections, relaWork) = SymtabIdx
  BY DEF SymtabAt, SymtabIdx, GroupCount, SameOptions
<1>2. \A n : ContentIn(o, sections, n) = ContentDesc(n)
  BY DEF ContentIn, ContentDesc, SameOptions
<1>3. \A rw : RelaIn(o, sections, relaWork, rw) = RelaDesc(rw)
  BY <1>1 DEF RelaIn, RelaDesc, SameOptions
<1>4. \A s : SignersIn(s, symIndex) = Signatures(s)
  BY DEF SignersIn, Signatures
<1>5. \A n : MembersIn(sections, relaWork, n) = Members(n)
  BY DEF MembersIn, Members
<1>6. \A n : GroupIn(o, sections, relaWork, symIndex, n) = GroupDesc(n)
  BY <1>1, <1>4, <1>5 DEF GroupIn, GroupDesc
<1>7. QED
  BY <1>1, <1>2, <1>3, <1>4, <1>6

LEMMA ContentAfter ==
  ASSUME IInv, NEW o, SameOptions(o), pc = "content", ContentSection \/ ContentDone
  PROVE  State' = AfterContent(o, sections, State)
<1>1. CASE ContentSection
  <2>1. ~(i > Len(sections)) /\ AddDesc(ContentIn(o, sections, i)) /\ UNCHANGED <<pos, out>>
    BY <1>1, CursorType, DescsIn DEF ContentSection
  <2>2. Parts(shstrtab, descs, pos, out)' = Described(State.parts, ContentIn(o, sections, i))
    BY <2>1, DescribedIs
  <2>3. AfterContent(o, sections, State) =
          Locals(At(pc, i + 1, k), State.symtab, State.entries, Parts(shstrtab, descs, pos, out)')
    BY <2>1, <2>2, ReadState, ReadCursor DEF AfterContent
  <2>4. pc' = pc /\ i' = i + 1 /\ k' = k /\ UNCHANGED <<tables, relocs>>
    BY <1>1 DEF ContentSection
  <2>5. QED
    BY <2>3, <2>4, MadeOf
<1>2. CASE ContentDone
  <2>1. i > Len(sections)
    BY <1>2 DEF ContentDone
  <2>2. AfterContent(o, sections, State) =
          Locals(At("rela", 1, 1), State.symtab, State.entries, State.parts)
    BY <2>1, ReadState DEF AfterContent, Gone
  <2>3. pc' = "rela" /\ i' = 1 /\ k' = 1 /\ UNCHANGED <<tables, relocs, layout>>
    BY <1>2 DEF ContentDone, Goto
  <2>4. QED
    BY <2>2, <2>3, MadeOf
<1>3. QED
  BY <1>1, <1>2

LEMMA RelaAfter ==
  ASSUME IInv, NEW o, SameOptions(o), pc = "rela", RelaSection \/ RelaDone
  PROVE  State' = AfterRela(o, sections, State)
<1>1. CASE RelaSection
  <2>1. PICK d : d = RelaIn(o, sections, relaWork, relaWork[i])
    OBVIOUS
  <2>2. ~(i > Len(relaWork)) /\ AddDesc(d) /\ UNCHANGED <<pos, out>>
    BY <1>1, <2>1, CursorType, DescsIn DEF RelaSection
  <2>3. Parts(shstrtab, descs, pos, out)' = Described(State.parts, d)
    BY <2>2, DescribedIs
  <2>4. AfterRela(o, sections, State) =
          Locals(At(pc, i + 1, k), State.symtab, State.entries, Parts(shstrtab, descs, pos, out)')
    BY <2>1, <2>2, <2>3, ReadState, ReadCursor DEF AfterRela
  <2>5. pc' = pc /\ i' = i + 1 /\ k' = k /\ UNCHANGED <<tables, relocs>>
    BY <1>1 DEF RelaSection
  <2>6. QED
    BY <2>4, <2>5, MadeOf
<1>2. CASE RelaDone
  <2>1. i > Len(relaWork)
    BY <1>2 DEF RelaDone
  <2>2. AfterRela(o, sections, State) =
          Locals(At("group", 1, 1), State.symtab, State.entries, State.parts)
    BY <2>1, ReadState DEF AfterRela, Gone
  <2>3. pc' = "group" /\ i' = 1 /\ k' = 1 /\ UNCHANGED <<tables, relocs, layout>>
    BY <1>2 DEF RelaDone, Goto
  <2>4. QED
    BY <2>2, <2>3, MadeOf
<1>3. QED
  BY <1>1, <1>2

LEMMA TailIs ==
  ASSUME NEW o, SameOptions(o)
  PROVE  TailTable(o, shstrtab) = TailShstrtab /\ TailIn(o, sections, State) = TailDescs
<1>1. TailTable(o, shstrtab) = TailShstrtab
  BY DEF TailTable, TailShstrtab, SameOptions
<1>2. SymtabAt(o, sections, relaWork) + 1 = StrtabIdx
  BY DescsIn DEF StrtabIdx
<1>3. TailIn(o, sections, State) = TailDescs
  BY <1>1, <1>2, ReadState DEF TailIn, TailDescs, SameOptions
<1>4. QED
  BY <1>1, <1>3

LEMMA GroupAfter ==
  ASSUME IInv, NEW o, SameOptions(o), pc = "group", GroupSection \/ NoGroup \/ TailSections
  PROVE  State' = AfterGroup(o, sections, State)
<1>1. CASE GroupSection
  <2>1. PICK d : d = GroupIn(o, sections, relaWork, symIndex, i)
    OBVIOUS
  <2>2. /\ ~(i > Len(sections)) /\ sections[i].linkOnce
        /\ AddDesc(d) /\ UNCHANGED <<pos, out>>
    BY <1>1, <2>1, CursorType, DescsIn DEF GroupSection
  <2>3. Parts(shstrtab, descs, pos, out)' = Described(State.parts, d)
    BY <2>2, DescribedIs
  <2>4. AfterGroup(o, sections, State) =
          Locals(At(pc, i + 1, k), State.symtab, State.entries, Parts(shstrtab, descs, pos, out)')
    BY <2>1, <2>2, <2>3, ReadState, ReadCursor DEF AfterGroup
  <2>5. pc' = pc /\ i' = i + 1 /\ k' = k /\ UNCHANGED <<tables, relocs>>
    BY <1>1 DEF GroupSection
  <2>6. QED
    BY <2>4, <2>5, MadeOf
<1>2. CASE NoGroup
  <2>1. ~(i > Len(sections)) /\ ~sections[i].linkOnce
    BY <1>2, CursorType DEF NoGroup
  <2>2. AfterGroup(o, sections, State) =
          Locals(At(pc, i + 1, k), State.symtab, State.entries, State.parts)
    BY <2>1, ReadState, ReadCursor DEF AfterGroup
  <2>3. pc' = pc /\ i' = i + 1 /\ k' = k /\ UNCHANGED <<tables, relocs, layout>>
    BY <1>2 DEF NoGroup
  <2>4. QED
    BY <2>2, <2>3, MadeOf
<1>3. CASE TailSections
  <2>1. /\ i > Len(sections) /\ shstrtab' = TailTable(o, shstrtab)
        /\ descs' = descs \o TailIn(o, sections, State)
        /\ pos' = Class(o.arch).ehdr /\ UNCHANGED out
    BY <1>3, TailIs DEF TailSections, SameOptions
  <2>2. AfterGroup(o, sections, State) =
          Locals(At("layout", 2, 1), State.symtab, State.entries,
                 Parts(shstrtab, descs, pos, out)')
    BY <2>1, ReadState DEF AfterGroup
  <2>3. pc' = "layout" /\ i' = 2 /\ k' = 1 /\ UNCHANGED <<tables, relocs>>
    BY <1>3 DEF TailSections
  <2>4. QED
    BY <2>2, <2>3, MadeOf
<1>4. QED
  BY <1>1, <1>2, <1>3

LEMMA DescsLength == ASSUME IInv, LInv PROVE i \in Nat /\ Len(descs) \in Nat
<1>1. \E D : descs \in Seq(DescOf(D))
  BY DEF LInv, Types, DescsOK
<1>2. QED
  BY <1>1, CursorType

LEMMA LayoutAfter ==
  ASSUME IInv, LInv, NEW o, SameOptions(o), pc = "layout", PlaceSection \/ LayoutDone
  PROVE  State' = AfterLayout(o, State)
<1>1. CASE PlaceSection
  <2>0. ~(i > Len(descs))
    BY <1>1, DescsLength DEF PlaceSection
  <2>1. PICK d : d = descs[i]
    OBVIOUS
  <2>2. PlaceOf(d) = PlaceIn(d, pos)
    BY DEF PlaceOf, PlaceIn
  <2>3. /\ descs' = [descs EXCEPT ![i].off = PlaceIn(d, pos)] /\ pos' = PassedIn(d, pos)
        /\ UNCHANGED <<shstrtab, out>>
    BY <1>1, <2>1, <2>2 DEF PlaceSection, PassedIn
  <2>4. AfterLayout(o, State) =
          Locals(At(pc, i + 1, k), State.symtab, State.entries, Parts(shstrtab, descs, pos, out)')
    BY <2>0, <2>1, <2>3, ReadState, ReadCursor DEF AfterLayout
  <2>5. pc' = pc /\ i' = i + 1 /\ k' = k /\ UNCHANGED <<tables, relocs>>
    BY <1>1 DEF PlaceSection
  <2>6. QED
    BY <2>4, <2>5, MadeOf
<1>2. CASE LayoutDone
  <2>1. /\ i > Len(descs) /\ pos' = AlignUp(pos, Class(o.arch).word)
        /\ out' = [EmptyOut EXCEPT !.len = Class(o.arch).ehdr] /\ UNCHANGED <<shstrtab, descs>>
    BY <1>2 DEF LayoutDone, SameOptions
  <2>2. AfterLayout(o, State) =
          Locals(At("write", 2, 1), State.symtab, State.entries, Parts(shstrtab, descs, pos, out)')
    BY <2>1, ReadState DEF AfterLayout
  <2>3. pc' = "write" /\ i' = 2 /\ k' = 1 /\ UNCHANGED <<tables, relocs>>
    BY <1>2 DEF LayoutDone
  <2>4. QED
    BY <2>2, <2>3, MadeOf
<1>3. QED
  BY <1>1, <1>2

LEMMA WriteAfter ==
  ASSUME IInv, pc = "write", WriteSection
  PROVE  State' = AfterWrite(State)
<1>1. out' = WrittenIn(out, descs[i]) /\ UNCHANGED <<shstrtab, descs, pos>>
  BY DEF WriteSection, WrittenIn
<1>2. AfterWrite(State) =
        Locals(At(pc, i + 1, k), State.symtab, State.entries, Parts(shstrtab, descs, pos, out)')
  BY <1>1, ReadState, ReadCursor DEF AfterWrite
<1>3. pc' = pc /\ i' = i + 1 /\ k' = k /\ UNCHANGED <<tables, relocs>>
  BY DEF WriteSection
<1>4. QED
  BY <1>2, <1>3, MadeOf

Finishing == RelocFails \/ GroupFails \/ Deliver

LEMMA EndsHere ==
  ASSUME NEW o, SameOptions(o)
  PROVE  Ends(o, sections, State) <=>
           \/ /\ pc = "relocs" /\ ~(i > Len(sections)) /\ ~(k > Len(sections[i].relocs))
              /\ ~RelocOK(sections[i].relocs[k])
           \/ /\ pc = "group" /\ ~(i > Len(sections)) /\ sections[i].linkOnce
              /\ Signatures(sections[i]) = {}
           \/ pc = "write" /\ i > Len(descs)
<1>1. \A r : Stuck(o, State, r) <=> ~RelocOK(r)
  BY ReadState DEF Stuck, RelocOK, SameOptions
<1>2. \A s : SignersIn(s, State.symtab.symIndex) = Signatures(s)
  BY ReadState, DescsIn
<1>3. QED
  BY <1>1, <1>2, ReadState DEF Ends

LEMMA GoesOn ==
  ASSUME IInv, LInv, Build, ~Finishing, NEW o, SameOptions(o)
  PROVE  /\ State' = After(o, sections, State) /\ ~Ends(o, sections, State)
         /\ pc # "idle" /\ pc' # "idle" /\ UNCHANGED <<file, last>>
<1>1. i \in Nat /\ Len(sections) \in Nat /\ Len(descs) \in Nat
  BY CursorType, DescsLength
<1>2. CASE DefineSymbol \/ SkipSymbol \/ SectionSymbolsDone \/ LocalsDone \/ GlobalsDone
  <2>1. pc \in {"locals", "globals"}
    BY <1>2 DEF DefineSymbol, SkipSymbol, SectionSymbolsDone, LocalsDone, GlobalsDone
  <2>2. State' = After(o, sections, State)
    BY <1>2, <2>1, ReadState, SymbolsAfter DEF After
  <2>3. ~Ends(o, sections, State)
    BY <2>1, EndsHere
  <2>4. pc' # "idle" /\ UNCHANGED <<file, last>>
    BY <1>2, <2>1 DEF DefineSymbol, SkipSymbol, SectionSymbolsDone, LocalsDone, GlobalsDone, Goto,
       NextSection
  <2>5. QED
    BY <2>1, <2>2, <2>3, <2>4
<1>3. CASE ExternSymbol \/ ExternsDone
  <2>1. pc = "externs"
    BY <1>3 DEF ExternSymbol, ExternsDone
  <2>2. State' = After(o, sections, State)
    BY <1>3, <2>1, ReadState, ExternsAfter DEF After
  <2>3. ~Ends(o, sections, State)
    BY <2>1, EndsHere
  <2>4. pc' # "idle" /\ UNCHANGED <<file, last>>
    BY <1>3, <2>1 DEF ExternSymbol, ExternsDone, Goto
  <2>5. QED
    BY <2>1, <2>2, <2>3, <2>4
<1>4. CASE ConvertReloc \/ SectionRelocsDone \/ RelocsDone
  <2>1. pc = "relocs"
    BY <1>4 DEF ConvertReloc, SectionRelocsDone, RelocsDone
  <2>2. State' = After(o, sections, State)
    BY <1>4, <2>1, ReadState, RelocsAfter DEF After
  <2>3. \/ i > Len(sections) \/ k > Len(sections[i].relocs) \/ RelocOK(sections[i].relocs[k])
    BY <1>4 DEF ConvertReloc, SectionRelocsDone, RelocsDone
  <2>4. ~Ends(o, sections, State)
    BY <2>1, <2>3, EndsHere
  <2>5. pc' # "idle" /\ UNCHANGED <<file, last>>
    BY <1>4, <2>1 DEF ConvertReloc, SectionRelocsDone, RelocsDone, Goto, NextSection
  <2>6. QED
    BY <2>1, <2>2, <2>4, <2>5
<1>5. CASE ContentSection \/ ContentDone
  <2>1. pc = "content"
    BY <1>5 DEF ContentSection, ContentDone
  <2>2. State' = After(o, sections, State)
    BY <1>5, <2>1, ReadState, ContentAfter DEF After
  <2>3. ~Ends(o, sections, State)
    BY <2>1, EndsHere
  <2>4. pc' # "idle" /\ UNCHANGED <<file, last>>
    BY <1>5, <2>1 DEF ContentSection, ContentDone, Goto
  <2>5. QED
    BY <2>1, <2>2, <2>3, <2>4
<1>6. CASE RelaSection \/ RelaDone
  <2>1. pc = "rela"
    BY <1>6 DEF RelaSection, RelaDone
  <2>2. State' = After(o, sections, State)
    BY <1>6, <2>1, ReadState, RelaAfter DEF After
  <2>3. ~Ends(o, sections, State)
    BY <2>1, EndsHere
  <2>4. pc' # "idle" /\ UNCHANGED <<file, last>>
    BY <1>6, <2>1 DEF RelaSection, RelaDone, Goto
  <2>5. QED
    BY <2>1, <2>2, <2>3, <2>4
<1>7. CASE GroupSection \/ NoGroup \/ TailSections
  <2>1. pc = "group"
    BY <1>7 DEF GroupSection, NoGroup, TailSections
  <2>2. State' = After(o, sections, State)
    BY <1>7, <2>1, ReadState, GroupAfter DEF After
  <2>3. \/ i > Len(sections) \/ ~sections[i].linkOnce \/ Signatures(sections[i]) # {}
    BY <1>7 DEF GroupSection, NoGroup, TailSections
  <2>4. ~Ends(o, sections, State)
    BY <2>1, <2>3, EndsHere
  <2>5. pc' # "idle" /\ UNCHANGED <<file, last>>
    BY <1>7, <2>1 DEF GroupSection, NoGroup, TailSections
  <2>6. QED
    BY <2>1, <2>2, <2>4, <2>5
<1>8. CASE PlaceSection \/ LayoutDone
  <2>1. pc = "layout"
    BY <1>8 DEF PlaceSection, LayoutDone
  <2>2. State' = After(o, sections, State)
    BY <1>8, <2>1, ReadState, LayoutAfter DEF After
  <2>3. ~Ends(o, sections, State)
    BY <2>1, EndsHere
  <2>4. pc' # "idle" /\ UNCHANGED <<file, last>>
    BY <1>8, <2>1 DEF PlaceSection, LayoutDone
  <2>5. QED
    BY <2>1, <2>2, <2>3, <2>4
<1>9. CASE WriteSection
  <2>1. pc = "write" /\ ~(i > Len(descs))
    BY <1>1, <1>9 DEF WriteSection
  <2>2. State' = After(o, sections, State)
    BY <1>9, <2>1, ReadState, WriteAfter DEF After
  <2>3. ~Ends(o, sections, State)
    BY <2>1, EndsHere
  <2>4. pc' # "idle" /\ UNCHANGED <<file, last>>
    BY <1>9, <2>1 DEF WriteSection
  <2>5. QED
    BY <2>1, <2>2, <2>3, <2>4
<1>10. QED
  BY <1>2, <1>3, <1>4, <1>5, <1>6, <1>7, <1>8, <1>9 DEF Build, Finishing

LEMMA FinishesWith ==
  ASSUME IInv, LInv, Finishing, NEW o, SameOptions(o)
  PROVE  /\ Ends(o, sections, State) /\ pc # "idle" /\ pc' = "idle" /\ UNCHANGED file
         /\ State' = Waiting("idle", << >>)
         /\ last'.status # "none" /\ \E w : last' = OutcomeIn(Input, State, w)
<1>1. ASSUME NEW outcome, Return(outcome)
      PROVE  /\ State' = Waiting("idle", << >>) /\ UNCHANGED file /\ last' = outcome
             /\ pc' = "idle"
  BY <1>1 DEF Return, State, Waiting
<1>2. ASSUME NEW why, Fail(why), why = Complaint(State), pc # "write"
      PROVE  /\ UNCHANGED file /\ State' = Waiting("idle", << >>) /\ pc' = "idle"
             /\ last'.status # "none" /\ \E w : last' = OutcomeIn(Input, State, w)
  <2>1. last' = [status |-> "failed", input |-> Input, error |-> why, written |-> "none"]
    BY <1>1, <1>2 DEF Fail
  <2>2. last' = OutcomeIn(Input, State, "none")
    BY <1>2, <2>1, ReadState DEF OutcomeIn
  <2>3. State' = Waiting("idle", << >>) /\ UNCHANGED file /\ pc' = "idle"
    BY <1>1, <1>2 DEF Fail
  <2>4. QED
    BY <2>1, <2>2, <2>3
<1>3. CASE RelocFails
  <2>1. /\ pc = "relocs" /\ ~(i > Len(sections)) /\ ~(k > Len(sections[i].relocs))
        /\ ~RelocOK(sections[i].relocs[k]) /\ Fail("relocation")
    BY <1>3, CursorType DEF RelocFails, AtReloc
  <2>2. Complaint(State) = "relocation"
    BY <2>1, ReadState DEF Complaint
  <2>3. QED
    BY <1>2, <2>1, <2>2, EndsHere
<1>4. CASE GroupFails
  <2>1. /\ pc = "group" /\ ~(i > Len(sections)) /\ sections[i].linkOnce
        /\ Signatures(sections[i]) = {} /\ Fail("comdat")
    BY <1>4, CursorType DEF GroupFails
  <2>2. Complaint(State) = "comdat"
    BY <2>1, ReadState DEF Complaint
  <2>3. QED
    BY <1>2, <2>1, <2>2, EndsHere
<1>5. CASE Deliver
  <2>1. pc = "write" /\ i > Len(descs)
    BY <1>5 DEF Deliver
  <2>2. PICK w : Return([status |-> "built", input |-> Input, image |-> Image, written |-> w])
    BY <1>5 DEF Deliver
  <2>3. Image = ImageIn(opts, sections, State)
    <3>1. \A d : HeaderIn(opts, shstrtab, d) = Header(d)
      BY DEF HeaderIn, Header
    <3>2. SymtabAt(opts, sections, relaWork) + 2 = ShstrtabIdx
      BY DescsIn DEF ShstrtabIdx, SameOptions
    <3>3. QED
      BY <3>1, <3>2, ReadState DEF Image, ImageIn
  <2>4. last' = [status |-> "built", input |-> Input, image |-> Image, written |-> w]
    BY <1>1, <2>2
  <2>5. Input.opts = opts /\ Input.sections = sections
    BY DEF Input
  <2>6. last' = OutcomeIn(Input, State, w)
    BY <2>1, <2>3, <2>4, <2>5, ReadState DEF OutcomeIn
  <2>7. last'.status # "none"
    BY <2>4
  <2>8. State' = Waiting("idle", << >>) /\ UNCHANGED file /\ pc' = "idle"
    BY <1>1, <2>2
  <2>9. QED
    BY <2>1, <2>6, <2>7, <2>8, EndsHere
<1>6. QED
  BY <1>3, <1>4, <1>5 DEF Finishing


LEMMA OwnOptions == ASSUME IInv PROVE opts \in Options /\ SameOptions(opts)
BY DEF IInv, TypeOK, SameOptions

LEMMA InitReplays == Init => Replays
<1> SUFFICES ASSUME Init PROVE Replays
  OBVIOUS
<1>1. State = Waiting("idle", << >>)
  BY DEF Init, State, Waiting
<1>2. QED
  BY <1>1 DEF Init, Replays

\* A call starts from the same locals as every other with these sections.
LEMMA StartReplays ==
  ASSUME Replays, WriteTo
  PROVE  Reaches(opts, sections, State') /\ UNCHANGED <<file, last>> /\ pc' # "idle"
<1>1. /\ pc = "idle" /\ pc' = "locals" /\ UNCHANGED <<file, last>>
      /\ syms' = <<NullSym>> \o [n \in 1 .. Len(sections) |-> SectionSym(n)]
      /\ UNCHANGED <<i, k, strtab, symIndex, firstGlobal, relas, relaWork>>
      /\ UNCHANGED <<shstrtab, descs, pos, out>>
  BY DEF WriteTo, relocs, layout
<1>2. State = Waiting("idle", << >>)
  BY <1>1 DEF Replays
<1>3. Waiting("idle", << >>) =
        Locals(At("idle", 1, 1), SymTabs(NewStrTab, EmptyMap, << >>, 0), RelaLists(<< >>, << >>),
               Parts(NewStrTab, << >>, 0, EmptyOut))
  BY DEF Waiting
<1>4. /\ State.at = At("idle", 1, 1) /\ State.symtab = SymTabs(NewStrTab, EmptyMap, << >>, 0)
      /\ State.entries = RelaLists(<< >>, << >>)
      /\ State.parts = Parts(NewStrTab, << >>, 0, EmptyOut)
  BY <1>2, <1>3 DEF Locals
<1>5. i = 1 /\ k = 1 /\ strtab = NewStrTab /\ symIndex = EmptyMap /\ firstGlobal = 0
  BY <1>4, ReadState DEF At, SymTabs
<1>6. State' = Locals(At("locals", i, k), SymTabs(strtab, symIndex, syms', firstGlobal),
                      State.entries, State.parts)
  BY <1>1, ReadState DEF State
<1>7. State' = Starting(sections)
  BY <1>1, <1>4, <1>5, <1>6 DEF Starting, Waiting
<1> DEFINE f == [m \in 0 .. 0 |-> Starting(sections)]
<1>8. Trace(opts, sections, f, 0) /\ f[0] = Starting(sections)
  BY DEF Trace
<1>9. QED
  BY <1>1, <1>7, <1>8 DEF Reaches

LEMMA ReplaysStep == ASSUME IInv, LInv, Replays, [Next]_vars PROVE Replays'
<1>1. ASSUME UNCHANGED last
      PROVE  (last # NoCall => \E o \in Options : \E ss : EndedIn(o, ss, last))'
  BY <1>1 DEF Replays
<1>2. CASE Build /\ ~Finishing
  <2>1. SameOptions(opts)
    BY OwnOptions
  <2>2. /\ State' = After(opts, sections, State) /\ ~Ends(opts, sections, State)
        /\ pc # "idle" /\ pc' # "idle" /\ UNCHANGED <<file, last>>
    BY <1>2, <2>1, GoesOn
  <2>3. opts' = opts /\ sections' = sections
    BY <2>2 DEF file
  <2>4. Reaches(opts, sections, State)
    BY <2>2 DEF Replays
  <2>5. Reaches(opts, sections, State')
    BY <2>2, <2>4, ReachesNext
  <2>6. QED
    BY <1>1, <2>2, <2>3, <2>5 DEF Replays
<1>3. CASE Finishing
  <2>1. opts \in Options /\ SameOptions(opts)
    BY OwnOptions
  <2>2. /\ Ends(opts, sections, State) /\ pc # "idle" /\ pc' = "idle"
        /\ State' = Waiting("idle", << >>) /\ \E w : last' = OutcomeIn(Input, State, w)
    BY <1>3, <2>1, FinishesWith
  <2>3. Reaches(opts, sections, State)
    BY <2>2 DEF Replays
  <2>4. EndedIn(opts, sections, last')
    BY <2>2, <2>3 DEF EndedIn, Input
  <2>5. PICK o, ss, call : o = opts /\ ss = sections /\ call = last'
    OBVIOUS
  <2>6. o \in Options /\ EndedIn(o, ss, call)
    BY <2>1, <2>4, <2>5
  <2>7. QED
    BY <2>2, <2>5, <2>6 DEF Replays
<1>4. CASE WriteTo
  <2>1. Reaches(opts, sections, State') /\ UNCHANGED <<file, last>> /\ pc' # "idle"
    BY <1>4, StartReplays
  <2>2. opts' = opts /\ sections' = sections
    BY <2>1 DEF file
  <2>3. QED
    BY <1>1, <2>1, <2>2 DEF Replays
<1>5. CASE Caller /\ ~WriteTo
  <2>1. /\ pc = "idle" /\ UNCHANGED <<pc, i, k, tables, relocs, layout, last>>
    BY <1>5 DEF Caller, AddSection, SetOSABI, EnableDWARF, EnableGNUStack, SetOption, locals
  <2>2. State' = State
    BY <2>1 DEF State, tables, relocs, layout
  <2>3. QED
    BY <1>1, <2>1, <2>2 DEF Replays
<1>6. CASE UNCHANGED vars
  <2>1. UNCHANGED <<opts, sections, pc, last>>
    BY <1>6 DEF vars, file
  <2>2. State' = State
    BY <1>6 DEF vars, tables, relocs, layout, State
  <2>3. QED
    BY <1>1, <2>1, <2>2 DEF Replays
<1>7. QED
  BY <1>2, <1>3, <1>4, <1>5, <1>6 DEF Next

\* An outcome but for what the writer took is that of a writer that took none.
LEMMA OutcomeOf ==
  ASSUME NEW input, NEW s, NEW w, NEW call, call = OutcomeIn(input, s, w)
  PROVE  call.input = input /\ Outcome(call) = OutcomeIn(input, s, "none")
<1>1. CASE s.at.pc = "write"
  <2>1. PICK image : image = ImageIn(input.opts, input.sections, s)
    OBVIOUS
  <2>2. call = [status |-> "built", input |-> input, image |-> image, written |-> w]
    BY <1>1, <2>1 DEF OutcomeIn
  <2>3. Outcome(call) = [status |-> "built", input |-> input, image |-> image, written |-> "none"]
    BY <2>2 DEF Outcome
  <2>4. QED
    BY <1>1, <2>1, <2>2, <2>3 DEF OutcomeIn
<1>2. CASE s.at.pc # "write"
  <2>1. PICK error : error = Complaint(s)
    OBVIOUS
  <2>2. call = [status |-> "failed", input |-> input, error |-> error, written |-> "none"]
    BY <1>2, <2>1 DEF OutcomeIn
  <2>3. Outcome(call) = [status |-> "failed", input |-> input, error |-> error, written |-> "none"]
    BY <2>2 DEF Outcome
  <2>4. QED
    BY <1>2, <2>1, <2>2, <2>3 DEF OutcomeIn
<1>3. QED
  BY <1>1, <1>2

\* Two endings whose outcomes tell the same input are one.
LEMMA OneOutcome ==
  ASSUME NEW o \in Options, NEW ss, NEW a, EndedIn(o, ss, a),
         NEW q \in Options, NEW tt, NEW b, EndedIn(q, tt, b), a.input = b.input
  PROVE  Outcome(a) = Outcome(b)
<1>1. PICK s, v : /\ Reaches(o, ss, s) /\ Ends(o, ss, s)
                  /\ a = OutcomeIn([opts |-> o, sections |-> ss], s, v)
  BY DEF EndedIn
<1>2. PICK t, w : /\ Reaches(q, tt, t) /\ Ends(q, tt, t)
                  /\ b = OutcomeIn([opts |-> q, sections |-> tt], t, w)
  BY DEF EndedIn
<1>3. /\ a.input = [opts |-> o, sections |-> ss]
      /\ Outcome(a) = OutcomeIn([opts |-> o, sections |-> ss], s, "none")
  BY <1>1, OutcomeOf
<1>4. /\ b.input = [opts |-> q, sections |-> tt]
      /\ Outcome(b) = OutcomeIn([opts |-> q, sections |-> tt], t, "none")
  BY <1>2, OutcomeOf
<1>5. [opts |-> o, sections |-> ss] = [opts |-> q, sections |-> tt]
  BY <1>3, <1>4
<1>6. o = q /\ ss = tt
  BY <1>5
<1>7. s = t
  BY <1>1, <1>2, <1>6, EndsMeet
<1>8. QED
  BY <1>3, <1>4, <1>6, <1>7

\* "Safe to call more than once": a File that is serialised again with the same
\* sections and options gives the same image, or fails in the same way,
\* whatever else has been called in between: nothing of the build is left
\* behind in the File, and no choice of the Go map's shows in what is written.
THEOREM SameInputSameImage == Spec => Reproducible
<1>1. IInv /\ LInv /\ Replays /\ [Next]_vars =>
        [/\ last # NoCall /\ last' # last /\ last'.input = last.input
         => Outcome(last') = Outcome(last)]_vars
  <2> SUFFICES ASSUME IInv, LInv, Replays, [Next]_vars, last # NoCall, last' # last,
                      last'.input = last.input
               PROVE  Outcome(last') = Outcome(last)
    OBVIOUS
  <2>1. Replays'
    BY ReplaysStep
  <2>2. Finishing
    <3>1. ~(Caller \/ UNCHANGED vars)
      BY DEF Caller, AddSection, SetOSABI, EnableDWARF, EnableGNUStack, SetOption, WriteTo, vars
    <3>2. Build
      BY <3>1 DEF Next
    <3>3. SameOptions(opts)
      BY OwnOptions
    <3>4. QED
      BY <3>2, <3>3, GoesOn
  <2>3. last' # NoCall
    <3>1. SameOptions(opts)
      BY OwnOptions
    <3>2. last'.status # "none"
      BY <2>2, <3>1, FinishesWith
    <3>3. QED
      BY <3>2 DEF NoCall
  <2>4. \E o \in Options : \E ss : EndedIn(o, ss, last)
    BY DEF Replays
  <2>5. PICK call : call = last'
    OBVIOUS
  <2>6. \E o \in Options : \E ss : EndedIn(o, ss, call)
    BY <2>1, <2>3, <2>5 DEF Replays
  <2>7. Outcome(call) = Outcome(last)
    BY <2>4, <2>5, <2>6, OneOutcome
  <2>8. QED
    BY <2>5, <2>7
<1>2. QED
  BY Inductive, LayoutInductive, InitReplays, ReplaysStep, <1>1, PTL DEF Spec, Reproducible

=============================================================================
