------------------------------ MODULE ElfReader ------------------------------
(***************************************************************************)
(* The object file as a linker reads it: starting from the ELF header of   *)
(* the image a finished call produced, and following nothing but indices   *)
(* and offsets stored in it.  The properties compare what the linker finds *)
(* with the sections the caller had added.                                 *)
(***************************************************************************)
EXTENDS ElfFile

CONSTANT LoReserve  \* SHN_LORESERVE, 0xff00, scaled down: larger indices are not sections

ASSUME ReserveAssumption == LoReserve \in Nat /\ LoReserve <= Word16

Built == last.status = "built"
Failed == last.status = "failed"

\* Meaningful when Built.
img == last.image
added == last.input.sections

\* The header with section index n, the data at a header's offset.
Shdr(n) == img.shdrs[n + 1]
Indices == 1 .. Len(img.shdrs) - 1
OfType(type) == {n \in Indices : Shdr(n).type = type}

ChunksOf(sh) ==
  {n \in DOMAIN img.chunks :
     img.chunks[n].at = sh.off /\ img.chunks[n].size = sh.size}
Contents(sh) ==
  IF sh.type = "NOBITS" \/ ChunksOf(sh) = {} THEN << >>
  ELSE img.chunks[CHOOSE n \in ChunksOf(sh) : TRUE].data

\* The symbol table and the string table its header links to.
SymtabShdr == Shdr(CHOOSE n \in OfType("SYMTAB") : TRUE)
Symtab == Contents(SymtabShdr)
Strtab == IF SymtabShdr.link \in Indices THEN Contents(Shdr(SymtabShdr.link)) ELSE << >>

\* Symbol index n exists and is called name.
Called(n, name) ==
  /\ n + 1 \in DOMAIN Symtab
  /\ ReadsAs(Strtab, Symtab[n + 1].name, name)

\* What an image must not exceed to be read at all: the counts and indices of
\* headers, the 32 bits of ELFCLASS32's sh_offset and sh_size, the 24 bits its
\* r_info has for a symbol index.  The code checks none of the three.
FewHeaders == Len(img.shdrs) < LoReserve
FewBytes   == Is64(img.arch) \/ img.shdrsAt < 2 * Half32
FewSymbols == Is64(img.arch) \/ Len(Symtab) <= Word24

\* What a caller's symbol becomes in section c.
SymbolFor(st, sym, c) ==
  /\ FewHeaders => st.shndx = c
  /\ st.value = sym.offset
  /\ st.bind = SymBind[sym.binding] /\ st.type = SymType[sym.kind]

\* The places <<section, position>> where a name is given a symbol.
Places == UNION {{c} \X DOMAIN added[c].symbols : c \in DOMAIN added}
SymAt(p) == added[p[1]].symbols[p[2]]
Entered(p) == ~(SymAt(p).binding = "Local" /\ SymAt(p).kind = "Section")
PlacesOf(name) == {p \in Places : SymAt(p).name = name /\ Entered(p)}
Exported(name) == {p \in PlacesOf(name) : SymAt(p).binding # "Local"}
Later(p, q) == p[1] > q[1] \/ (p[1] = q[1] /\ p[2] > q[2])
LastOf(S) == CHOOSE p \in S : \A q \in S \ {p} : Later(p, q)

\* The symbol a reference to name must reach: the last exported definition,
\* else the last local one, else an undefined global symbol.
Target(st, name) ==
  LET S == IF Exported(name) # {} THEN Exported(name) ELSE PlacesOf(name)
  IN  IF S # {} THEN SymbolFor(st, SymAt(LastOf(S)), LastOf(S)[1])
      ELSE st.shndx = 0 /\ st.bind = "GLOBAL"

\* The addend is in the range of the class's r_addend.
Fits(a) == Is64(img.arch) \/ a \in (0 - Half32) .. (Half32 - 1)

-----------------------------------------------------------------------------
\* A linker that resolves a RELA entry reaches the symbol the caller named:
\* the last exported definition of the name, else the last local one, else an
\* undefined symbol of that name, while the index fits r_info; every section's
\* relocations are all there, in order, in the one RELA section whose sh_info
\* is that section.
RelocationsBind ==
  Built /\ FewBytes => \A c \in DOMAIN added :
    LET R == {n \in OfType("RELA") : Shdr(n).info = c}
    IN  IF added[c].relocs = << >> THEN R = {}
        ELSE \E n \in R :
          /\ R = {n}
          /\ OfType("SYMTAB") = {Shdr(n).link}
          /\ LET es == Contents(Shdr(n))
             IN  /\ Len(es) = Len(added[c].relocs)
                 /\ \A m \in DOMAIN es :
                      LET r == added[c].relocs[m]
                      IN  /\ es[m].offset = r.offset
                          /\ Fits(r.addend) => es[m].addend = r.addend
                          /\ FewSymbols => /\ Called(es[m].sym, r.symbol)
                                           /\ Target(Symtab[es[m].sym + 1], r.symbol)

UndefinedNames(ss) ==
  {name \in ReferencedNames(ss) : name # NoName /\ name \notin DefinedNames(ss)}

\* The symbol table holds the null symbol, a section symbol per section, each
\* definition of the caller exactly once and each undefined name once, in
\* increasing order; sh_info of .symtab is the first symbol that is not local.
SymbolTableComplete ==
  Built /\ FewHeaders /\ FewBytes =>
    LET locals_ == {n \in DOMAIN Symtab : Symtab[n].bind = "LOCAL"}
        undef   == {n \in DOMAIN Symtab : n > 1 /\ Symtab[n].shndx = 0}
    IN  /\ locals_ = 1 .. SymtabShdr.info
        /\ Symtab[1] = NullSym
        /\ \A c \in DOMAIN added : Symtab[c + 1] = SectionSym(c)
        /\ Len(Symtab) = 1 + Len(added) + Cardinality({p \in Places : Entered(p)})
                           + Cardinality(undef)
        /\ \A p \in Places : Entered(p) =>
             \E n \in DOMAIN Symtab :
               /\ Called(n - 1, SymAt(p).name)
               /\ SymbolFor(Symtab[n], SymAt(p), p[1])
        /\ \E order \in [undef -> UndefinedNames(added)] :
             /\ \A name \in UndefinedNames(added) : \E n \in undef : order[n] = name
             /\ \A n \in undef : Called(n - 1, order[n])
             /\ \A n, m \in undef : n < m => Rank(order[n]) < Rank(order[m])

\* The cross references between headers, all computed from counts before the
\* headers existed, hit headers of the right kind: e_shnum counts them, each
\* content section keeps its position, .symtab links to the string table with
\* the symbol names, e_shstrndx is a string table and not that one.  The two
\* numbers of the ELF header are asked for below SHN_LORESERVE only: the code
\* accepts more sections and then stores numbers that mean something else.
HeadersAgree ==
  Built =>
    /\ FewHeaders => img.shnum = Len(img.shdrs) /\ img.shstrndx \in OfType("STRTAB")
    /\ \E st \in OfType("STRTAB") :
         /\ Cardinality(OfType("STRTAB")) = 2
         /\ FewHeaders => st # img.shstrndx
         /\ \A n \in OfType("SYMTAB") : Shdr(n).link = st
    /\ \E n \in Indices : OfType("SYMTAB") = {n}
    /\ \A c \in DOMAIN added : Shdr(c).type = ContentType(added[c])
    /\ last.input.opts.gnuStack <=>
         \E n \in Indices : Shdr(n).type = "PROGBITS" /\ n > Len(added)

\* Each FlagLinkOnce section is in exactly one COMDAT group, with its RELA
\* section when it has one and nothing else, and the group is signed by an
\* exported symbol that carries the name of one the section defines.
GroupsSound ==
  Built /\ FewBytes =>
    /\ Cardinality(OfType("GROUP")) = Cardinality({c \in DOMAIN added : added[c].linkOnce})
    /\ \A c \in DOMAIN added : added[c].linkOnce =>
         \E n \in OfType("GROUP") :
           LET ms == Contents(Shdr(n))
               R  == {m \in OfType("RELA") : Shdr(m).info = c}
           IN  /\ ms # << >> /\ ms[1] = c
               /\ {ms[m] : m \in DOMAIN ms} = {c} \cup R
               /\ Len(ms) = 1 + Cardinality(R)
               /\ OfType("SYMTAB") = {Shdr(n).link}
               /\ Shdr(n).info + 1 \in DOMAIN Symtab
               /\ Symtab[Shdr(n).info + 1].bind # "LOCAL"
               /\ \E m \in DOMAIN added[c].symbols :
                    Called(Shdr(n).info, added[c].symbols[m].name)

\* Every section name a linker reads through e_shstrndx is the one the
\* section's role calls for; no header falls back to the empty name because
\* its name was never interned or came after the table was captured.
NamesResolve ==
  Built /\ FewHeaders /\ FewBytes =>
    LET names == IF img.shstrndx \in Indices THEN Contents(Shdr(img.shstrndx)) ELSE << >>
        Named(n, name) == ReadsAs(names, Shdr(n).name, name)
    IN  \A n \in Indices :
          /\ n \in DOMAIN added => Named(n, SectionName(added[n]))
          /\ Shdr(n).type = "RELA" => Named(n, RelaName(added[Shdr(n).info]))
          /\ Shdr(n).type = "GROUP" => Named(n, <<".group">>)
          /\ Shdr(n).type = "SYMTAB" => Named(n, <<".symtab">>)
          /\ Shdr(n).type = "STRTAB" =>
               Named(n, IF n = img.shstrndx THEN <<".shstrtab">> ELSE <<".strtab">>)

\* The bytes are where the headers say: a section with file bytes starts at
\* its sh_offset, aligned as its header says, behind the ELF header and in
\* front of the section headers, and no two sections share a byte.
OffsetsHonest ==
  Built /\ FewBytes =>
    /\ \A n \in Indices : Shdr(n).type # "NOBITS" /\ Shdr(n).size > 0 =>
         /\ Cardinality(ChunksOf(Shdr(n))) = 1
         /\ Shdr(n).align > 1 => Shdr(n).off % Shdr(n).align = 0
         /\ Shdr(n).off >= Class(img.arch).ehdr
         /\ Shdr(n).off + Shdr(n).size <= img.shoff
         /\ \A m \in Indices \ {n} :
              Shdr(m).type # "NOBITS" /\ Shdr(m).size > 0 =>
                \/ Shdr(n).off + Shdr(n).size <= Shdr(m).off
                \/ Shdr(m).off + Shdr(m).size <= Shdr(n).off
    /\ img.shdrsAt = img.shoff
    /\ img.shoff % Class(img.arch).word = 0

\* A call fails exactly when a relocation kind has no native type, a name
\* resolves to no symbol, or a FlagLinkOnce section exports nothing; a failed
\* call hands no byte to the writer.
Resolvable(ss, name) ==
  \/ name # NoName /\ name \notin DefinedNames(ss)
  \/ \E c \in DOMAIN ss : \E m \in DOMAIN ss[c].symbols :
       LET sym == ss[c].symbols[m]
       IN  sym.name = name /\ ~(sym.binding = "Local" /\ sym.kind = "Section")

Buildable(input) ==
  \A c \in DOMAIN input.sections :
    LET s == input.sections[c]
    IN  /\ \A m \in DOMAIN s.relocs :
              /\ Supported(input.opts.arch, s.relocs[m].kind)
              /\ Resolvable(input.sections, s.relocs[m].symbol)
        /\ s.linkOnce => \E m \in DOMAIN s.symbols : s.symbols[m].binding # "Local"

Promise(input, outcome) ==
  \/ outcome.status = "built" /\ Buildable(input)
  \/ outcome.status = "failed" /\ ~Buildable(input) /\ outcome.written = "none"

ErrorsExact == last.status # "none" => Promise(last.input, last)

\* What of an outcome its input decides: all but what the writer took.
Outcome(call) == [call EXCEPT !.written = "none"]

\* "Safe to call more than once": a call with the sections and options of the
\* previous one builds the same image or fails in the same way, whatever has
\* been switched or set and switched back in between.
Reproducible ==
  [][last # NoCall /\ last' # last /\ last'.input = last.input =>
       Outcome(last') = Outcome(last)]_vars

\* The ELF File is an object.Builder: the build is one step of the abstract
\* specification, the return of the call, which always comes.
Abstract == INSTANCE Builder WITH config <- opts, busy <- pc # "idle"
ImplementsBuilder == Abstract!Spec

-----------------------------------------------------------------------------
(***************************************************************************)
(* What the documentation says and the code does not do.                   *)
(***************************************************************************)
\* "Reloc.Addend flows directly into r_addend" (README.md, "ELF - explicit
\* addends"): build32 stores int32(r.Addend) and reports nothing.
AddendFlows ==
  Built => \A n \in OfType("RELA") :
    LET es == Contents(Shdr(n))
    IN  \A m \in DOMAIN es : es[m].addend = added[Shdr(n).info].relocs[m].addend

\* "ELF: R_AARCH64_LDST{8,16,32,64,128}_ABS_LO12_NC" (object/reloc.go): the
\* ARM64 table of relocType has none of the five kinds.
LoadStoreKinds ==
  {"LDST8Off12", "LDST16Off12", "LDST32Off12", "LDST64Off12", "LDST128Off12"}
LoadStoreSupported ==
  (Failed /\ last.error = "relocation" /\ last.input.opts.arch = "ARM64") =>
    \E c \in DOMAIN added : \E m \in DOMAIN added[c].relocs :
      LET r == added[c].relocs[m]
      IN  \/ r.kind \notin LoadStoreKinds /\ ~Supported("ARM64", r.kind)
          \/ ~Resolvable(added, r.symbol)

\* "FlagLinkOnce emits an SHT_GROUP COMDAT group keyed on the first global
\* symbol in the section" (README.md): a weak symbol in front of it wins.
KeyedOnFirstGlobal ==
  Built => \A n \in OfType("GROUP") :
    LET s  == added[Contents(Shdr(n))[1]]
        gs == {m \in DOMAIN s.symbols : s.symbols[m].binding = "Global"}
    IN  gs # {} => Called(Shdr(n).info, s.symbols[First(gs)].name)

\* "EnableDWARF controls emission of skeleton .debug_info / .debug_abbrev
\* sections" (elf/elf.go): the switch is recorded and nothing reads it.
Shstrtab == Contents(Shdr(img.shstrndx))
HasSection(name) == \E n \in Indices : ReadsAs(Shstrtab, Shdr(n).name, name)
DwarfEmitted ==
  Built /\ last.input.opts.dwarf =>
    HasSection(<<".debug_info">>) /\ HasSection(<<".debug_abbrev">>)
=============================================================================
