----------------------------- MODULE CoffReader -----------------------------
(***************************************************************************)
(* The COFF object as a linker reads it: from the file header of the image *)
(* a finished call produced, through stored offsets and slot indices only. *)
(* A linker takes a section number for unsigned and keeps the two largest  *)
(* for absolute and debug symbols.                                         *)
(***************************************************************************)
EXTENDS CoffFile, SequencesExt

Built == last.status = "built"
img == last.image
added == last.input.sections
arch == last.input.opts.arch

\* An image whose sections end where a uint32 still counts; of the contents of
\* longer ones nothing is promised.
FewBytes == img.extent < 2 * Half32

\* The tables, found through the file header.
Symtab == IF img.nsyms = 0 THEN << >> ELSE DataAt(img.chunks, img.symtab)
Strings == DataAt(img.chunks, img.symtab + 18 * img.nsyms)

\* The chunk of a given extent; an empty section has none to look for.
Extent(at, size) == {n \in DOMAIN img.chunks : img.chunks[n].at = at /\ img.chunks[n].size = size}
Contents(at, size) == img.chunks[Max(Extent(at, size))].data
RecordsOf(sh) == IF sh.count = 0 THEN << >> ELSE Contents(sh.relocs, 10 * sh.count)

\* The section number a symbol of section c is found under.
InSection(slot, c) == c < Word16 - 2 => slot.section % Word16 = c

\* The sections the file must have: those added, and .drectve if a symbol is
\* exported.
SectionCount(ss) ==
  Len(ss) + (IF \E c \in DOMAIN ss : \E m \in DOMAIN ss[c].symbols :
                  ss[c].symbols[m].dllExport THEN 1 ELSE 0)
Expected == SectionCount(added)

\* The places <<section, position>> where a name is defined, the last of them.
PlacesOf(name) ==
  UNION {{c} \X {m \in DOMAIN added[c].symbols : added[c].symbols[m].name = name} :
         c \in DOMAIN added}
LastPlace(name) ==
  CHOOSE p \in PlacesOf(name) : \A q \in PlacesOf(name) :
    p[1] > q[1] \/ (p[1] = q[1] /\ p[2] >= q[2])

\* Slot n (from 0) is a symbol and stands for name: its last definition in
\* section order, whatever its binding, or an undefined symbol.
StandsFor(n, name) ==
  /\ n + 1 \in DOMAIN Symtab /\ Symtab[n + 1].class # "AUX"
  /\ NameReads(Symtab[n + 1].name, Strings, name)
  /\ IF PlacesOf(name) = {}
     THEN Symtab[n + 1].section = 0 /\ Symtab[n + 1].class = "EXTERNAL"
     ELSE LET p   == LastPlace(name)
              sym == added[p[1]].symbols[p[2]]
          IN  /\ InSection(Symtab[n + 1], p[1])
              /\ Symtab[n + 1].value = sym.offset
              /\ Symtab[n + 1].class = Class(sym.binding)

-----------------------------------------------------------------------------
\* A linker that follows a relocation record, counting slots and not symbols,
\* reaches the symbol the caller named; a section with file bytes has all its
\* records, in order and with the offsets of its relocations, where its header
\* says (build, phases 4 to 7).
RelocationsBind ==
  Built /\ FewBytes => \A c \in DOMAIN added : ~NoBits(added[c]) =>
    LET rs == RecordsOf(img.shdrs[c])
    IN  /\ Len(rs) = Len(added[c].relocs)
        /\ \A m \in DOMAIN rs :
             /\ rs[m].offset = added[c].relocs[m].offset
             /\ rs[m].type = RelocType(arch, added[c].relocs[m].kind)
             /\ StandsFor(rs[m].sym, added[c].relocs[m].symbol)

\* The places <<section, position>> of the symbols of a list of sections and
\* the order in which the caller added them; the sections that are COMDATs.
SymAt(ss, p) == ss[p[1]].symbols[p[2]]
Definitions(ss) == UNION {{c} \X DOMAIN ss[c].symbols : c \in DOMAIN ss}
Sooner(p, q) == p[1] < q[1] \/ (p[1] = q[1] /\ p[2] < q[2])
Comdats(ss) == {c \in DOMAIN ss : ss[c].linkOnce}

\* How many of the definitions D come first, p included; how many of the
\* undefined names U, name included; the slot of section c's symbol, when the
\* COMDAT sections C in front of it have two each.
Turn(D, p) == Cardinality({q \in D : q = p \/ Sooner(q, p)})
UndefTurn(U, name) == Cardinality({u \in U : Rank(u) <= Rank(name)})
HeadAt(C, c) == c + Cardinality({b \in C : b < c})

\* What a linker finds in slot n: that it is the record the slot in front of it
\* announces, the symbol of section c, the definition at p, the undefined name.
IsRecord(n) == n > 1 /\ Symtab[n - 1].class # "AUX" /\ Symtab[n - 1].aux = 1
HeadsSection(n, c) ==
  /\ InSection(Symtab[n], c) /\ Symtab[n].class = "STATIC" /\ Symtab[n].value = 0
  /\ Symtab[n].aux = 1 <=> c \in Comdats(added)
  /\ c \in Comdats(added) =>
       Symtab[n + 1].size = IF NoBits(added[c]) THEN 0 ELSE added[c].size
  /\ c \in DOMAIN added => NameReads(Symtab[n].name, Strings, SectionName(added[c]))
DefinesAt(n, p) ==
  LET sym == SymAt(added, p)
  IN  /\ NameReads(Symtab[n].name, Strings, sym.name)
      /\ InSection(Symtab[n], p[1]) /\ Symtab[n].value = sym.offset
      /\ Symtab[n].class = Class(sym.binding) /\ Symtab[n].aux = 0
LeavesUndefined(n, name) ==
  /\ NameReads(Symtab[n].name, Strings, name)
  /\ Symtab[n].section = 0 /\ Symtab[n].class = "EXTERNAL"
  /\ Symtab[n].value = 0 /\ Symtab[n].aux = 0

\* A linker that walks the slots, stepping over as many auxiliary records as
\* each symbol announces, sees the section symbols in order, every definition
\* once in order, then the undefined names in increasing order, each name read
\* back in full; behind the section symbol of each COMDAT section, and nowhere
\* else, is the record with that section's size.  No undefined symbol has a
\* value: a linker would take it for the size of a common one.
TableWalks ==
  Built /\ FewBytes =>
    LET C     == Comdats(added)
        D     == Definitions(added)
        U     == ExternalRefs(added)
        heads == Expected + Cardinality(C)
        defs  == heads + Cardinality(D)
    IN  /\ Len(Symtab) = img.nsyms /\ Len(Symtab) = defs + Cardinality(U)
        /\ \A n \in DOMAIN Symtab : Symtab[n].class = "AUX" <=> IsRecord(n)
        /\ \A c \in 1 .. Expected : HeadsSection(HeadAt(C, c), c)
        /\ \A p \in D : DefinesAt(heads + Turn(D, p), p)
        /\ \A name \in U : LeavesUndefined(defs + UndefTurn(U, name), name)

\* The bytes are where the headers say, although layout and output compute
\* positions separately: no two pieces share a byte, each section is aligned,
\* the string table is directly behind the last slot, a header's name resolves
\* if it is short or its offset, which the section's symbol holds in full, has
\* no more digits than the field, and a section without file bytes claims none
\* and says how much it takes in memory.
LayoutHonest ==
  Built /\ FewBytes =>
    /\ img.count = Expected /\ Len(img.shdrs) = Expected
    /\ Disjoint(img.chunks, 20 + 40 * Len(img.shdrs))
    /\ StartsAt(img.chunks, img.symtab) /\ StartsAt(img.chunks, img.symtab + 18 * img.nsyms)
    /\ \A c \in DOMAIN added :
         LET sh == img.shdrs[c]
             s  == added[c]
             at == Symtab[HeadAt(Comdats(added), c)].name.at
         IN  /\ IF NoBits(s) THEN sh.raw = 0 /\ sh.relocs = 0 /\ sh.count = 0
                ELSE /\ Extent(sh.raw, sh.size) # {}
                     /\ sh.raw % sh.chars.align = 0
                     /\ sh.count > 0 => sh.relocs = sh.raw + sh.size
             /\ ~NoBits(s) => sh.size = s.size
             /\ NoBits(s) /\ VirtualSize(s) < 2 * Half32 => sh.size = VirtualSize(s)
             /\ at < Slash => NameReads(sh.name, Strings, SectionName(s))

\* What a field is comes from the relocation's kind.
KindField(r) == [offset |-> r.offset, width |-> IF r.kind = "Abs64" THEN 8 ELSE 4]
LogicalAddend(r) ==
  IF r.kind \in {"PCRel32", "PLT32"} /\ Machine(arch) = "AMD64" THEN r.addend + 4 ELSE r.addend

HoldsAddends(s, c, code) ==
  LET F(m) == KindField(s.relocs[m])
  IN  /\ \A b \in 1 .. s.size :
           (\A m \in DOMAIN s.relocs : ~Covers(F(m), b)) => code[b] = <<"code", c, b>>
      /\ \A m \in DOMAIN s.relocs :
           /\ Inside(F(m), s.size)
           /\ \A n \in m + 1 .. Len(s.relocs) : \A b \in 1 .. s.size :
                ~(Covers(F(m), b) /\ Covers(F(n), b))
           => HoldsNumber(code, s.relocs[m].offset, F(m).width,
                LET a == LogicalAddend(s.relocs[m])
                IN  IF F(m).width = 8 THEN a ELSE Int32(a))

\* The caller's bytes survive and the addends arrive: a byte of a section that
\* lies in no relocated field is the caller's, and a field that lies in the
\* section and overlaps no later one holds its relocation's addend, four more
\* for a REL32 of AMD64.
\* Sections with the 32-bit kind on ARM64 are excepted: relocAddendSize takes
\* its type, 1, for the 64-bit one of AMD64, and the four bytes of Code behind
\* the field are lost.
AddendsKept ==
  Built /\ FewBytes => \A c \in DOMAIN added :
    LET s  == added[c]
        sh == img.shdrs[c]
    IN  ~NoBits(s) /\ s.size > 0 /\ (\A m \in DOMAIN s.relocs :
                                      ~(arch = "ARM64" /\ s.relocs[m].kind = "Abs32"))
        => HoldsAddends(s, c, Contents(sh.raw, sh.size))

\* What .drectve tells the linker of a symbol, of a section's symbols, of all.
DirectiveOf(sym) == IF sym.dllExport THEN <<"/EXPORT:">> \o sym.name ELSE << >>
DirectivesOf(s) == FlattenSeq([m \in DOMAIN s.symbols |-> DirectiveOf(s.symbols[m])])
Directives(ss) == FlattenSeq([c \in DOMAIN ss |-> DirectivesOf(ss[c])])

\* The exports reach the linker: a file with exported symbols ends with one
\* .drectve section that lists them all in order, a file without has the
\* sections added and no other, however often it has been serialised.
ExportsListed ==
  Built =>
    /\ Len(img.shdrs) = Expected
    /\ Expected > Len(added) =>
         LET sh == img.shdrs[Expected]
         IN  /\ sh.name = [inline |-> <<".drectve">>, at |-> 0]
             /\ sh.chars.content = "INFO"
             /\ FewBytes => Contents(sh.raw, sh.size) = Directives(added)

\* "Safe to call more than once; each call re-serialises from scratch": equal
\* sections give the same outcome again, whatever SetSubsystem said between.
Reproducible ==
  [][/\ last # NoCall /\ last' # last
     /\ last'.input.sections = last.input.sections
     => [last' EXCEPT !.written = last.written, !.input = last.input] = last]_vars

\* A call fails exactly for too many sections, a custom section without a
\* name, a kind of relocation the machine has no type for, and too many
\* relocations of a section with bytes; a name never makes it fail.  A failed
\* call hands no byte to the writer.
Buildable(input) ==
  LET ss == input.sections
  IN  /\ SectionCount(ss) < Word16
      /\ \A c \in DOMAIN ss :
           /\ ~(ss[c].kind = "Custom" /\ ss[c].custom = NoName)
           /\ \A m \in DOMAIN ss[c].relocs : Supported(input.opts.arch, ss[c].relocs[m].kind)
           /\ NoBits(ss[c]) \/ Len(ss[c].relocs) < Word16

Promise(input, outcome) ==
  \/ outcome.status = "built" /\ Buildable(input)
  \/ outcome.status = "failed" /\ ~Buildable(input) /\ outcome.written = "none"

\* The COFF File is an object.Builder: every call returns and answers so.
Abstract == INSTANCE Builder WITH config <- opts, busy <- pc # "idle"
ImplementsBuilder == Abstract!Spec

=============================================================================
