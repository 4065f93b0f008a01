---------------------------- MODULE MachoReader ----------------------------
(***************************************************************************)
(* The Mach-O object as a linker reads it: from the load commands of the   *)
(* image a finished call produced, through stored offsets, symbol indices  *)
(* and section ordinals only.                                              *)
(***************************************************************************)
EXTENDS MachoFile, SequencesExt

Built == last.status = "built"
img == last.image
added == last.input.sections
arch == last.input.opts.arch

\* An image whose length a uint32 still counts; of the contents of longer ones
\* nothing is promised.
FewBytes == img.extent < 2 * Half32

Symtab == DataAt(img.chunks, img.symoff)
Strings == DataAt(img.chunks, img.stroff)

\* The chunk of a given extent; an empty section has none to look for.
Extent(at, size) == {n \in DOMAIN img.chunks : img.chunks[n].at = at /\ img.chunks[n].size = size}
Contents(at, size) == img.chunks[Max(Extent(at, size))].data
RecordsOf(sh) == IF sh.nreloc = 0 THEN << >> ELSE Contents(sh.reloff, 8 * sh.nreloc)
CodeOf(sh) == IF sh.size = 0 THEN << >> ELSE Contents(sh.offset, sh.size)

\* The places <<section, position>> of the symbols with a name in a list of
\* sections, and the order in which they get theirs in the symbol table: the
\* local ones, then the exported ones, both as the caller added them.
SymAt(ss, p) == ss[p[1]].symbols[p[2]]
IsLocal(ss, p) == SymAt(ss, p).binding = "Local"
Definitions(ss) ==
  {p \in UNION {{c} \X DOMAIN ss[c].symbols : c \in DOMAIN ss} : SymAt(ss, p).name # NoName}
Sooner(ss, p, q) ==
  \/ IsLocal(ss, p) /\ ~IsLocal(ss, q)
  \/ (IsLocal(ss, p) <=> IsLocal(ss, q)) /\ (p[1] < q[1] \/ (p[1] = q[1] /\ p[2] < q[2]))

\* How many definitions come first, the one at p included; how many undefined
\* names, name included.
Turn(ss, p) == Cardinality({q \in Definitions(ss) : q = p \/ Sooner(ss, q, p)})
UndefTurn(ss, name) == Cardinality({u \in ExternalSymbols(ss) : Rank(u) <= Rank(name)})

\* The definition a reference to name must reach, of those that give the name
\* the last in this order: its last exported one, else its last local one.
Named(ss, name) == {p \in Definitions(ss) : SymAt(ss, p).name = name}
Meant(ss, name) ==
  {p \in Named(ss, name) : \A q \in Named(ss, name) : q = p \/ Sooner(ss, q, p)}

\* A symbol stands for the definition at p; an ordinal beyond a byte is lost.
InSection(sym, c) == c < Byte => sym.sect = c
StandsFor(sym, p) ==
  LET def == SymAt(added, p)
  IN  /\ ReadsAs(Strings, sym.strx, Mangled(def.name))
      /\ InSection(sym, p[1]) /\ sym.value = def.offset
      /\ sym.type = (IF def.binding = "Local" THEN "SECT" ELSE "EXT")
      /\ sym.weak <=> def.binding # "Local" /\ (def.binding = "Weak" \/ added[p[1]].linkOnce)

StandsForUndefined(sym, name) ==
  /\ ReadsAs(Strings, sym.strx, Mangled(name))
  /\ sym.type = "UNDEF" /\ sym.sect = 0 /\ ~sym.weak

\* The bytes a relocation's addend belongs to, and whether they are its own:
\* inside the code and under no later field with an addend.
Width(r) == RelocDesc(arch, r.kind).width
Bytes(r) == r.offset + 1 .. r.offset + Width(r)
Owned(s, m) ==
  /\ s.relocs[m].addend # 0 /\ Bytes(s.relocs[m]) \subseteq 1 .. s.size
  /\ \A n \in m + 1 .. Len(s.relocs) :
       s.relocs[n].addend # 0 => Bytes(s.relocs[m]) \cap Bytes(s.relocs[n]) = {}

Stored(s, m, v) ==
  HoldsNumber(CodeOf(img.shdrs[s]), added[s].relocs[m].offset, Width(added[s].relocs[m]),
              IF Width(added[s].relocs[m]) = 8 THEN v ELSE Int32(v))

-----------------------------------------------------------------------------
\* A relocation names the section of its symbol and not the symbol: that is
\* local, and the field is not that of an ARM64 page instruction.
ByOrdinal(r) ==
  /\ \E p \in Meant(added, r.symbol) : IsLocal(added, p)
  /\ ~(arch = "ARM64" /\ r.kind \in {"ADRPage21", "AddOff12"})

\* Record rec, found in the image, leads a linker to what relocation r asks for.
Reaches(rec, r) ==
  LET places == Meant(added, r.symbol)
      sym    == Symtab[rec.num + 1]
  IN  /\ rec.address = r.offset
      /\ [type |-> rec.type, width |-> rec.width, pcrel |-> rec.pcrel] = RelocDesc(arch, r.kind)
      /\ rec.extern = ~ByOrdinal(r)
      /\ ByOrdinal(r) /\ Len(added) < Word24 => \E p \in places : rec.num = p[1]
      /\ ~ByOrdinal(r) /\ Len(Symtab) <= Word24 =>
           /\ rec.num + 1 \in DOMAIN Symtab
           /\ IF places = {} THEN StandsForUndefined(sym, r.symbol)
              ELSE \E p \in places : StandsFor(sym, p)

\* A linker that follows a relocation of a section with bytes, all of which are
\* there, in order and at the offset the header states, finds the symbol meant:
\* by its index when the name is exported anywhere, undefined, or the field is
\* that of an ARM64 page instruction, else by the ordinal of the section of its
\* last definition; and finds the addend in the code. What the second form
\* cannot say, the symbol's offset, is left to LocalsReached; the number must
\* fit 24 bits and the file's length 32 (build, phase 4; applyImplicitAddends).
RelocationsReach ==
  Built /\ FewBytes => \A c \in DOMAIN added : ~NoBits(added[c]) =>
    LET rs == RecordsOf(img.shdrs[c])
    IN  /\ Len(rs) = Len(added[c].relocs)
        /\ \A m \in DOMAIN rs :
             /\ Reaches(rs[m], added[c].relocs[m])
             /\ Owned(added[c], m) => Stored(c, m, added[c].relocs[m].addend)

\* The symbol table a linker finds is the null symbol, an unnamed symbol per
\* section, then in the order the caller gave them all named local symbols and
\* all named exported ones, then the undefined names in increasing order,
\* each name with its underscore; weak are those the caller or their section
\* says, which a dead-stripping linker relies on (build, phase 3).
SymbolOrder ==
  Built /\ FewBytes =>
    LET n == Len(added)
        d == Cardinality(Definitions(added))
    IN  /\ Len(Symtab) = img.nsyms
        /\ Len(Symtab) = 1 + n + d + Cardinality(ExternalSymbols(added))
        /\ Symtab[1] = NullSym
        /\ \A c \in 1 .. n : Symtab[1 + c].strx = 0 /\ InSection(Symtab[1 + c], c)
        /\ \A p \in Definitions(added) : StandsFor(Symtab[1 + n + Turn(added, p)], p)
        /\ \A name \in ExternalSymbols(added) :
             StandsForUndefined(Symtab[1 + n + d + UndefTurn(added, name)], name)
        /\ ReadsAs(Strings, 0, NoName)

\* Section c, whose caller gave s, lies where its header sh says.
SectionHonest(s, c, sh) ==
  /\ IF NoBits(s)
     THEN /\ sh.zerofill /\ sh.size = VirtualSize(s)
          /\ sh.offset = 0 /\ sh.reloff = 0 /\ sh.nreloc = 0
     ELSE /\ Extent(sh.offset, s.size) # {} /\ sh.size = s.size
          /\ sh.offset % 2 ^ sh.align = 0
          /\ sh.nreloc > 0 => sh.reloff = sh.offset + sh.size
          /\ \A b \in 1 .. s.size :
               (\A m \in DOMAIN s.relocs : b \notin Bytes(s.relocs[m]))
               => CodeOf(sh)[b] = <<"code", c, b>>
  /\ s.align > 0 => 2 ^ sh.align = s.align

\* The bytes are where the load commands say, although layout and output compute
\* positions separately: no two pieces share a byte, all lie behind commands of
\* the announced size, each section is aligned as its header says, zero fill
\* claims none, the tables are found at their offsets, and every byte in no
\* relocated field is the caller's; as long as a uint32 counts the file's bytes.
\* A version set at any time before the call is in the file.
LayoutHonest ==
  Built /\ FewBytes =>
    /\ Len(img.shdrs) = Len(added)
    /\ img.sizeofcmds = 96 + 80 * Len(added) + 24 * (img.ncmds - 2)
    /\ img.ncmds = 3 <=> last.input.opts.minOS # "none"
    /\ img.version = last.input.opts.minOS
    /\ Disjoint(img.chunks, 32 + img.sizeofcmds)
    /\ StartsAt(img.chunks, img.symoff)
    /\ Extent(img.symoff, 16 * img.nsyms) # {} /\ Extent(img.stroff, img.strsize) # {}
    /\ img.segment.fileoff = 32 + img.sizeofcmds
    /\ \A c \in DOMAIN added : SectionHonest(added[c], c, img.shdrs[c])

\* A call fails exactly for a kind of relocation the machine has no type for,
\* a section kind outside the declared ones, a custom section without a comma
\* in its name, and a relocation against the empty name; a failed call hands
\* no byte to the writer.
Buildable(input) ==
  \A c \in DOMAIN input.sections :
    LET s == input.sections[c]
    IN  /\ s.kind # "Unknown" /\ (s.kind = "Custom" => "," \in Range(s.custom))
        /\ \A m \in DOMAIN s.relocs :
             Supported(input.opts.arch, s.relocs[m].kind) /\ s.relocs[m].symbol # NoName

Promise(input, outcome) ==
  \/ outcome.status = "built" /\ Buildable(input)
  \/ outcome.status = "failed" /\ ~Buildable(input) /\ outcome.written = "none"

\* The Mach-O File is an object.Builder: every call returns and answers so.
Abstract == INSTANCE Builder WITH config <- opts, busy <- pc # "idle"
ImplementsBuilder == Abstract!Spec

-----------------------------------------------------------------------------
\* "The caller always sets Reloc.Addend to the logical value [...] Callers are
\* shielded from the difference entirely" (README.md).  A linker resolves the
\* r_extern = 0 form as section base + addend in the instruction (the comment
\* in build, phase 4), so the number in the code must be the symbol's offset
\* plus the addend; it is the addend.
LocalsReached ==
  Built /\ FewBytes => \A c \in DOMAIN added : ~NoBits(added[c]) =>
    \A m \in DOMAIN added[c].relocs :
      Owned(added[c], m) /\ ~RecordsOf(img.shdrs[c])[m].extern
      => \E p \in Meant(added, added[c].relocs[m].symbol) :
           Stored(c, m, SymAt(added, p).offset + added[c].relocs[m].addend)
=============================================================================
