# A verification of objectfile

`objectfile` turns finished sections of machine code, symbols and relocations
into relocatable object files. A caller fills a `File` of one format package
(`elf`, `coff`, `macho`, `flat`) through the interface `object.Builder` and
calls `Serialize` or `WriteTo`. This directory holds TLA+ models of all four
packages, the TLC configurations that check them on small instances, and proofs
checked by TLAPS. Paths such as `elf/write.go:394` are relative to the
repository.

The library is sequential: there are no goroutines, no locks and nothing that
is kept on disk. What makes it hard is of another kind. An object file is a web
of indices and offsets into tables that are built one after the other, many of
them computed before the table they point into exists; a linker follows these
numbers blindly and nothing in the library reads a file back. The repository
has no tests. The models therefore follow the builders loop by loop, so that
every intermediate table is a state, and then read the finished image as a
linker does.

## Inventory

| Component | State | Operations | What can go wrong |
|---|---|---|---|
| `object` (input types) | none, plain values | - | values nothing validates: kinds outside the declared ones, an alignment that is no power of two, a label that is not local |
| `object.Builder` | the sections and options of a File | `AddSection`, `Serialize`, `WriteTo`, options | a call that changes the File, leaks a table into the next call, or answers wrongly |
| `elf`, `macho` string table | `data`, `offsets` | `newStrTab`, `intern`, `bytes` | an offset that moves; a name interned after `bytes` handed the slice out |
| `coff` string table | the same, without the leading NUL, behind a size prefix | `intern`, `bytes` | the two offset conventions (with and without the prefix) mixed up |
| `elf` serialiser | File: `sections`, `osabi`, `dwarf`, `gnuStack`; build: two string tables, the symbol table, the name map, RELA buffers, section descriptors, layout, output buffer | options, `AddSection`, `Serialize`, `WriteTo` (five phases, in two copies for 64 and 32 bits) | symbol order, names defined twice, indices computed from counts, groups, offsets, padding, integer widths, errors half way |
| `coff` serialiser | File: `sections`, `subsystem`; build: the section list with `.drectve`, string table, slots, name map, records, layout, output | `SetSubsystem`, `AddSection`, `Serialize`, `WriteTo` | auxiliary symbol slots, addends patched into code, an alias of the caller's slice, reserved section numbers, counts in 16 bits |
| `macho` serialiser | File: `sections`, version, `codesignReserve`; build: string table, symbols, a map from names to index, section and binding, records, layout, output | `SetMinOS`, `EnableCodesignReserve`, `AddSection`, `Serialize`, `WriteTo` | section-relative relocations that lose an offset, 8-bit section numbers, 24-bit symbol numbers, zero-fill sections |
| `flat` | File: `base`, `sections`; call: byte count, stream | `SetBaseAddress`, `AddSection`, `Serialize`, `WriteTo` | a writer that fails half way, padding, zero fill, relocations found too late |
| root package, `go.mod` | none | - | `objectfile.go` is empty |

The format packages do not call each other. They meet in `object`: the same
sections can be given to any of them, and each promises what `object.Builder`
does. There is no state they share.

`PROJECT.json` lists, under "hazards", the lines where each of these bites and
the properties that would notice.

## Modules

```
Names -- Objects --+-- FlatFile ---------------------- MCFlat
  |                |      |
  |                |   FlatProofs
  |                |
  +-- StrTab ------+-- ElfFile ---- ElfReader ---- MCElf
        |          |                    |
        |          |      ElfProofs -- ElfLayoutProofs -- ElfReaderProofs
        |          |
        |          +-- CoffFile --- CoffReader --- MCCoff
        |          |                    |
        |          |                 CoffProofs
        |          |
        |          +-- MachoFile -- MachoReader -- MCMacho
        |          |                    |
        |       Buffer              MachoProofs
        |
   StrTabSpec -- MCStrTab
        |
   StrTabProofs

FormatLemmas extends StrTab and Buffer and is extended by StrTabProofs and the
proofs of all formats.  Builder is the abstract specification that the three readers and
FlatFile instantiate.
```

| Module | Models | Correspondence |
|---|---|---|
| `Names`, `Objects` | Go strings and maps; package `object` | `Section`, `Symbol`, `Reloc` are records with the Go fields; `size` is `len(Code)`, `linkOnce` the flag bit |
| `StrTab`, `StrTabSpec` | `elf/strtab.go`, `macho/strtab.go`, and with another start `coff/strtab.go` | `Intern` and `OffsetOf` are the two results of `intern`; `StrTabSpec` is a client that interns in any order |
| `Buffer` | the output buffer of the structured formats | `AlignUp`, `PadTo`, `Emit`; `Patch` is `applyImplicitAddends` of COFF and Mach-O; below them what a reader finds in the buffer |
| `Builder` | `object/builder.go` | the abstract specification: a call is one `Return` step that obeys `Promise` and leaves the File as it is |
| `ElfFile`, `CoffFile`, `MachoFile` | the `File` and the build of each structured format | see below |
| `ElfReader`, `CoffReader`, `MachoReader` | nothing of the code: the linker's view | start at the file header or load commands, follow stored indices and offsets, and compare what they find with the input |
| `FlatFile` | `flat/flat.go` | one action per loop iteration, a byte-accurate image, a failing writer |

Conventions of all structured formats: a string is a sequence of *runs* of
characters (`<<".rela", ".text">>`), so that string tables are real tables with
offsets and terminators but a name does not cost a state per letter; the
undefined names come in the order of `sort.Strings`, given by the constant
`Rank`; `pc` names the loop the build is in and `i`, `k` are its cursors; a
call returns by `Return`, which also clears the locals of the build, and the
outcome (input, image or error, how much the writer took) stays in `last` until
the next call returns. Integer widths are constants (`Half32`, `Word16`,
`Word24`, `Byte`, ...), which the runs scale down so that the edges are reached.

### The ELF serialiser

`build64` and `build32` are the same text over two sets of structures.
`ElfFile` models both: `Class(arch)` gives the sizes, and `Addend`, `Size`,
`Uint32`, `SymNum` and `RelocType` the conversions in which they differ. The map
of `PROJECT.json` names the lines of one of the copies for each definition, so
that both are covered.

| Phase of the build | `pc` | Actions |
|---|---|---|
| null and section symbols | - | `WriteTo` |
| 1 local symbols | `locals` | `DefineSymbol`, `SkipSymbol`, `SectionSymbolsDone`, `LocalsDone` |
| 1 global and weak symbols | `globals` | the same, `GlobalsDone` |
| 1 undefined names | `externs` | `ExternSymbol`, `ExternsDone` |
| 2 relocations | `relocs` | `ConvertReloc`, `RelocFails`, `SectionRelocsDone`, `RelocsDone` |
| 3 descriptors | `content`, `rela`, `group` | `ContentSection`, `RelaSection`, `GroupSection`, `NoGroup`, `GroupFails`, `TailSections` |
| 4 layout | `layout` | `PlaceSection`, `LayoutDone` |
| 5 output | `write` | `WriteSection`, `Deliver` |

`Code` is its length; the bytes of section `n` in the output are one chunk
labelled `n`. The output buffer is its length and the chunks written to it,
with the position each really landed on, which `padTo` decides and not the
layout. Left out: `sh_flags`, `sh_entsize`, `st_size`, the constant bytes of the
ELF identification, `binary.Write`'s errors (a `bytes.Buffer` reports none), the
wording of errors.

### The COFF serialiser

| Phase of `coff` | `pc` | Actions |
|---|---|---|
| the exports (`buildDrectve`), one symbol at a time | `exports` | `ScanSymbol`, `ScanNextSection`, `ScanDone` |
| section count and names | `check` | `TooManySections`, `UnnamedSection`, `Accept` |
| long names into the string table | `names` | `InternName`, `InternNextSection`, `InternExtern`, `NamesDone` |
| section symbols with their auxiliary records | `headers` | `SectionSymbol`, `SectionSymbolsDone` |
| defined and undefined symbols | `symbols` | `DefineSymbol`, `DefineNextSection`, `UndefinedSymbol`, `SymbolsDone` |
| relocation records of a section | `relocs` | `ConvertSection`, `RelocFails`, `RelocsDone` |
| layout | `layout` | `SkipSection`, `PlaceSection`, `TooManyRelocs`, `LayoutDone` |
| output | `write` | `WriteSection`, `Deliver` |

`work` is the Go slice `sections` of the build, `f.sections` plus the synthetic
`.drectve`; that it may share memory with `f.sections` is harmless only because
the File's length stays what it was. `slots` is the symbol table with auxiliary
records as entries of their own. Code is kept byte by byte here: a cell is
`<<"code", c, b>>`, byte `b` of section `c` as the caller gave it, or
`<<"number", v, b>>`, byte `b` of a patched number `v`. Left out: the flag bits
of Characteristics other than content and alignment, the constant fields of the
auxiliary record, and what `SetSubsystem` records, which no code reads.

### The Mach-O serialiser

| Phase of `macho` | `pc` | Actions |
|---|---|---|
| kinds and section names, then the section symbols | `check` | `KindFails`, `SectionFails`, `SectionSymbols` |
| local symbols | `locals` | `DefineSymbol`, `SkipSymbol`, `SymbolsNextSection`, `PassDone` |
| exported symbols | `globals` | the same |
| undefined names | `externs` | `ExternSymbol`, `ExternsDone` |
| relocation records of a section | `relocs` | `ConvertSection`, `RelocFails`, `RelocsDone` |
| layout | `layout` | `SkipSection`, `PlaceSection`, `LayoutDone` |
| output | `write` | `WriteSection`, `Deliver` |

Positions are whole numbers in the models of COFF and Mach-O and `uint32` in
the code. They are cut (`Uint32`) where the code stores or compares them, and
`Reach` is where `padTo` stops, which compares the low 32 bits of the length.
Rounding up commutes with the cut, so that cutting late is the same
(`CutAgrees`, evaluated by TLC). Offsets into the string table and symbol
numbers are taken to stay below 2^32.

`symDefs` holds index, section and binding of a name at once, as the Go map
does; a record has `extern` and `num`, and code is patched as in COFF, for
addends other than 0. Left out: section flags other than zero fill, the
constant fields of the commands, the packing of version numbers.

### The flat image

`FlatFile` keeps the bytes: byte `b` of section `c` is `<<c, b>>`. `WriteFails`
lets the writer take any proper part of a chunk and report an error, which is
all `io.Writer` promises. Padding is the code's own remainder arithmetic, so
alignments that are no powers of two are included.

## Runs

| Run | Instance | Question | States |
|---|---|---|---|
| `strtab` | 5 strings over 2 characters | do offsets stay right in every order of calls? | 652 |
| `elf` | 4 architectures, at most 2 of 14 sections or 3 of 6; 3 lists with 2 calls and all options | are the tables right after every iteration; does a linker find what the caller meant; does a call fail exactly when it must; is a File reusable, and an `object.Builder`? | 170 022 |
| `coff` | 2 machines, pairs of 14 sections, some triples, up to 8 tiny ones, some second calls | does a linker find symbols, bytes and exports; is the File an `object.Builder`? | 92 578 |
| `macho` | 2 machines, pairs of 14 sections, some triples, up to 10 tiny ones, some second calls | the same | 141 350 |
| `flat` | 2 calls, at most 3 of 7 sections, failing writer | is a partial image a prefix, and is its length reported? | 174 832 |
| `elf_addend`, `elf_load_store`, `elf_comdat_key`, `elf_dwarf`, `flat_bss`, `flat_zero_fill`, `macho_locals` | one section | documented behaviour the code does not have | violated |

What the bounds have to reach: a name defined twice and referred to needs two
or three sections (in every format several of the sections define the same
name, with different bindings); a RELA section whose number differs from its
content section's needs a section without relocations in front of it; an
alignment gap needs a section of odd size and a coarser one behind it; a group
whose RELA section does or does not exist needs `comdat` and `constant`; a slot
index that differs from a symbol index needs a COMDAT section in front of the
symbol. All of these occur with three sections. In two calls with the same or
changed sections and options a table of one call can leak into the next. Which
lists of sections a run includes is its `Within`, how many calls a list gets
`MaxCalls`, and with which lists ELF's options change `Tuned`: the options
multiply the states of a list, and what they change (one descriptor, one byte
of the header) does not depend on what the sections hold.

The widths are scaled so that their edges lie inside the instance. `Half32`
(2^31) is 4096, in COFF 16384, so that an addend can leave the range. ELF: 14
for 2^16 and 13 for `SHN_LORESERVE`, reached by the files of three sections,
which have up to 14 section headers, and 11 for the 2^24 of `rinfo32`, exceeded
by the larger symbol tables. COFF: 8 for 2^16, reached by a list of eight
sections and by one with `.drectve`, and by a section of eight relocations; 7
for the offset 10^7 (`Slash`), on both sides of which long section names lie;
32 768 for 2^32, which the zero fill of `vast` and a file with two sections of
`coarse` exceed. Mach-O: 8 for the byte `n_sect`, 20 for the 24 bits of
`r_symbolnum`, 2 for the 16 characters of a section name, 8192 for 2^32; ten
sections and their symbols exceed the first two, two sections of `coarse` the
last.

Two idealisations are assumptions that TLC evaluates: `alignUp` is a bit mask in
the code and a multiple in the model, which agree for powers of two
(`MaskAgrees`; `AlignAssumption` restricts the sections to those a `uint32`
holds), and Mach-O's `log2` is a loop in the code and a choice in the model
(`Log2Agrees`). Addresses and lengths above 2^31 are outside TLC's integers.

### Properties

*String table.* `HandedOffsetsResolve` is why entries may be written before the
table is finished. `OffsetsStable` and `AppendOnly` say how: nothing that was
written moves. That a name interned after `bytes` handed the slice out is lost
shows in the image only, where `NamesResolve` looks for it.

*ELF tables.* `IndexSound`: the name map never dangles or names another
symbol. `LocalsFirst`: the System V order that `sh_info` announces.
`RelasSound`: no entry lost, repeated or filed under another section.
`IndicesHit`: the section indices computed from counts, before the descriptors
exist, hit the descriptors they were meant for. `WrittenWhereLaidOut`: the
layout loop and the serialisation compute positions separately and agree; no
section overlaps another, and `padTo`, which only goes forwards, is never asked
to go back. The last two are about the build's own tables, and so within reach
of a proof; `HeadersAgree` and `OffsetsHonest` ask the same of the stored image,
conversions included, from the outside.

*ELF image.* `RelocationsBind`: resolving a relocation reaches the last
exported definition of the name, else the last local one, else an undefined
symbol. `SymbolTableComplete`, `HeadersAgree`, `GroupsSound`, `NamesResolve`,
`OffsetsHonest`: the same idea for the symbols, the links, the COMDAT groups,
the section names and the file offsets. The code rejects no count and no size,
so the properties say explicitly how far the stored numbers can be trusted:
`FewHeaders` (`e_shnum`, `e_shstrndx` and `st_shndx` have 16 bits), `FewSymbols`
(a symbol index has 24 bits in a 32-bit `r_info`) and `FewBytes` (offsets and
sizes have 32 bits in a 32-bit file). The runs reach both sides of the first
two; no ELF instance comes near a file of 2^31 scaled down, but the proofs,
which speak of all sizes, showed that the properties need the third. `ErrorsExact`
describes the inputs that fail from the input alone, without the build's own
tables.

*COFF.* `SlotsSound`: at every iteration the name map and the records point at
a symbol slot of the right name, never at an auxiliary record. Of the image:
`RelocationsBind` (the last definition in section order, whatever its binding:
in ELF and Mach-O an exported one wins), `TableWalks` (stepping over the
announced auxiliary records shows every symbol once, in order), `LayoutHonest`,
`AddendsKept` (the caller's bytes survive outside the relocated fields, which
hold the addend), `ExportsListed` (the synthetic `.drectve` is there exactly
once, however often the File is serialised), `Reproducible`. Those that
read the image ask for `FewBytes`: the sections end where a `uint32` still
counts; of longer files the code promises nothing and reports nothing. In
`LayoutHonest` the name of a section is asked for while the offset of its string,
as the section's symbol holds it, has no more digits than the field, and the
size of zero fill in memory while a `uint32` holds it.

*Mach-O.* `IndexSound`: as in ELF, with the section and binding the map also
holds. Of the image: `RelocationsReach` (which of the two forms a record takes,
and the symbol or section and addend found through it), `SymbolOrder` (local,
exported, undefined, with weak symbols marked), `LayoutHonest`. The
first two speak, as `TableWalks` of COFF does, of the places
`<<section, position>>` of the caller's symbols:
`Sooner` is the order in which places get their symbols, `Turn` counts how many
come first, and the definition a name stands for is the last in that order
(`Meant`).

As in COFF, they ask for `FewBytes`, here of the whole file.

*Calls.* `Reproducible`: equal inputs, options included, give equal images.
`ImplementsBuilder`:
the detailed modules refine `Builder`; a build is one abstract step that fails
exactly for the inputs `Buildable` excludes, and every call returns.

*Flat.* `PartialWritesHonest` relates the stream at every moment to an image
computed from the sections by position. It speaks of the sections about whose
size code and documentation agree (`Undisputed`): not of a BSS section with
Code and no `VSize`, nor of zero-fill thread-local data with a `VSize`, which
have a run each below. `RefusedUntouched`: no byte before an
error about relocations; `BaseIsInformational`: two successful calls agree
whatever the base address.

Every property has a mutant: a defect defined next to the code's own
definition (their comments begin "A defect"), with which the property fails.

### Fairness

`Spec` has weak fairness of `Build` (ELF, COFF, Mach-O) and `Write` (flat): a
call that has started runs, because the code is sequential and waits for
nothing but the caller's writer, which is taken to return. Nothing is assumed
of the caller, so a File need never be built. A File with no further section or
call allowed by the bounds can still have an option set, if only to the value it
has, so there is no deadlock to excuse.

### Where the documentation and the code differ

Shown by the violation runs:

- `README.md:442` "`Reloc.Addend` flows directly into `r_addend`": `build32`
  keeps the low 32 bits (`elf/write.go:812`).
- `object/reloc.go:49` gives the `RelocLDST*` kinds ELF types: the ARM64 table
  (`elf/elf.go:157`) has none of them and the call fails.
- `README.md:179` "keyed on the first global symbol": the first global *or
  weak* one (`elf/write.go:330`).
- `elf/elf.go:103` and `README.md:172`: `EnableDWARF` controls the emission of
  skeleton `.debug_info` and `.debug_abbrev` sections: nothing reads the switch.
- `object/section.go:38` a `VSize` of 0 means `len(Code)`: a BSS section with Code
  and no `VSize` leaves no byte in a flat image (`flat/flat.go:103`).
- `README.md:431-434` zero-fill TLS in a flat image emits `VSize` zero bytes: it
  emits nothing (`flat/flat.go:108`).
- `README.md:512-514` callers are shielded from how addends are encoded: a
  Mach-O relocation against a local symbol becomes section-relative
  (`macho/write.go:630`), and the number put into the code is the caller's
  addend without the symbol's offset, so that a linker, which resolves it as
  `macho/write.go:619-620` says, reaches another place of the section. The
  exemption the code makes for ARM64 page relocations has the same reason.

Read, and without a run of their own:

- `coff/write.go:161-163`: the type of ARM64's 32-bit address equals that of
  AMD64's 64-bit one, so its addend is written over eight bytes instead of four.
  `AddendsKept` names the exception.
- `coff/write.go:423` says a malformed offset has been caught before: it has
  not, the addend is dropped and the record written.
- `README.md:200-201`: `DLLExport` emits no `__imp_` stub.
- `README.md:222-223` and `:228`: `AddSection` has no result in any package; the
  errors come from `Serialize` and `WriteTo`.
- `coff/write.go:541`: the section symbol of `.drectve` is not suppressed.
- `coff/coff.go:126-127` (and the other packages): `WriteTo` buffers the whole
  object first.
- `macho/macho.go`: the drawing puts all relocations behind all data, the code
  writes each section's behind its data; the r_extern convention does not
  mention the ARM64 exemption.
- Further options nothing reads: `EnableCodesignReserve` (`macho/macho.go:137`),
  `SetSubsystem`, `FlagNoDeadStrip`.
- `elf/write.go:637` says a NOBITS section does not advance the position, which
  its alignment does.
- Mach-O has no types for the `RelocLDST*` kinds either.

## Proofs

`FormatLemmas` proves once what interning does to a table: `InternLemma`, from
the two assumptions on characters alone; and the two facts every layout rests
on: an aligned position is a multiple and never lies before
the one it came from (`AlignUpLemma`), and a chunk whose target the buffer has
not gone past lands on the target, with the earlier chunks where they were and
the buffer's end behind it (`EmitLands`; `EmitLength` is the part about the
length alone).

`StrTabProofs` proves all four properties of `StrTabSpec`. The inductive
invariant is `TypeOK` with `HandedOffsetsResolve` and the fact that the
offset recorded for a string is the one that was handed out, without which
`OffsetsStable` does not follow.

`ElfProofs` proves `TypeOK`, `IndexSound`, `LocalsFirst` and `RelasSound` of
`ElfFile` for every set of sections, every machine, width and bound. They are
not inductive. `Shape` strengthens them with what the program counter implies:
the name map and the symbol table are empty while no call runs; while one runs
the symbol table is longer than the list of sections, whose symbols are in
front; `firstGlobal` is within the table once the local symbols are done; there
are no RELA entries before the relocations are reached; and inside a section
the cursor is at most one behind its last relocation. Each action has a lemma;
the actions that leave the tables alone share one. The central step is
`EnterSymbol`: interning keeps the strings of all earlier entries
(`InternLemma`), and the new entry is behind all of them, so that `IndexSound`
and `RelasSound` survive.

Its second part proves `ErrorsExact`. That a call fails exactly for certain
inputs is a statement about what the loops have *not* met so far, so the
invariant `Answers` records it: which names have entered the map at each point
of the two passes over the symbols and of the undefined names (`NamesIn`), that
every relocation passed was convertible (`Converted`) and every link-once
section passed exports something (`Grouped`). At a failing action the cursor
then names the input's fault, and at `Deliver` all of the input has been
passed. From the same facts follows `RefinesBuilder`: every step of the build is
a step of the abstract `Builder` or a stutter.

`ElfLayoutProofs` goes on to the second half of the build. Its invariant `LInv`
says how many descriptors there are at each iteration of the three loops: one
per content section passed, one per RELA section passed, one per section passed
that is link-once (`Groups(i)`, whose cardinality grows by one exactly when the
loop appends a group). When the last loop ends these counts are the ones the
indices were computed from, which gives `IndicesHit`; adding the offsets later
changes none of the fields it reads. For the layout, every section is behind
its predecessors; in the output loop the buffer then ends at or before the
offset of every section still to be written, so `padTo` lands exactly on it,
which is `WrittenWhereLaidOut`. Fields the layout does not read are left
untyped.

`ElfReaderProofs` proves what a linker finds in the image: all properties of
`ElfReader` about an image. Five more invariants lead
there, each kept by every step given the ones above (TLC checked each on
small instances first):

- `Made`: the descriptor at each place is the one the place is for. `Meant(n)`
  is that descriptor as a function of tables that no longer change in phase 3,
  so that a step answers for the descriptors it adds and for no other. The
  difficult case is the groups, whose place is the number of link-once sections
  in front (`GroupPlace`: different sections have different numbers).
- `InOrder`: the chunks of the output buffer follow one another, so that there is
  exactly one at an offset. Together with `WrittenWhereLaidOut` and `FewBytes`
  this gives `OffsetsHonest`, and what `Contents` reads at a header
  (`ShdrBytes`).
- `Bound`: which symbol a name stands for at each point of the two passes. Among
  the places passed so far that give the name, one wins (`Winner`): an exported
  symbol over a local one, else the later over the earlier. The entry the map
  holds is the winner's. That a later pass overwrites the map is harmless only
  because the passes come in the order of the preference; the proof of
  `DefineBound` is where this is used.
- `Worked`: the finished RELA sections belong to different sections in increasing
  order, one for each section with relocations, and their entries are those of
  the relocations.
- `Tabled`: what is where in the symbol table. Behind the null symbol and the
  section symbols there are as many entries as places the passes have entered
  (`Entries`), one for each of them; behind those one for each undefined name
  entered so far, in increasing order, and every name still to come is larger.
  That places are counted one by one rests on no place being passed twice
  (`EntriesGrow`).

From `Made` follows which header a linker finds that looks for a type
(`Regions`, `FoundByType`: exactly one SYMTAB, exactly two STRTAB, and no
synthetic PROGBITS header but the note), hence `HeadersAgree`; with the names
interned before the capture, `NamesResolve`; with `Bound` and `Worked`,
`RelocationsBind`; with the winner of an exported symbol never being local,
`GroupsSound`; and with `Tabled`, `SymbolTableComplete`.

`CoffProofs` proves `TypeOK` and `SlotsSound`. `Shape` ties the numbers of
slots, records and places to the loops: a slot list is at least as long as the
sections before the definitions begin, records and places are one per section
passed. `EnterLemma` is the step that matters: a head slot is appended with or
without its auxiliary record, and `CarriesExtends` shows that every slot that
carried a name before still does. `RefinesBuilder` needs that the synthetic
section is built exactly when some symbol is exported (`Scanned`, `Listed`),
that every name is in the map when the records are converted (`NamesIn`), and
that the layout has passed no section with too many relocations (`InOrder`).

Its second part proves `LayoutHonest`, `RelocationsBind` and `AddendsKept` of
`CoffReader`, from four invariants more:

- `Laid`: every section with bytes has a place behind the headers, aligned as
  its characteristics say, records directly behind its bytes, and nothing of an
  earlier section reaches into it.
- `Filled`: the chunks of the output buffer follow one another from the end of
  the headers to the buffer's end (`Chained`), the sections passed are in it
  where their places say, and the buffer ends at or before the place of every
  section still to be written, so that padding never has to go back. `Patch`
  keeps the length of the code, without which the places would be wrong.
- `Bound`: the slot the map holds for a name is that of the last definition
  seen so far, in section order, or an undefined one if there is none.
- `Converted`: a record made so far holds the slot index and type of its
  relocation.

At `Deliver` these turn into statements about the image: `ImageFields` and
`TablesWritten` say what is where, `ChainDisjoint` and `DataFound` of
`FormatLemmas` that a reader finds exactly that. `AddendsKept` rests on two
lemmas about the order in which fields are written (`PatchKeeps`: a byte in no
field survives; `PatchHolds`: a field that no later one overlaps holds its
addend), and on the widths of the fields following from the kinds.

Its last part proves `TableWalks` and `ExportsListed`, which are stated by
places and turns: in which slot the symbol of a section, of a definition or of an
undefined name is follows from how many come before it. TLC checked the
invariants on the instances of `coff` first:

- `Announced`: a slot is an auxiliary record exactly if the symbol in the slot in
  front of it says so.
- `Headed`: the symbol of a section entered so far is behind those of the
  sections in front of it, two slots for each COMDAT, its record carries the
  section's size, and its long name is in the string table. What the header stores of the offset
  is cut to the digits that fit; `HeaderNameReads` shows that it leads to the
  name while they all do.
- `Tabled`: as in Mach-O, the definitions entered so far are at their turns and
  the undefined names behind them at theirs.
- `Told`: the text collected so far is what the sections scanned and the symbols
  scanned of the next one tell the linker.

`Directives` is a fold of folds, and its proof needs that joining a sequence of
sequences is what one thinks it is: `JoinsExist` gets the joins from an induction
by `Counting`, `JoinedNext` says that one more row adds just its own text, and
`RowsJoined` puts the two levels together. That the last header is that of
`.drectve` and its name stands in the field itself rests on that name having
eight bytes (`LongNamesAssumption`).

Two things came out of these proofs. `EffectiveAlign` (COFF and Mach-O) was a
`CASE` whose guards overlapped, of which TLC takes the first and the logic says
nothing: it is an `IF` now, as in the code. And a `uint32` that wraps has to be
excluded in one place only: `Short` says that the end of the file, which the
layout knows before a byte is written, is one a `uint32` counts. It bounds every
position in front of it, so that each stored one is the one meant and `padTo`
stops at its target (`ReachFits`).

`MachoProofs` proves `TypeOK`, `IndexSound` and `RefinesBuilder` in the same
way; its invariant has in addition that all relocation kinds are encodable once
the checks are over (`KindsOK`), which is why the later phases may use their
descriptors. `RecordLemma` is the conversion of one relocation in either form.
Its last part proves `LayoutHonest` of `MachoReader` from `Laid` and `Filled`,
which say of Mach-O what they say of COFF. In addition the stored alignment is
an exponent here: `Log2Power` and `AlignExponent` show that it stands for the
alignment the place was rounded up to, for all the powers of two that
`AlignAssumption` allows, and `CodeKept` that a byte in no field of a relocation
is the caller's.

What is left proves `RelocationsReach` and `SymbolOrder`, from four invariants
more (TLC checked `Tabled` and `Bound` on the instances of `macho` first):

- `Tabled`: the symbol of a definition the passes have come by is at the place
  its turn says, that of an undefined name behind all of those. A pass enters a
  place when exactly the places sooner than it have been entered (`AtCursor`),
  so that the length of the table is its turn; an undefined name is entered
  when exactly the names of smaller rank have been, for every name still to
  come is larger.
- `Bound`: the map holds for a name the entry of the last of its definitions
  entered so far, or of no definition. No entry is ever taken back, so what is
  last when the passes end is what `Meant` says (`EntryMeant`).
- `Converted`: a record made so far is `Record` of its relocation, and the name
  is in the map.
- `Sentinel`: the string table begins with the empty string, the name of the
  section symbols.

`PiecesFound` says what a reader finds of these in the image, `PageKinds` for
which kinds a record names a symbol though it is local, and `AddendStored` is
`PatchHolds` with the widths of Mach-O's kinds, where a field without an addend
has none.

`FlatProofs` proves `TypeOK`, `RefusedUntouched` and `RefinesBuilder` of
`FlatFile`. The strengthening `Passed` is what the two phases of `WriteTo` know:
nothing is written before the check, and no section has relocations after it.

Its second part proves `PartialWritesHonest` and `BaseIsInformational`. The
image is defined by a running sum over the sections, so the first question is
whether the recursive function that defines it exists at all. `FormatLemmas`
answers that for every running sum: `Counting` is the principle of induction
stated with a set (a set that contains 0 and with each number its successor
contains all naturals; proved from the least number outside, `LeastExists`),
from it any two sums up to a bound agree (`SumsAgree`), and their diagonal is
the sum up to infinity (`SumsExist`). `StartUnfolds` and `ByteAtIs` then say
which byte is at a position: the section is the only one whose extent holds it.
The invariant is `Streaming`: what has been written is the first `total` bytes
of the image, and the piece about to be written starts right there. Each of the
pieces of `WriteTo` (the caller's bytes, zero fill, padding) is one case of
`StreamsStep`, whatever part of it the writer takes before it fails.

`ElfLayoutProofs` and `CoffProofs` end with `Reproducible`, an action property
about two calls that may be any number of steps apart. An invariant can hold on
to the earlier of them only by saying how its outcome came about, which it does
in three steps:

- `State` is the locals of a build in one record, and `After` a function from
  such a record, the sections and (ELF) the options to the next. `GoesOn` proves
  that every action of the build but the last does what `After` says, with a
  lemma for each phase. The only action that could choose is the one that takes
  the next undefined name out of the Go map's names: the code sorts them, and
  `RankAssumption` leaves one least name (`OneLeast`).
- `Ends` are the records at which a call returns, `OutcomeIn` the outcome there
  (`FinishesWith`): up to what the writer took it depends on the record and the
  input alone.
- `Reaches` says that a record is at the end of a `Trace`, the finite iteration
  of `After` from the start of a call. Two traces agree as far as both go
  (`TracesAgree`, by `Counting`), and none goes on behind a record at which the
  build ends, so that two that both end there end in the same one (`EndsMeet`).

The invariant `Replays` then says that between calls the locals are those the
first call met, that a build under way has reached its locals from there with
the sections of the File, and that the last outcome is one a trace of its
input leads to. Two outcomes of equal inputs are therefore equal, whatever was
called in between.

Assumed are only the named assumptions on the constants: names have no NUL in
them, sections are of the declared type, alignments are powers of two (not for
flat), the order of names is a total one, the scaled widths are positive, and
`LoReserve` is no larger than the 16-bit width.

Only model-checked is that every call returns: liveness under fairness is out of
the prover's reach, so of each refinement (`ImplementsBuilder`) the safety part
is proved and the rest checked.

The models use recursive functions, folds and quantifiers, no recursive
operators.

## Not modelled

`Symbol.Size`, `FlagNoDeadStrip` and `Target.OS` change nothing but a field
that is copied, or nothing at all. Flag bits, constants of headers and the
wording of errors have no state behind them. `binary.Write` into a
`bytes.Buffer` cannot fail. For alignments that are no powers of two nothing is
promised, by documentation or code, about positions in the structured formats.

## Plan

Done: all format packages, with a reader each; the abstract builder and its
four refinements; the proofs above, of the images of all structured formats and,
for ELF and COFF, of their being the same each time.

Left:

- A composition that gives the same sections to all structured formats and
  compares to which definition each binds a name. They differ today (see
  `RelocationsBind` of COFF), and the documentation promises neither.
