------------------------------- MODULE MCElf -------------------------------
(***************************************************************************)
(* Small instances of the ELF serialiser.  The sections are chosen so that *)
(* a few of them meet in every way the code tells apart: a local name used *)
(* twice, a name both exported and undefined elsewhere, undefined names in *)
(* the wrong order, zero-fill sections between sections with bytes, empty  *)
(* sections, COMDAT sections with and without relocations and without an   *)
(* exported symbol, a relocation kind only one machine has.                *)
(***************************************************************************)
EXTENDS ElfReader, Bitwise

Alphabet ==
  {".text", ".data", ".rodata", ".bss", ".eh_frame", ".init_array",
   ".fini_array", ".unknown", ".tdata", ".tbss", ".rela", ".group",
   ".note.GNU-stack", ".symtab", ".strtab", ".shstrtab",
   "exit", "f", "main", "tmp", "write"}

RankOf(name) ==
  CASE name = <<"exit">>  -> 1 [] name = <<"f">>   -> 2
    [] name = <<"main">>  -> 3 [] name = <<"tmp">> -> 4
    [] name = <<"write">> -> 5 [] OTHER            -> 0

Sym(name, offset, binding, kind) ==
  [name |-> <<name>>, offset |-> offset, binding |-> binding, kind |-> kind,
   dllExport |-> FALSE]

Ref(offset, symbol, kind, addend) ==
  [offset |-> offset, symbol |-> <<symbol>>, kind |-> kind, addend |-> addend]

Plain ==
  [kind |-> "Text", custom |-> NoName, align |-> 0, size |-> 0, vsize |-> 0,
   symbols |-> << >>, relocs |-> << >>, linkOnce |-> FALSE]

\* Code with a local and a global function that calls two undefined ones.
text == [Plain EXCEPT
  !.size = 5,
  !.symbols = <<Sym("main", 0, "Global", "Func"), Sym("tmp", 3, "Local", "Func")>>,
  !.relocs = <<Ref(0, "write", "PCRel32", 0 - 4), Ref(1, "exit", "PCRel32", 0 - 4),
               Ref(2, "tmp", "PCRel32", 0)>>]

\* Data with a second local "tmp", and a reference to main.
data == [Plain EXCEPT
  !.kind = "Data", !.align = 4, !.size = 3,
  !.symbols = <<Sym("tmp", 1, "Local", "Data")>>,
  !.relocs = <<Ref(0, "main", "Abs32", 7), Ref(2, "tmp", "Abs32", 0)>>]

\* Zero-fill data with a coarse alignment that defines write.
bss == [Plain EXCEPT
  !.kind = "BSS", !.align = 32, !.vsize = 100,
  !.symbols = <<Sym("write", 8, "Weak", "Data")>>]

\* Thread-local zero fill without a symbol.
tbss == [Plain EXCEPT !.kind = "TLS", !.vsize = 6]

\* A COMDAT function that refers to main, and a COMDAT constant that refers
\* to nothing.
comdat == [Plain EXCEPT
  !.kind = "Custom", !.custom = <<".text", "f">>, !.size = 1, !.linkOnce = TRUE,
  !.symbols = <<Sym("tmp", 0, "Local", "Func"), Sym("f", 0, "Weak", "Func")>>,
  !.relocs = <<Ref(0, "main", "PCRel32", 0)>>]
constant == [Plain EXCEPT
  !.kind = "ROData", !.size = 9, !.linkOnce = TRUE,
  !.symbols = <<Sym("f", 4, "Global", "Data")>>]

\* Callers' mistakes: a COMDAT section that exports nothing, a reference to a
\* section label, a kind of relocation only 64-bit machines have.
unsigned == [Plain EXCEPT
  !.size = 2, !.linkOnce = TRUE, !.symbols = <<Sym("main", 0, "Local", "Func")>>]
label == [Plain EXCEPT
  !.kind = "Data", !.symbols = <<Sym("exit", 0, "Local", "Section")>>,
  !.relocs = <<Ref(0, "exit", "Abs32", 0)>>]
wide == [Plain EXCEPT
  !.kind = "InitArray", !.size = 8, !.relocs = <<Ref(0, "main", "Abs64", 0)>>]

\* A kind outside the declared ones, and a section with nothing in it.
stray == [Plain EXCEPT !.kind = "Unknown", !.size = 4]
empty == [Plain EXCEPT !.kind = "FiniArray", !.align = 16]

\* An addend an int32 cannot hold and one it can, a scaled load, a weak symbol
\* in front of the global one in a COMDAT section.
far == [Plain EXCEPT
  !.size = 4, !.relocs = <<Ref(0, "main", "PCRel32", 5000), Ref(0, "f", "PCRel32", 4095)>>]
load == [Plain EXCEPT
  !.size = 4, !.relocs = <<Ref(0, "main", "LDST32Off12", 0)>>]
weakFirst == [Plain EXCEPT
  !.size = 2, !.linkOnce = TRUE,
  !.symbols = <<Sym("f", 0, "Weak", "Func"), Sym("main", 1, "Global", "Func")>>]

AllSections ==
  {text, data, bss, tbss, comdat, constant, unsigned, label, wide, stray, empty,
   far, load, weakFirst}
MixedSections == {text, data, bss, comdat, constant, empty}

Used(ss) == {ss[n] : n \in DOMAIN ss}

\* Pairs of all sections, triples of some.  The options are changed, and a
\* second call is made, with few: two undefined names, a section added between
\* the calls, a call that fails.
Lists(ss) == Len(ss) <= 2 \/ (Len(ss) = 3 /\ Used(ss) \subseteq MixedSections)
Few(ss) == ss \in {<<far>>, <<far, weakFirst>>, <<far, unsigned>>}
Calls(ss) == IF Few(ss) THEN 2 ELSE 1

\* For the runs that show what the documentation says and the code does not:
\* one section, one call.
Alone(ss) == Len(ss) <= 1
Once(ss) == 1

-----------------------------------------------------------------------------
\* alignUp clears bits, v + a - 1 &^ a - 1; the model rounds to a multiple.
\* The two agree on the powers of two that AlignAssumption admits.
Mask(v, a) == IF a <= 1 THEN v ELSE LET w == v + a - 1 IN w - (w & (a - 1))

ASSUME MaskAgrees ==
  \A n \in 0 .. 6 : \A v \in 0 .. 200 : Mask(v, 2 ^ n) = AlignUp(v, 2 ^ n)
=============================================================================
