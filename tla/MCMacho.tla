------------------------------ MODULE MCMacho ------------------------------
(***************************************************************************)
(* Small instances of the Mach-O serialiser: a name that is local in two   *)
(* sections, local in one and exported in another, undefined names in the  *)
(* wrong order, symbols without a name, page relocations, fields over one  *)
(* another and behind the end, zero fill with relocations, custom names    *)
(* with no, one and two commas, more sections than n_sect counts and more  *)
(* symbols than r_symbolnum does, and files longer than a uint32 counts.   *)
(***************************************************************************)
EXTENDS MachoReader

Alphabet ==
  {"_", ",", "__TEXT", "__text", "__DATA", "__data", "__DWARF", "__debug", "_str", "_offs",
   "exit", "main", "tmp", "write"}

RankOf(name) ==
  CASE name = <<"exit">> -> 1 [] name = <<"main">> -> 2 [] name = <<"tmp">> -> 3
    [] name = <<"write">> -> 4 [] OTHER -> 0

Def(name, offset, binding) ==
  [name |-> name, offset |-> offset, binding |-> binding, kind |-> "Func",
   dllExport |-> FALSE]

Ref(offset, symbol, kind, addend) ==
  [offset |-> offset, symbol |-> symbol, kind |-> kind, addend |-> addend]

Plain ==
  [kind |-> "Text", custom |-> NoName, align |-> 0, size |-> 0, vsize |-> 0,
   symbols |-> << >>, relocs |-> << >>, linkOnce |-> FALSE]

\* Code for x86-64 that calls a global, a local and two undefined functions;
\* code for ARM64 that takes the page of a local.
text == [Plain EXCEPT
  !.size = 13,
  !.symbols = <<Def(<<"tmp">>, 4, "Local"), Def(<<"main">>, 0, "Global")>>,
  !.relocs = <<Ref(0, <<"write">>, "PCRel32", 0), Ref(4, <<"exit">>, "GOTLoad", 0 - 4),
               Ref(9, <<"tmp">>, "PCRel32", 0 - 4)>>]
page == [Plain EXCEPT
  !.size = 8,
  !.symbols = <<Def(<<"tmp">>, 4, "Local"), Def(NoName, 6, "Global"), Def(NoName, 2, "Local")>>,
  !.relocs = <<Ref(0, <<"tmp">>, "ADRPage21", 0), Ref(4, <<"tmp">>, "AddOff12", 3),
               Ref(0, <<"main">>, "PCRel26", 0)>>]

\* Data with another local "tmp", pointers to it and to main, fields that
\* overlap, one of them with addend 0, and one that does not fit.
data == [Plain EXCEPT
  !.kind = "Data", !.align = 4, !.size = 18,
  !.symbols = <<Def(<<"tmp">>, 8, "Local"), Def(<<"tmp">>, 16, "Local")>>,
  !.relocs = <<Ref(0, <<"tmp">>, "Abs64", 5000), Ref(8, <<"main">>, "Abs64", 1),
               Ref(6, <<"main">>, "TLSGD", 5000), Ref(11, <<"exit">>, "Abs64", 2),
               Ref(10, <<"main">>, "Abs64", 0)>>]

\* A link-once section that exports "tmp", a weak main; zero fill that was
\* given relocations; thread-local data and zero fill.
once == [Plain EXCEPT
  !.kind = "ROData", !.size = 1, !.linkOnce = TRUE,
  !.symbols = <<Def(<<"tmp">>, 0, "Global"), Def(<<"main">>, 1, "Local")>>]
weak == [Plain EXCEPT
  !.kind = "InitArray", !.size = 9, !.symbols = <<Def(<<"main">>, 3, "Weak")>>,
  !.relocs = <<Ref(1, <<"main">>, "Abs64", 0 - 1)>>]
bss == [Plain EXCEPT
  !.kind = "BSS", !.align = 32, !.vsize = 100, !.symbols = <<Def(<<"write">>, 8, "Global")>>,
  !.relocs = <<Ref(0, <<"exit">>, "Abs64", 0)>>]
tdata == [Plain EXCEPT !.kind = "TLS", !.size = 3, !.align = 2]
tbss == [Plain EXCEPT !.kind = "TLS", !.vsize = 6]

\* Custom names, and callers' mistakes.
debug == [Plain EXCEPT
  !.kind = "Custom", !.custom = <<"__DWARF", ",", "__debug", ",", "_str", "_offs">>, !.size = 5]
comma == [debug EXCEPT !.custom = <<"__debug">>]
stray == [Plain EXCEPT !.kind = "Unknown"]
empty == [Plain EXCEPT !.kind = "Unwind", !.relocs = <<Ref(0, NoName, "Abs64", 0)>>]
tiny == [Plain EXCEPT !.kind = "FiniArray", !.symbols = <<Def(<<"exit">>, 2, "Local")>>]

\* A file with two of these is longer than a uint32 counts.
coarse == [Plain EXCEPT
  !.kind = "Data", !.align = 4096, !.size = 3,
  !.relocs = <<Ref(0, <<"main">>, "Abs64", 1)>>]

AllSections ==
  {text, page, data, once, weak, bss, tdata, tbss, debug, comma, stray, empty, tiny, coarse}

\* Pairs of all sections, a few triples, and up to ten tiny sections in front
\* of one that refers to their symbol.
Lists(ss) ==
  LET used == {ss[n] : n \in DOMAIN ss}
  IN  \/ Len(ss) <= 2
      \/ Len(ss) = 3 /\ used \subseteq {data, once, weak, bss}
      \/ Len(ss) <= 10 /\ used \subseteq {tiny, data}
           /\ \A n \in 1 .. Len(ss) - 1 : ss[n] = tiny
Single(ss) == Len(ss) <= 1

\* A second call is made on few lists.
Calls(ss) ==
  IF Len(ss) <= 2 /\ {ss[n] : n \in DOMAIN ss} \subseteq {once, bss, empty} THEN 2 ELSE 1

-----------------------------------------------------------------------------
\* log2 counts how often v can be halved; the model takes the largest power.
Shift[v \in Nat] == IF v <= 1 THEN 0 ELSE 1 + Shift[v \div 2]

ASSUME Log2Agrees == \A v \in 0 .. 16383 : Shift[v] = Log2(v)

\* MachoFile cuts a position where it is stored, the code at every step.
ASSUME CutAgrees ==
  \A n \in 0 .. 13, v \in 8100 .. 8300 :
    Uint32(AlignUp(v, 2 ^ n)) = Uint32(AlignUp(Uint32(v), 2 ^ n))
=============================================================================
