------------------------------- MODULE MCCoff -------------------------------
(***************************************************************************)
(* Small instances of the COFF serialiser: two COMDAT sections whose names *)
(* and symbols share long strings, exported symbols, undefined names, long *)
(* and short, in the wrong order, a name defined twice, fields at the very *)
(* end of the code, behind it and over one another, zero fill that has     *)
(* relocations, and more sections or relocations than a uint16 counts.     *)
(***************************************************************************)
EXTENDS CoffReader

Alphabet ==
  {".text", ".data", ".rdata", ".bss", ".pdata", ".CRT$XCU", ".CRT$XTZ", ".tls",
   ".tls$ZZZ", ".drectve", ".debug", "exit", "long", "main", "tmp", "write"}

RankOf(name) ==
  CASE name = <<"exit">> -> 1 [] name = <<"long", "exit">> -> 2 [] name = <<"long", "main">> -> 3
    [] name = <<"long", "tmp">> -> 4 [] name = <<"main">> -> 5 [] name = <<"tmp">> -> 6
    [] name = <<"write">> -> 7 [] OTHER -> 0

Long == {<<"long", n>> : n \in {"main", "exit", "tmp", ".debug"}}

Sym(name, offset, binding, kind) ==
  [name |-> name, offset |-> offset, binding |-> binding, kind |-> kind,
   dllExport |-> FALSE]
Export(sym) == [sym EXCEPT !.dllExport = TRUE]

Ref(offset, symbol, kind, addend) ==
  [offset |-> offset, symbol |-> symbol, kind |-> kind, addend |-> addend]

Plain ==
  [kind |-> "Text", custom |-> NoName, align |-> 0, size |-> 0, vsize |-> 0,
   symbols |-> << >>, relocs |-> << >>, linkOnce |-> FALSE]

\* Code that calls what it does not define, its last call at the very end.
text == [Plain EXCEPT
  !.size = 13,
  !.symbols = <<Export(Sym(<<"main">>, 0, "Global", "Func")), Sym(<<"tmp">>, 4, "Local", "Func")>>,
  !.relocs = <<Ref(1, <<"write">>, "PLT32", 0 - 4), Ref(9, <<"long", "exit">>, "PLT32", 0 - 4)>>]

\* Data with a second "tmp", a pointer, an image-relative address, and a field
\* that does not fit.
data == [Plain EXCEPT
  !.kind = "Data", !.align = 4, !.size = 14,
  !.symbols = <<Sym(<<"tmp">>, 8, "Local", "Data")>>,
  !.relocs = <<Ref(0, <<"tmp">>, "Abs64", 20000), Ref(8, <<"main">>, "Addr32NB", 20000),
               Ref(12, <<"exit">>, "IAT", 1)>>]

\* COMDAT sections: one named by its long global symbol, one by its base name.
comdat == [Plain EXCEPT
  !.size = 1, !.linkOnce = TRUE,
  !.symbols = <<Sym(<<"tmp">>, 0, "Weak", "Func"), Sym(<<"long", "main">>, 0, "Global", "Func")>>,
  !.relocs = <<Ref(0, <<"long", "tmp">>, "TLSIE", 7)>>]
constant == [Plain EXCEPT
  !.kind = "Custom", !.custom = <<"long", ".debug">>, !.linkOnce = TRUE, !.size = 9,
  !.symbols = <<Export(Sym(<<"main">>, 3, "Weak", "Data"))>>,
  !.relocs = <<Ref(2, <<"main">>, "TLSIE", 1), Ref(4, << >>, "TLSIE", 2)>>]

\* Zero fill that was given relocations, thread-local data and zero fill.
bss == [Plain EXCEPT
  !.kind = "BSS", !.align = 32, !.vsize = 100, !.symbols = <<Sym(<<"write">>, 8, "Global", "Data")>>,
  !.relocs = [n \in 1 .. 9 |-> Ref(0, <<"main">>, "Abs64", 0)]]
tls == [Plain EXCEPT !.kind = "TLS", !.vsize = 6]

\* More zero fill than a uint32 counts; two of the second are more bytes.
vast == [Plain EXCEPT !.kind = "BSS", !.vsize = 32770]
coarse == [Plain EXCEPT
  !.kind = "Data", !.align = 16384, !.size = 3,
  !.relocs = <<Ref(0, <<"main">>, "IAT", 1)>>]

\* Sections of nothing; too many relocations; callers' mistakes; the 32-bit
\* address, which both machines have.
tiny == [Plain EXCEPT !.kind = "ROData"]
tinyExport == [tiny EXCEPT !.symbols = <<Export(Sym(<<"tmp">>, 0, "Global", "Data"))>>]
crowded == [Plain EXCEPT
  !.kind = "InitArray", !.size = 8, !.relocs = [n \in 1 .. 8 |-> Ref(0, <<"main">>, "Abs64", n)]]
nameless == [Plain EXCEPT !.kind = "Custom"]
foreign == [Plain EXCEPT
  !.kind = "Unknown", !.size = 4, !.relocs = <<Ref(0, <<"tmp">>, "GOTLoad", 0)>>]
address == [Plain EXCEPT
  !.kind = "FiniArray", !.size = 9, !.relocs = <<Ref(0, <<"main">>, "Abs32", 3)>>]

AllSections ==
  {text, data, comdat, constant, bss, tls, tiny, tinyExport, crowded, nameless,
   foreign, address, vast, coarse}

\* Pairs of all sections, a few triples, and lists of tiny sections as long as
\* a uint16 counts and longer.
Lists(ss) ==
  LET used == {ss[n] : n \in DOMAIN ss}
  IN  \/ Len(ss) <= 2
      \/ Len(ss) = 3 /\ used \subseteq {text, data, comdat, constant}
      \/ Len(ss) <= 8 /\ SubSeq(ss, 1, Len(ss) - 1) = [n \in 1 .. Len(ss) - 1 |-> tiny]
           /\ used \subseteq {tiny, tinyExport}

\* A second call is made on few lists: with and without exports, that fail.
Calls(ss) ==
  IF Len(ss) <= 2 /\ {ss[n] : n \in DOMAIN ss} \subseteq {text, comdat, tinyExport, foreign}
  THEN 2 ELSE 1

-----------------------------------------------------------------------------
\* CoffFile cuts a position where it is stored, the code at every step.
ASSUME CutAgrees ==
  \A n \in 0 .. 14, v \in 32700 .. 32800 :
    Uint32(AlignUp(v, 2 ^ n)) = Uint32(AlignUp(Uint32(v), 2 ^ n))
=============================================================================
