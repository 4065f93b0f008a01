------------------------------ MODULE Objects ------------------------------
(***************************************************************************)
(* Package object: the format-agnostic input of every builder.  A Section  *)
(* is a plain value; Code is represented by its length: a byte of it is    *)
(* known by its place.  Symbol.Size, FlagNoDeadStrip and Target.OS are     *)
(* left out.                                                               *)
(***************************************************************************)
EXTENDS Names

\* "Unknown" stands for every SectionKind value outside the declared ones:
\* the type is a uint8 and nothing rejects the others.
SectionKinds ==
  {"Text", "Data", "ROData", "BSS", "Unwind", "InitArray", "FiniArray",
   "TLS", "Custom", "Unknown"}

Bindings == {"Local", "Global", "Weak"}

SymbolKinds == {"Func", "Data", "Section"}

RelocKinds ==
  {"Abs64", "Abs32", "PCRel32", "PLT32", "GOTLoad",
   "PCRel26", "ADRPage21", "AddOff12", "GOTPage21", "GOTOff12",
   "RISCVCall", "RISCVHI20", "RISCVLO12I", "RISCVLO12S",
   "TLSGD", "TLSIE", "TLSLE", "IAT", "Addr32NB",
   "LDST8Off12", "LDST16Off12", "LDST32Off12", "LDST64Off12", "LDST128Off12"}

Archs == {"AMD64", "ARM64", "RISCV64", "X86"}

\* dllExport: only COFF reads it.
Symbol ==
  [name : Name, offset : Nat, binding : Bindings, kind : SymbolKinds,
   dllExport : BOOLEAN]

Reloc == [offset : Nat, symbol : Name, kind : RelocKinds, addend : Int]

\* size is len(Code); linkOnce is the FlagLinkOnce bit of Flags.
Section ==
  [kind : SectionKinds, custom : Name, align : Nat, size : Nat, vsize : Nat,
   symbols : Seq(Symbol), relocs : Seq(Reloc), linkOnce : BOOLEAN]

\* Sections that take address space and no bytes of a structured file
\* (isBSSLike; the same test in every format), and how much they take.
NoBits(s) == s.kind = "BSS" \/ (s.kind = "TLS" /\ s.size = 0)
VirtualSize(s) == IF s.vsize > 0 THEN s.vsize ELSE s.size

\* The names a list of sections defines, whatever the kind or the binding.
DefinedNames(ss) ==
  UNION {{ss[i].symbols[k].name : k \in DOMAIN ss[i].symbols} : i \in DOMAIN ss}

\* The names the relocations of a list of sections refer to.
ReferencedNames(ss) ==
  UNION {{ss[i].relocs[k].symbol : k \in DOMAIN ss[i].relocs} : i \in DOMAIN ss}
=============================================================================
