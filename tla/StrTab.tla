------------------------------- MODULE StrTab -------------------------------
(***************************************************************************)
(* The null-terminated string table of elf/strtab.go (macho/strtab.go is   *)
(* the same code): operators on a table, used by StrTabSpec and by the     *)
(* serialisers.  coff/strtab.go has the same intern on a table without a   *)
(* sentinel.  Offsets count from 0 while sequences count from 1, so the    *)
(* character at offset o is data[o + 1].                                   *)
(***************************************************************************)
EXTENDS Names

\* A defect to test the properties against: no sentinel byte, though "" is
\* recorded at offset 0.
NewStrTabBare == [data |-> << >>, offsets |-> [s \in {NoName} |-> 0]]

\* A fresh table: the sentinel byte, with "" already at offset 0.
NewStrTab == [data |-> <<NUL>>, offsets |-> [s \in {NoName} |-> 0]]

\* A defect: the new string is recorded at the length the table has AFTER its
\* bytes were appended.
InternLate(t, s) ==
  IF s \in DOMAIN t.offsets
  THEN t
  ELSE [data    |-> Append(t.data \o s, NUL),
        offsets |-> Put(t.offsets, s, Len(t.data \o s))]

\* A defect: the terminator is forgotten.
InternUnterminated(t, s) ==
  IF s \in DOMAIN t.offsets
  THEN t
  ELSE [data    |-> t.data \o s,
        offsets |-> Put(t.offsets, s, Len(t.data))]

\* A defect: a string already present is added again, at a new offset.
InternAgain(t, s) ==
  [data    |-> Append(t.data \o s, NUL),
   offsets |-> Put(t.offsets, s, Len(t.data))]

\* A defect: the new string is put in front of the others.
InternFront(t, s) ==
  IF s \in DOMAIN t.offsets
  THEN t
  ELSE [data    |-> Append(s, NUL) \o t.data,
        offsets |-> Put(t.offsets, s, 0)]

\* The table after intern(s); a string already present costs nothing.
Intern(t, s) ==
  IF s \in DOMAIN t.offsets
  THEN t
  ELSE [data    |-> Append(t.data \o s, NUL),
        offsets |-> Put(t.offsets, s, Len(t.data))]

\* What intern(s) returns.
OffsetOf(t, s) == Intern(t, s).offsets[s]

\* Go's t.offsets[s] without the comma-ok form: a missing key reads as 0.
Lookup(t, s) == IF s \in DOMAIN t.offsets THEN t.offsets[s] ELSE 0

-----------------------------------------------------------------------------
(***************************************************************************)
(* How the reader of an object file sees a table.                          *)
(***************************************************************************)
\* The characters of data from offset off up to the first NUL are s.
ReadsAs(data, off, s) ==
  /\ off + Len(s) < Len(data)
  /\ \A k \in 1 .. Len(s) : data[off + k] = s[k]
  /\ data[off + Len(s) + 1] = NUL

\* Every string a table has an offset for is found there.
Consistent(t) ==
  /\ t.data \in Seq(Char \cup {NUL})
  /\ DOMAIN t.offsets \subseteq Name
  /\ \A s \in DOMAIN t.offsets :
       t.offsets[s] \in Nat /\ ReadsAs(t.data, t.offsets[s], s)

\* So it is in a table with a sentinel, which has "" too.
StrTabOK(t) == Consistent(t) /\ t.data # << >> /\ NoName \in DOMAIN t.offsets
=============================================================================
