------------------------------- MODULE Buffer -------------------------------
(***************************************************************************)
(* The output buffer of the structured formats: positions are planned with *)
(* AlignUp, met with PadTo, and the data written is kept as chunks.  COFF  *)
(* and Mach-O also write addends into a copy of a section's Code: Patch.   *)
(*                                                                         *)
(* Code and patched code are sequences of cells, the byte at offset o at   *)
(* place o + 1.  A cell is <<"code", c, n>>, byte n of section c as the    *)
(* caller gave it, or <<"number", v, n>>, the n-th little-endian byte of v *)
(* (so that the low four bytes of an eight-byte number read as a number).  *)
(***************************************************************************)
EXTENDS Integers, Sequences, FiniteSetsExt

\* alignUp, which clears bits where this rounds: the same for the alignments a
\* uint32 holds that are powers of two.
PowerOfTwo(a) == \E n \in 0 .. 31 : a = 2 ^ n
AlignUp(v, a) == IF a <= 1 THEN v ELSE ((v + a - 1) \div a) * a

PadTo(len, target) == IF len < target THEN target ELSE len

EmptyOut == [len |-> 0, chunks |-> << >>]

\* padTo(out, target), then size bytes of data.
Emit(out, target, size, data) ==
  LET at == PadTo(out.len, target)
  IN  [len    |-> at + size,
       chunks |-> Append(out.chunks, [at |-> at, size |-> size, data |-> data])]

\* A field [offset, width, value] that lies in n bytes of code, byte b of it.
Inside(f, n) == f.offset + f.width <= n
Covers(f, b) == f.offset < b /\ b <= f.offset + f.width

\* applyImplicitAddends: the fields are written in order, one that does not
\* fit is passed over.
Patch(code, fields) ==
  [b \in DOMAIN code |->
     LET over == {m \in DOMAIN fields :
                    Inside(fields[m], Len(code)) /\ Covers(fields[m], b)}
     IN  IF over = {} THEN code[b]
         ELSE <<"number", fields[Max(over)].value, b - fields[Max(over)].offset>>]

-----------------------------------------------------------------------------
\* What a reader finds in a list of chunks: the data that starts at off, the
\* number stored in a field of some code.
StartsAt(chunks, off) == \E n \in DOMAIN chunks : chunks[n].at = off
DataAt(chunks, off) ==
  IF StartsAt(chunks, off)
  THEN chunks[Max({n \in DOMAIN chunks : chunks[n].at = off})].data ELSE << >>

HoldsNumber(code, offset, width, v) ==
  \A b \in 1 .. width :
    offset + b \in DOMAIN code /\ code[offset + b] = <<"number", v, b>>

\* No two chunks share a byte, and all lie behind the first header bytes.
Disjoint(chunks, header) ==
  \A n \in DOMAIN chunks :
    /\ header <= chunks[n].at
    /\ \A m \in DOMAIN chunks :
         \/ n = m
         \/ chunks[n].at + chunks[n].size <= chunks[m].at
         \/ chunks[m].at + chunks[m].size <= chunks[n].at
=============================================================================
