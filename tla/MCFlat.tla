------------------------------- MODULE MCFlat -------------------------------
(***************************************************************************)
(* Flat images of up to three sections: code that does and does not fill   *)
(* its alignment, an alignment that is no power of two, zero fill with and *)
(* without a virtual size, nothing at all, a relocation.                   *)
(***************************************************************************)
EXTENDS FlatFile

Plain ==
  [kind |-> "Text", custom |-> NoName, align |-> 0, size |-> 0, vsize |-> 0,
   symbols |-> << >>, relocs |-> << >>, linkOnce |-> FALSE]

FlatSections ==
  {Plain,
   [Plain EXCEPT !.size = 2],
   [Plain EXCEPT !.kind = "Data", !.size = 1, !.align = 3],
   [Plain EXCEPT !.kind = "Data", !.size = 4, !.align = 4],
   [Plain EXCEPT !.kind = "BSS", !.vsize = 3, !.align = 2],
   [Plain EXCEPT !.kind = "BSS", !.size = 2],
   [Plain EXCEPT !.kind = "TLS", !.vsize = 2],
   [Plain EXCEPT !.size = 1, !.relocs =
      <<[offset |-> 0, symbol |-> <<"f">>, kind |-> "Abs32", addend |-> 0]>>]}
=============================================================================
