---------------------------- MODULE StrTabProofs ----------------------------
(***************************************************************************)
(* StrTabSpec's properties for every alphabet and every set of strings.    *)
(* The strengthening that makes them inductive is Recorded: a pair that    *)
(* was handed out is what the table itself still records for its string,   *)
(* so that TypeOK, which says that the table finds its strings, covers the *)
(* pairs handed out long ago.                                              *)
(***************************************************************************)
EXTENDS StrTabSpec, FormatLemmas

\* A pair handed out is what the table records.
Recorded ==
  \A p \in handed : p[1] \in DOMAIN table.offsets /\ p[2] = table.offsets[p[1]]

IInv == TypeOK /\ Recorded

LEMMA InitIInv == Init => IInv
<1> SUFFICES ASSUME Init PROVE IInv
  OBVIOUS
<1> USE DEF Init
<1>1. TypeOK
  BY NewStrTabOK DEF TypeOK
<1>2. Recorded
  BY DEF Recorded
<1>3. QED
  BY <1>1, <1>2 DEF IInv

LEMMA InternStep ==
  ASSUME IInv, NEW s \in Strings, InternString(s)
  PROVE  IInv' /\ Extends(table'.data, table.data)
<1>1. s \in Name /\ StrTabOK(table) /\ table' = Intern(table, s)
  BY StringsAssumption DEF IInv, TypeOK, InternString
<1>2. /\ StrTabOK(table')
      /\ Extends(table'.data, table.data)
      /\ OffsetOf(table, s) \in Nat
      /\ \A r \in DOMAIN table.offsets : OffsetOf(table, r) = table.offsets[r]
      /\ DOMAIN table'.offsets = DOMAIN table.offsets \cup {s}
  BY <1>1, InternLemma
<1>3. \A r \in DOMAIN table.offsets : table'.offsets[r] = table.offsets[r]
  <2>1. CASE s \in DOMAIN table.offsets
    BY <1>1, <2>1 DEF Intern
  <2>2. CASE s \notin DOMAIN table.offsets
    BY <1>1, <2>2 DEF Intern, Put
  <2>3. QED
    BY <2>1, <2>2
<1>4. table'.offsets[s] = OffsetOf(table, s)
  BY <1>1 DEF OffsetOf
<1>5. TypeOK'
  BY <1>2 DEF IInv, TypeOK, InternString
<1>6. Recorded'
  BY <1>2, <1>3, <1>4 DEF IInv, Recorded, InternString
<1>7. QED
  BY <1>2, <1>5, <1>6 DEF IInv

\* What Recorded is for.
LEMMA IInvImplies == IInv => HandedOffsetsResolve /\ OffsetsStable
  BY DEF IInv, TypeOK, Recorded, StrTabOK, Consistent, HandedOffsetsResolve, OffsetsStable

LEMMA StutterStep == IInv /\ UNCHANGED vars => IInv'
  BY DEF IInv, TypeOK, Recorded, vars

\* IInv holds in every reachable state.
THEOREM Inductive == Spec => []IInv
<1>1. IInv /\ [Next]_vars => IInv'
  BY InternStep, StutterStep DEF Next
<1>2. QED
  BY InitIInv, <1>1, PTL DEF Spec

\* The table's types and consistency (strTab.intern keeps every string it has
\* an offset for readable at that offset).
THEOREM TypeCorrect == Spec => []TypeOK
<1>1. IInv => TypeOK
  BY DEF IInv
<1>2. QED
  BY Inductive, <1>1, PTL

\* An offset returned once names its string for ever.
THEOREM HandedOffsets == Spec => []HandedOffsetsResolve
<1>1. IInv => HandedOffsetsResolve
  BY IInvImplies
<1>2. QED
  BY Inductive, <1>1, PTL

\* One string, one offset.
THEOREM StableOffsets == Spec => []OffsetsStable
<1>1. IInv => OffsetsStable
  BY IInvImplies
<1>2. QED
  BY Inductive, <1>1, PTL

\* The table grows at its end and nowhere else.
THEOREM GrowsAtEnd == Spec => AppendOnly
<1>1. IInv /\ [Next]_vars => [/\ Len(table.data) <= Len(table'.data)
                              /\ \A k \in 1 .. Len(table.data) :
                                   table'.data[k] = table.data[k]]_vars
  <2> SUFFICES ASSUME IInv, NEW s \in Strings, InternString(s)
               PROVE  Extends(table'.data, table.data)
    BY DEF Extends, Next
  <2>1. QED
    BY InternStep
<1>2. QED
  BY Inductive, <1>1, PTL DEF Spec, AppendOnly
=============================================================================
