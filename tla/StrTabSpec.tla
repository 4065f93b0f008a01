----------------------------- MODULE StrTabSpec -----------------------------
(***************************************************************************)
(* One string table as its clients use it.  A serialiser interns names one *)
(* by one, storing each returned offset in an entry it has already built.  *)
(* That the serialisers intern every name before they take the bytes is    *)
(* not a matter of the table: see NamesResolve of ElfReader.               *)
(***************************************************************************)
EXTENDS StrTab

CONSTANT Strings   \* the strings clients intern
ASSUME StringsAssumption == Strings \subseteq Name

VARIABLES
  table,     \* the strTab
  handed     \* <<string, offset>> pairs intern has returned

vars == <<table, handed>>

Init ==
  /\ table = NewStrTab
  /\ handed = {}

InternString(s) ==
  /\ table' = Intern(table, s)
  /\ handed' = handed \cup {<<s, OffsetOf(table, s)>>}

Next == \E s \in Strings : InternString(s)

Spec == Init /\ [][Next]_vars

-----------------------------------------------------------------------------
\* The types, and the table's own consistency: every string with an offset
\* is found at that offset (strTab.intern).
TypeOK ==
  /\ StrTabOK(table)
  /\ handed \subseteq Strings \X Nat

\* Every offset intern ever returned still names the string it was returned
\* for, whatever has been interned since: entries written early stay right.
HandedOffsetsResolve ==
  \A p \in handed : ReadsAs(table.data, p[2], p[1])

\* One string has one offset for the life of the table: no string is stored
\* twice, and an offset never moves.
OffsetsStable ==
  \A p, q \in handed : p[1] = q[1] => p[2] = q[2]

\* The table only ever grows at its end.
AppendOnly ==
  [][/\ Len(table.data) <= Len(table'.data)
     /\ \A k \in 1 .. Len(table.data) : table'.data[k] = table.data[k]]_vars
=============================================================================
