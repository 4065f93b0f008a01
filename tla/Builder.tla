------------------------------ MODULE Builder ------------------------------
(***************************************************************************)
(* What every implementation of object.Builder promises.  A File collects  *)
(* sections in declaration order and options; a call of Serialize or       *)
(* WriteTo works on what the File holds when it is made, leaves it as it   *)
(* is ("Safe to call more than once"), returns, and answers as Promise     *)
(* says: Promise(input, outcome) is the relation of one format.            *)
(*                                                                         *)
(* Every sections and every outcome is allowed, so that the module is used *)
(* as a property of a format's module and never run by itself.             *)
(***************************************************************************)
EXTENDS Integers, Sequences

CONSTANT Promise(_, _)

VARIABLES
  config,     \* the format's options
  sections,   \* the sections added so far
  busy,       \* a call is running
  last        \* the last call that returned: at least status and input

vars == <<config, sections, busy, last>>

Init ==
  /\ sections = << >>
  /\ busy = FALSE
  /\ last.status = "none"

AddSection ==
  /\ ~busy
  /\ sections' # << >>
  /\ sections = SubSeq(sections', 1, Len(sections') - 1)
  /\ UNCHANGED <<config, busy, last>>

Configure ==
  /\ ~busy
  /\ UNCHANGED <<sections, busy, last>>

Call ==
  /\ ~busy
  /\ busy' = TRUE
  /\ UNCHANGED <<config, sections, last>>

Return ==
  /\ busy
  /\ busy' = FALSE
  /\ last'.input = [opts |-> config, sections |-> sections]
  /\ Promise(last'.input, last')
  /\ UNCHANGED <<config, sections>>

Next == AddSection \/ Configure \/ Call \/ Return

\* Every call returns.
CallsReturn == []<>(~busy)

Spec == Init /\ [][Next]_vars /\ CallsReturn
=============================================================================
