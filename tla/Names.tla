------------------------------- MODULE Names -------------------------------
(***************************************************************************)
(* What the string tables and the object types share: strings and maps.    *)
(* A Go string is a sequence of characters.  The character NUL ends a      *)
(* string in a string table and is never part of one.  An instance may let *)
(* one "character" stand for a whole run of bytes (".rela", "text"): no    *)
(* property tells the bytes inside such a run apart.                       *)
(***************************************************************************)
EXTENDS Integers, Sequences

CONSTANTS
  Char,   \* the characters symbol and section names are made of
  NUL     \* the terminator the string tables append

ASSUME NULAssumption == NUL \notin Char

Name == Seq(Char)

\* The empty string "".
NoName == << >>

\* Go's m[k] = v on a map.
Put(m, k, v) == [x \in DOMAIN m \cup {k} |-> IF x = k THEN v ELSE m[x]]

\* The map with no keys.
EmptyMap == [x \in {} |-> 0]
=============================================================================
