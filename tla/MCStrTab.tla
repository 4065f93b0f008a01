------------------------------ MODULE MCStrTab ------------------------------
(***************************************************************************)
(* StrTabSpec on the strings of length at most two over two characters:    *)
(* strings that are prefixes and suffixes of one another, and "".          *)
(***************************************************************************)
EXTENDS StrTabSpec

MCChar == {"a", "b"}
MCStrings == {<< >>, <<"a">>, <<"b">>, <<"a", "b">>, <<"b", "a">>, <<"b", "b">>}
=============================================================================
