----------------------------- MODULE MCStrncpy ------------------------------
(***************************************************************************)
(* Strncpy for TLC: strings shorter than the array, as long and longer.    *)
(***************************************************************************)
EXTENDS Strncpy

MCStrings == {<<>>, <<"/">>, <<"a", "b", "c">>, <<"a", "b", "c", "d">>}
=============================================================================
