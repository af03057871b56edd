------------------------------ MODULE MCShell -------------------------------
(***************************************************************************)
(* Shell for TLC.  Lines of up to five characters, a history of three and  *)
(* two arguments: blanks before, between and after words, a third word,    *)
(* keys there is no room for, a peek with an address and without, a        *)
(* command that is not known, a reboot and a shutdown.                     *)
(***************************************************************************)
EXTENDS Shell

MCKeys == {"a", "b", " "}
MCNames == {<<"a">>, <<"a", "a">>, <<"b">>, <<"b", "b">>}
MCReboot == <<"b">>
MCShutdown == <<"b", "b">>
MCPeek == <<"a">>
MCLines == {<<"a", " ", "b", " ", "b">>, <<" ", "a", "a">>, <<"b", "b">>, <<"b", "a">>}
=============================================================================
