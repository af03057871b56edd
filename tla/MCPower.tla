------------------------------ MODULE MCPower -------------------------------
(***************************************************************************)
(* Power for TLC: rates in MHz and two other mails ahead of an answer.     *)
(* MCPower.cfg has the Raspberry Pi 4's ARM clock (lareos.h, #ifdef RPI4), *)
(* whose maximum does not fit in 32 bits three times; MCPowersave.cfg has  *)
(* the Raspberry Pi 3's.                                                   *)
(***************************************************************************)
EXTENDS Power

MCRates == {0, 700}
=============================================================================
