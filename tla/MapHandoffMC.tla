---------------------------- MODULE MapHandoffMC -----------------------------
(* Instances of MapHandoff: a rollover word of three bits and enough zone   *)
(* changes for it to wrap.                                                  *)
EXTENDS MapHandoff

CONSTANTS guest, wiped
=============================================================================
