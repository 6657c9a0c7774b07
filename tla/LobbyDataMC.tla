----------------------------- MODULE LobbyDataMC -----------------------------
(* Instances of LobbyData: one guest thread that reconnects, or two that    *)
(* may launch at once.                                                      *)
EXTENDS LobbyData

CONSTANTS viewA, viewB

MCTwoGuests == {viewA, viewB}
=============================================================================
