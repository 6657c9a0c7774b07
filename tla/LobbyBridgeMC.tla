---------------------------- MODULE LobbyBridgeMC ---------------------------
(* An instance of LobbyBridge: the values of the variables are those that  *)
(* ParsePort and the endpoint tell apart.                                  *)
EXTENDS LobbyBridge

CONSTANTS gameA, gameB, off, on

MCGuests == {gameA, gameB}
MCValues == {off, on}
MCHosts == {None, 0, 2130706433}
MCDataPorts == {None, 0, 65534, 65535, 65536}
=============================================================================
