------------------------------ MODULE MapKeyMC -------------------------------
(* Small instances of MapKey: one or two receiving threads, one thread that *)
(* takes the key, and a rollover word of two bits.                          *)
EXTENDS MapKey

CONSTANTS host, recvA, recvB, take, nobody, wiped

MCTwoReceivers == {recvA, recvB}
MCOneReceiver  == {recvA}
MCHandoffs     == {take}
=============================================================================
