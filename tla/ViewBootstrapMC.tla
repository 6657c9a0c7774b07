--------------------------- MODULE ViewBootstrapMC ---------------------------
(* Instances of ViewBootstrap: one or two receiving guest threads.          *)
EXTENDS ViewBootstrap

CONSTANTS recvA, recvB

MCOneThread  == {recvA}
MCTwoThreads == {recvA, recvB}
=============================================================================
