---------------------------- MODULE PolResolverMC ---------------------------
(* Two guest threads over two tables, each with every pause in between.    *)
EXTENDS PolResolver, TLC

CONSTANTS guestA, guestB

MCGuests == {guestA, guestB}
MCSymmetry == Permutations(MCGuests)
=============================================================================
