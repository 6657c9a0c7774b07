----------------------------- MODULE KeyMaterial -----------------------------
(***************************************************************************)
(* The map-session key and the cipher key computed from it, as             *)
(* src/src/login/lobby_packets.cpp treats them.  Of the 20 bytes of a      *)
(* session key only the last word ever changes, so a session key is that   *)
(* word; a cipher key is the digest of a session key and is told apart by  *)
(* the session key it was computed from.                                   *)
(***************************************************************************)
EXTENDS Integers

CONSTANTS WordMod,  \* number of values of the rollover word (2^32 in the code)
          Wiped     \* all-zero key material

Words == 0..(WordMod - 1)

ASSUME KeyAssumption ==
    /\ WordMod \in Nat \ {0}
    /\ Wiped \notin Words
    /\ \A w \in Words : Wiped # [md5 |-> w]

\* AdvanceMapSessionKey: two is added to the rollover word, modulo 2^32.
NextWord(w) == (w + 2) % WordMod

\* DeriveMapCipherKey
Derive(w) == [md5 |-> w]

Sessions == Words \cup {Wiped}
Ciphers  == {Derive(w) : w \in Words} \cup {Wiped}
=============================================================================
