------------------------------- MODULE KeyCell -------------------------------
(***************************************************************************)
(* What the map-key hooks of src/src/runtime/revana_hooks.cpp promise to   *)
(* the guest, with no mutex and no flags: one cipher key that is opened    *)
(* once, rolls over at most once between two world logins, is handed to    *)
(* the guest whole, and is gone for good once it is wiped.                 *)
(*                                                                         *)
(* MapKey is the detailed specification that implements this one.          *)
(***************************************************************************)
EXTENDS KeyMaterial

CONSTANT Handoffs  \* the guest threads that fetch the key

VARIABLES phase,     \* "new" before Configure, then "open", then "wiped"
          key,       \* the cipher key the next handoff receives
          owed,      \* a rollover was done and no world login has followed
          installed  \* per guest thread, the key it fetched last

cellVars == <<phase, key, owed, installed>>

-----------------------------------------------------------------------------
CellInit ==
    /\ phase = "new"
    /\ key = Wiped
    /\ owed = FALSE
    /\ installed = [h \in Handoffs |-> Wiped]

Open ==
    /\ phase = "new"
    /\ \E w \in Words : key' = Derive(w)
    /\ phase' = "open"
    /\ UNCHANGED <<owed, installed>>

\* A zone handoff (packet 0x00B).
Rollover ==
    /\ phase = "open"
    /\ ~owed
    /\ key' = Derive(NextWord(key.md5))
    /\ owed' = TRUE
    /\ UNCHANGED <<phase, installed>>

\* A world login response (packet 0x00A).
Login ==
    /\ owed' = FALSE
    /\ UNCHANGED <<phase, key, installed>>

Install(h) ==
    /\ phase = "open"
    /\ installed' = [installed EXCEPT ![h] = key]
    /\ UNCHANGED <<phase, key, owed>>

Wipe ==
    /\ phase' = "wiped"
    /\ key' = Wiped
    /\ UNCHANGED <<owed, installed>>

CellNext ==
    \/ Open
    \/ Rollover
    \/ Login
    \/ \E h \in Handoffs : Install(h)
    \/ Wipe

CellSpec == CellInit /\ [][CellNext]_cellVars
=============================================================================
