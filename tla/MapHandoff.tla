----------------------------- MODULE MapHandoff ------------------------------
(***************************************************************************)
(* The key cell of the hooks between the login data server, the map server *)
(* and the guest client.  The host sends one session key with every        *)
(* character selection (lobby_bridge.cpp, State::map_session_key); the     *)
(* guest asks the cell for its cipher at every handoff; each 0x00B rolls   *)
(* the cell over, each 0x00A lets it roll over again.                      *)
(*                                                                         *)
(* Server and guest are not in the repository: they are modelled by what   *)
(* the hooks rely on.  The map server adds two to its own key when it      *)
(* sends a character to another zone, and answers only a guest whose       *)
(* cipher matches; a datagram decodes only under the cipher it was         *)
(* enciphered with; datagrams are lost, and the last one delivered may be  *)
(* delivered again.  The hooks are seen through KeyCell, which MapKey      *)
(* implements; the guest receives on one thread.                           *)
(***************************************************************************)
EXTENDS KeyMaterial, Sequences

CONSTANTS Guest,      \* the guest thread that takes the key
          MaxZones,   \* bound: zone changes
          MaxLogins   \* bound: character selections

ASSUME BoundsAssumption == MaxZones \in Nat /\ MaxLogins \in Nat

VARIABLES phase, key, owed, installed,  \* the key cell
          mapSessionKey,  \* State::map_session_key, fixed by Configure
          stage,          \* of the guest client
          srvStage,       \* of the character on the map server
          srvKey,         \* the session key the map server uses for it
          sent,           \* datagrams the map server has sent, oldest first
          read,           \* the newest of them the guest has received
          zones, logins   \* counters, for the bounds

cell == <<phase, key, owed, installed>>
server == <<srvStage, srvKey, sent>>
counters == <<zones, logins>>
vars == <<cell, mapSessionKey, stage, server, read, counters>>

Cell == INSTANCE KeyCell WITH Handoffs <- {Guest}

Datagram(kind, word) == [kind |-> kind, cipher |-> Derive(word)]

-----------------------------------------------------------------------------
(* GenerateMapSessionKey, then RevanaConfigureDirectMapSessionKey.          *)
Init ==
    /\ mapSessionKey \in Words
    /\ phase = "open"
    /\ key = Derive(mapSessionKey)
    /\ owed = FALSE
    /\ installed = [h \in {Guest} |-> Wiped]
    /\ stage = "lobby"
    /\ srvStage = "none"
    /\ srvKey = Wiped
    /\ sent = <<>>
    /\ read = 0
    /\ zones = 0
    /\ logins = 0

(* The data-selection request carries the bridge's own copy of the key.     *)
Select ==
    /\ stage = "lobby"
    /\ logins < MaxLogins
    /\ logins' = logins + 1
    /\ srvKey' = mapSessionKey
    /\ srvStage' = "await_login"
    /\ stage' = "handoff"
    /\ UNCHANGED <<cell, mapSessionKey, sent, read, zones>>

(* The guest sets its map cipher up and asks the map server in.             *)
TakeKey ==
    /\ stage = "handoff"
    /\ Cell!Install(Guest)
    /\ stage' = "entering"
    /\ UNCHANGED <<mapSessionKey, server, read, counters>>

ServerAdmits ==
    /\ stage = "entering"
    /\ srvStage = "await_login"
    /\ installed[Guest] = Derive(srvKey)
    /\ srvStage' = "inzone"
    /\ sent' = Append(sent, Datagram("login", srvKey))
    /\ UNCHANGED <<cell, mapSessionKey, stage, srvKey, read, counters>>

\* A character is sent on only from a zone its client has entered.
ServerZones ==
    /\ stage = "inzone"
    /\ srvStage = "inzone"
    /\ zones < MaxZones
    /\ zones' = zones + 1
    /\ srvStage' = "await_login"
    /\ sent' = Append(sent, Datagram("zone", srvKey))
    /\ srvKey' = NextWord(srvKey)
    /\ UNCHANGED <<cell, mapSessionKey, stage, read, logins>>

\* The guest leaves for the lobby from a zone it is in.
Logout ==
    /\ stage = "inzone"
    /\ srvStage = "inzone"
    /\ stage' = "lobby"
    /\ srvStage' = "none"
    /\ UNCHANGED <<cell, mapSessionKey, srvKey, sent, read, counters>>

(* A datagram that decodes reaches the receive hook; one the map server has  *)
(* sent may be lost (skipped) and the last one may come again.               *)
Deliver(i, kind) ==
    /\ i \in read..Len(sent)
    /\ i > 0
    /\ sent[i].kind = kind
    /\ sent[i].cipher = installed[Guest]
    /\ read' = i
    /\ UNCHANGED <<mapSessionKey, server, counters>>

\* Fault: a 0x00B that comes again rolls the key over again.
DeliverZoneAgain(i) ==
    /\ Deliver(i, "zone")
    /\ key' = Derive(NextWord(key.md5))
    /\ owed' = TRUE
    /\ stage' = IF stage = "inzone" THEN "handoff" ELSE stage
    /\ UNCHANGED <<phase, installed>>

DeliverZone(i) ==
    /\ Deliver(i, "zone")
    /\ IF owed THEN UNCHANGED cell ELSE Cell!Rollover
    /\ stage' = IF stage = "inzone" THEN "handoff" ELSE stage

\* Fault: the world login response does not end the rollover.
DeliverLoginOwed(i) ==
    /\ Deliver(i, "login")
    /\ stage' = IF stage = "entering" THEN "inzone" ELSE stage
    /\ UNCHANGED cell

DeliverLogin(i) ==
    /\ Deliver(i, "login")
    /\ Cell!Login
    /\ stage' = IF stage = "entering" THEN "inzone" ELSE stage

Next ==
    \/ Select
    \/ TakeKey
    \/ ServerAdmits
    \/ ServerZones
    \/ Logout
    \/ \E i \in 1..Len(sent) : DeliverZone(i) \/ DeliverLogin(i)

(* The guest takes its key, the server answers, and what the server keeps   *)
(* sending is received in the end.                                          *)
DeliverLast ==
    \E i \in 1..Len(sent) :
        i = Len(sent) /\ read < i /\ (DeliverZone(i) \/ DeliverLogin(i))

Fairness == WF_vars(TakeKey) /\ WF_vars(ServerAdmits) /\ WF_vars(DeliverLast)

Spec == Init /\ [][Next]_vars /\ Fairness

-----------------------------------------------------------------------------
(* Types; a datagram carries a whole cipher.                                *)
TypeOK ==
    /\ phase = "open"
    /\ key \in Ciphers
    /\ owed \in BOOLEAN
    /\ installed \in [{Guest} -> Ciphers]
    /\ mapSessionKey \in Words
    /\ stage \in {"lobby", "handoff", "entering", "inzone"}
    /\ srvStage \in {"none", "await_login", "inzone"}
    /\ srvKey \in Sessions
    /\ sent \in Seq([kind : {"login", "zone"}, cipher : Ciphers])
    /\ read \in 0..Len(sent)
    /\ zones \in 0..MaxZones
    /\ logins \in 0..MaxLogins

(* One key on both sides: when the guest asks to be let in, its cipher is   *)
(* the digest of the key the map server expects, and while it is in a zone  *)
(* the host's key is the one the next 0x00B rolls over on the server too,   *)
(* however often that packet is received.                                   *)
SharedKeyLifecycle ==
    /\ stage = "entering" /\ srvStage = "await_login"
          => installed[Guest] = Derive(srvKey)
    /\ stage = "inzone" /\ srvStage = "inzone" => key = Derive(srvKey)

(* A zone change ends in the next zone: no lost or repeated 0x00B or 0x00A  *)
(* leaves the guest outside with a cipher the server does not accept.       *)
HandoffCompletes == stage = "handoff" ~> stage = "inzone"
=============================================================================
