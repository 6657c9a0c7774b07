--------------------------- MODULE CharacterLogin ---------------------------
(***************************************************************************)
(* What the hooks do to a guest that logs a character in: the receive hook *)
(* peeks at the character list and the next-login response on the view     *)
(* socket, and the world send hook restores the character id of the login  *)
(* packet in the guest's own buffer (RestoreWorldLoginCharacterId,         *)
(* runtime/revana_hooks.cpp; an experiment that                            *)
(* REVANA_EXPERIMENTAL_RESTORE_WORLD_LOGIN_CHARACTER_ID turns on).         *)
(*                                                                         *)
(* Two guest threads: one receives from the lobby, one sends to the world  *)
(* server; they share the stored id.  TCP may split a server's packet      *)
(* behind the header; the hook only peeks, the guest's receive follows it. *)
(***************************************************************************)
EXTENDS LobbyPackets

CONSTANTS Characters,  \* full ids of the account's characters, [high, low]
          ServerPackets, \* packets the view server may send
          MaxPackets,  \* bound: packets the view server sends
          MaxAttempts, \* kResponseWaitAttempts, 500 in the code
          None         \* no value

(* The guest's login packet holds the low 24 bits of the id only.          *)
Truncated(id) == [high |-> 0, low |-> id.low]

(* An account's characters differ in those 24 bits.                        *)
ASSUME CharactersAssumption ==
    /\ Characters \subseteq [high : Nat, low : Nat]
    /\ \A c, d \in Characters : c.low = d.low => c = d
    /\ \A p \in ServerPackets : p.command = NextLoginCommand => p.id \in Characters
    /\ MaxPackets \in Nat /\ MaxAttempts \in Nat \ {0}
    /\ None \notin Characters

ASSUME PacketsAssumption ==
    ServerPackets \subseteq [length : Nat, size : Nat, terminator : BOOLEAN, command : Nat,
                             count : Nat, identifier : BOOLEAN, id : Characters \cup {None}]

VARIABLES head,      \* the packet at the head of the view socket
          arrived,   \* what is there of it: "none", "header", "whole"
          received,  \* packets the guest has received
          pc,        \* where the receive hook is
          attempts,  \* peeks at the character list
          nextLogin, \* g_lobby_next_login_character_id, None for 0
          listReady, \* g_lobby_character_list_ready
          listSeen,  \* history: a well-formed list was there, whole
          picked,    \* the character of the last response the guest received
          login,     \* the world login packet in the guest's buffer
          sendPc,    \* where the send hook is
          full,      \* full_id, loaded once
          original,  \* packet_id and original_login_check
          sent       \* the world login packet as it left

viewVars == <<head, arrived, received, pc, attempts, nextLogin, listReady, listSeen, picked>>
worldVars == <<login, sendPc, full, original, sent>>
vars == <<viewVars, worldVars>>

(* The values an id can have between two of its bytes.                     *)
Ids == [high : {0} \cup {c.high : c \in Characters}, low : {c.low : c \in Characters}]

(* A world login: its id, what the check byte and the outer digest were    *)
(* computed over, and the character it is for.                             *)
Logins == [id : Ids, check : Ids, digest : Ids \X Ids, for : Characters]

SendSteps == {"idle", "low", "high", "check", "digest", "undo low", "undo high", "undo check",
              "send"}

TypeOK ==
    /\ head \in ServerPackets
    /\ arrived \in {"none", "header", "whole"}
    /\ received \in 0..MaxPackets
    /\ pc \in {"idle", "header", "next", "list", "recv"}
    /\ attempts \in 0..MaxAttempts
    /\ nextLogin \in Characters \cup {None}
    /\ listReady \in BOOLEAN
    /\ listSeen \in BOOLEAN
    /\ picked \in Characters \cup {None}
    /\ login \in Logins \cup {None}
    /\ sendPc \in SendSteps
    /\ full \in Characters \cup {None}
    /\ original \in [id : Ids, check : Ids] \cup {None}
    /\ sent \in Logins \cup {None}

Init ==
    /\ head \in ServerPackets
    /\ arrived = "none"
    /\ received = 0
    /\ pc = "idle"
    /\ attempts = 0
    /\ nextLogin = None
    /\ listReady = FALSE
    /\ listSeen = FALSE
    /\ picked = None
    /\ login = None
    /\ sendPc = "idle"
    /\ full = None
    /\ original = None
    /\ sent = None

-----------------------------------------------------------------------------
(* The view socket and RevanaTraceFourByteSocketReceive.                   *)

SocketUnchanged == UNCHANGED <<head, arrived, received, picked, worldVars>>

(* A well-formed list, whatever ParseCharacterList says of it.             *)
IsCharacterList(packet) ==
    /\ packet.terminator /\ packet.identifier
    /\ packet.command = CharacterListCommand
    /\ packet.length >= packet.size
    /\ \E n \in 0..MaxCharacters : packet.count = n /\ packet.size = CharacterListSize(n)

Arrive ==
    /\ received < MaxPackets
    /\ \/ arrived = "none" /\ arrived' \in {"header", "whole"}
       \/ arrived = "header" /\ arrived' = "whole"
    /\ listSeen' = (listSeen \/ (arrived' = "whole" /\ IsCharacterList(head)))
    /\ UNCHANGED <<head, received, pc, attempts, nextLogin, listReady, picked, worldVars>>

EnterReceive ==
    /\ pc = "idle"
    /\ pc' = "header"
    /\ UNCHANGED <<attempts, nextLogin, listReady, listSeen>>
    /\ SocketUnchanged

(* The twelve bytes of the header say what to look at.                     *)
IsNextLogin(packet) == packet.size = 72 /\ packet.command = NextLoginCommand

MayBeList(packet) ==
    /\ packet.command = CharacterListCommand
    /\ packet.size \in CharacterListHeaderSize..CharacterListSize(MaxCharacters)

PeekHeader ==
    /\ pc = "header"
    /\ pc' = IF arrived = "none" THEN "recv"
             ELSE IF IsNextLogin(head) THEN "next"
             ELSE IF MayBeList(head) THEN "list" ELSE "recv"
    /\ attempts' = 0
    /\ UNCHANGED <<nextLogin, listReady, listSeen>>
    /\ SocketUnchanged

(* The response is looked at once: if it is not whole, its id is missed.   *)
PeekNextLogin ==
    /\ pc = "next"
    /\ pc' = "recv"
    /\ nextLogin' = IF arrived = "whole" THEN head.id ELSE nextLogin
    /\ UNCHANGED <<attempts, listReady, listSeen>>
    /\ SocketUnchanged

(* The list is waited for.  The hook's other way out, a closed connection, *)
(* is not there while unread bytes are.                                    *)
PeekCharacterList ==
    /\ pc = "list" /\ arrived = "whole"
    /\ pc' = "recv"
    /\ \E checksum \in BOOLEAN :
          listReady' = (listReady \/ ParseCharacterList(head, checksum) = "ok")
    /\ UNCHANGED <<attempts, nextLogin, listSeen>>
    /\ SocketUnchanged

WaitForCharacterList ==
    /\ pc = "list" /\ arrived # "whole"
    /\ attempts < MaxAttempts
    /\ attempts' = attempts + 1
    /\ pc' = IF attempts' = MaxAttempts THEN "recv" ELSE "list"
    /\ UNCHANGED <<nextLogin, listReady, listSeen>>
    /\ SocketUnchanged

(* The guest's own receive: nothing yet, or the packet to its end.         *)
GuestReceivesNothing ==
    /\ pc = "recv" /\ arrived = "none"
    /\ pc' = "idle"
    /\ UNCHANGED <<attempts, nextLogin, listReady, listSeen>>
    /\ SocketUnchanged

GuestReceives ==
    /\ pc = "recv" /\ arrived = "whole"
    /\ pc' = "idle"
    /\ arrived' = "none"
    /\ received' = received + 1
    /\ head' \in ServerPackets
    /\ picked' = IF IsNextLogin(head) THEN head.id ELSE picked
    /\ UNCHANGED <<attempts, nextLogin, listReady, listSeen, worldVars>>

ReceiveHook == EnterReceive \/ PeekHeader \/ PeekNextLogin \/ PeekCharacterList \/ WaitForCharacterList

-----------------------------------------------------------------------------
(* The world login.                                                        *)

(* The guest writes its packet when the last one has gone.                 *)
BuildLogin ==
    /\ picked # None /\ sendPc = "idle"
    /\ LET id == Truncated(picked)
       IN login' = [id |-> id, check |-> id, digest |-> <<id, id>>, for |-> picked]
    /\ UNCHANGED <<viewVars, sendPc, full, original, sent>>

(* Altered: any other id than the stored one is replaced.                  *)
IsTruncationOfAny(id, stored) == id # stored

(* packet_id is not the full id and agrees with it in the low 24 bits.     *)
IsTruncationOf(id, stored) == id # stored /\ id.low = stored.low

(* The guest sends what is in its buffer, perhaps not for the first time.  *)
(* The receive hook may store another id from here on.                     *)
EnterSend ==
    /\ sendPc = "idle" /\ login # None
    /\ full' = nextLogin
    /\ original' = [id |-> login.id, check |-> login.check]
    /\ sendPc' = IF nextLogin # None /\ IsTruncationOf(login.id, nextLogin)
                 THEN "low" ELSE "send"
    /\ UNCHANGED <<viewVars, login, sent>>

(* One store into the guest's packet.                                      *)
Write(from, to, packet) ==
    /\ sendPc = from /\ sendPc' = to
    /\ login' = packet
    /\ UNCHANGED <<viewVars, full, original, sent>>

(* The id, the three low bytes and the high one; the check byte, over the  *)
(* id as it then is; the digest, over id and check byte.                   *)
WriteLow == Write("low", "high", [login EXCEPT !.id.low = full.low])
WriteHigh == Write("high", "check", [login EXCEPT !.id.high = full.high])
WriteCheck == Write("check", "digest", [login EXCEPT !.check = login.id])
WriteDigest == Write("digest", "send", [login EXCEPT !.digest = <<login.id, login.check>>])

(* The digest fails: the bytes are put back one by one.                    *)
DigestFails == Write("digest", "undo low", login)
PutBackLow == Write("undo low", "undo high", [login EXCEPT !.id.low = original.id.low])

(* Altered: the high byte of the id is put back as the stored one.         *)
PutBackHighFull == Write("undo high", "undo check", [login EXCEPT !.id.high = full.high])

PutBackHigh == Write("undo high", "undo check", [login EXCEPT !.id.high = original.id.high])

PutBackCheck == Write("undo check", "send", [login EXCEPT !.check = original.check])

RestoreWorldLoginCharacterId ==
    \/ WriteLow \/ WriteHigh \/ WriteCheck \/ WriteDigest
    \/ DigestFails \/ PutBackLow \/ PutBackHigh \/ PutBackCheck

SendLogin ==
    /\ sendPc = "send" /\ sendPc' = "idle"
    /\ sent' = login
    /\ full' = None /\ original' = None
    /\ UNCHANGED <<viewVars, login>>

Next ==
    \/ Arrive \/ ReceiveHook \/ GuestReceivesNothing \/ GuestReceives
    \/ BuildLogin \/ EnterSend \/ RestoreWorldLoginCharacterId \/ SendLogin

Spec == Init /\ [][Next]_vars

-----------------------------------------------------------------------------
(* Properties.                                                             *)

(* The list is only reported ready after a well-formed one was there,      *)
(* whole, however the server's packets were cut (ParseCharacterList and    *)
(* the receive hook).                                                      *)
ListReadyMeansList == listReady => listSeen

(* A world login leaves with the id of the character it is for, in full or *)
(* as the guest cut it, though the stored id may be that of an earlier     *)
(* choice: the response of this one may have been missed.                  *)
LoginKeepsCharacter == sent # None => sent.id \in {sent.for, Truncated(sent.for)}

(* Check byte and digest of what leaves are over what leaves, also when    *)
(* the digest fails after id and check byte were overwritten, and when     *)
(* another id is stored meanwhile (RestoreWorldLoginCharacterId).          *)
LoginStaysWhole == sent # None => sent.check = sent.id /\ sent.digest = <<sent.id, sent.check>>

=============================================================================
