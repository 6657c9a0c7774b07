------------------------ MODULE CharacterLoginProofs -----------------------
(***************************************************************************)
(* Proofs about LobbyPackets and CharacterLogin, for any characters, any   *)
(* packets the server may send and any number of them: what the parsers    *)
(* accept, that stamping is done once, and that a world login keeps its    *)
(* character and leaves whole.                                             *)
(***************************************************************************)
EXTENDS CharacterLogin, TLAPS

-----------------------------------------------------------------------------
(* The packet functions.                                                   *)

(* A chain of checks is passed when each of them is.                       *)
LEMMA ThenOk ==
  ASSUME NEW outcome, NEW next
  PROVE  Then(outcome, next) = "ok" <=> outcome = "ok" /\ next = "ok"
BY DEF Then

LEMMA UnlessOk ==
  ASSUME NEW error, error # "ok", NEW good \in BOOLEAN
  PROVE  Unless(error, good) = "ok" <=> good
BY DEF Unless

LEMMA HeaderOk ==
  ASSUME NEW bytes, NEW command, NEW minimum, bytes.terminator \in BOOLEAN,
         ValidateLobbyHeader(bytes, command, minimum) = "ok"
  PROVE  /\ bytes.length >= minimum /\ bytes.size \in minimum..bytes.length
         /\ bytes.terminator /\ bytes.command = command
<1>1. /\ Unless("Truncated", bytes.length >= minimum) = "ok"
      /\ Unless("InvalidSize", bytes.size \in minimum..bytes.length) = "ok"
      /\ Unless("InvalidTerminator", bytes.terminator) = "ok"
      /\ Unless("UnexpectedCommand", bytes.command = command) = "ok"
  BY ThenOk DEF ValidateLobbyHeader
<1> QED
  BY <1>1 DEF Unless

(* The parser accepts a well-formed list that is there to its end, with    *)
(* the identifier checked, and nothing else (ParseCharacterList).          *)
THEOREM ParsedListIsList ==
  ASSUME NEW packet \in ServerPackets, NEW checksum \in BOOLEAN
  PROVE  ParseCharacterList(packet, checksum) = "ok" <=> checksum /\ IsCharacterList(packet)
<1>1. /\ packet.count \in Nat /\ packet.length \in Nat /\ packet.size \in Nat
      /\ packet.identifier \in BOOLEAN /\ packet.terminator \in BOOLEAN
  BY PacketsAssumption
<1>2. ASSUME ParseCharacterList(packet, checksum) = "ok"
      PROVE  checksum /\ IsCharacterList(packet)
  <2>1. /\ ValidateLobbyHeader(packet, CharacterListCommand, CharacterListHeaderSize) = "ok"
        /\ Unless("InvalidCharacterCount", packet.count <= MaxCharacters) = "ok"
        /\ Unless("InvalidSize", packet.size = CharacterListSize(packet.count)) = "ok"
        /\ ValidateLobbyIdentifier(packet, checksum) = "ok"
    BY <1>2, ThenOk DEF ParseCharacterList
  <2>2. /\ packet.size \in CharacterListHeaderSize..packet.length
        /\ packet.terminator /\ packet.command = CharacterListCommand
    BY <1>1, <2>1, HeaderOk
  <2>3. packet.length >= packet.size
    BY <1>1, <2>2 DEF CharacterListHeaderSize
  <2>4. packet.count <= MaxCharacters /\ packet.size = CharacterListSize(packet.count)
    BY <2>1 DEF Unless
  <2>5. checksum /\ packet.identifier
    BY <2>1, ThenOk DEF ValidateLobbyIdentifier, Unless
  <2>6. packet.count \in 0..MaxCharacters
    BY <1>1, <2>4 DEF MaxCharacters
  <2> QED
    BY <2>2, <2>3, <2>4, <2>5, <2>6 DEF IsCharacterList
<1>3. ASSUME checksum, IsCharacterList(packet)
      PROVE  ParseCharacterList(packet, checksum) = "ok"
  <2>1. /\ packet.terminator /\ packet.identifier /\ packet.command = CharacterListCommand
        /\ packet.length >= packet.size
        /\ packet.count \in 0..MaxCharacters /\ packet.size = CharacterListSize(packet.count)
    BY <1>3 DEF IsCharacterList
  <2>2. packet.count <= MaxCharacters
    BY <2>1 DEF MaxCharacters
  <2>3. packet.size >= CharacterListHeaderSize
    BY <1>1, <2>1 DEF CharacterListSize, CharacterListHeaderSize, CharacterEntrySize
  <2>4. /\ packet.length >= CharacterListHeaderSize
        /\ packet.size \in CharacterListHeaderSize..packet.length
    BY <1>1, <2>1, <2>3 DEF CharacterListHeaderSize
  <2>5. ValidateLobbyHeader(packet, CharacterListCommand, CharacterListHeaderSize) = "ok"
    BY <2>1, <2>4 DEF ValidateLobbyHeader, Then, Unless
  <2>6. ValidateLobbyIdentifier(packet, checksum) = "ok"
    BY <1>3, <2>1 DEF ValidateLobbyIdentifier, Then, Unless
  <2> QED
    BY <2>1, <2>2, <2>5, <2>6 DEF ParseCharacterList, Then, Unless
<1> QED
  BY <1>2, <1>3

(* The view receive is released for a key response that is there to the    *)
(* last byte and no further, with its identifier checked.                  *)
THEOREM CompleteKeyResponse ==
  ASSUME NEW bytes, bytes.terminator \in BOOLEAN, bytes.identifier \in BOOLEAN,
         NEW checksum \in BOOLEAN
  PROVE  IsCompleteKeyResponse(bytes, checksum) <=>
           /\ bytes.length = KeyResponseSize /\ bytes.size = KeyResponseSize
           /\ bytes.terminator /\ bytes.command = KeyResponseCommand
           /\ checksum /\ bytes.identifier
<1>1. ASSUME IsCompleteKeyResponse(bytes, checksum)
      PROVE  /\ bytes.length = KeyResponseSize /\ bytes.size = KeyResponseSize
             /\ bytes.terminator /\ bytes.command = KeyResponseCommand
             /\ checksum /\ bytes.identifier
  <2>1. /\ ValidateLobbyHeader(bytes, KeyResponseCommand, KeyResponseSize) = "ok"
        /\ Unless("InvalidSize", bytes.size = KeyResponseSize) = "ok"
        /\ Unless("ChecksumUnavailable", checksum) = "ok"
        /\ Unless("InvalidIdentifier", bytes.identifier) = "ok"
    BY <1>1, ThenOk DEF IsCompleteKeyResponse, ParseKeyResponse, ValidateLobbyIdentifier
  <2>2. bytes.terminator /\ bytes.command = KeyResponseCommand
    BY <2>1, HeaderOk
  <2> QED
    BY <1>1, <2>1, <2>2 DEF IsCompleteKeyResponse, Unless
<1>2. ASSUME bytes.length = KeyResponseSize, bytes.size = KeyResponseSize, bytes.terminator,
             bytes.command = KeyResponseCommand, checksum, bytes.identifier
      PROVE  IsCompleteKeyResponse(bytes, checksum)
  <2>1. bytes.length >= KeyResponseSize /\ bytes.size \in KeyResponseSize..bytes.length
    BY <1>2 DEF KeyResponseSize
  <2>2. ValidateLobbyHeader(bytes, KeyResponseCommand, KeyResponseSize) = "ok"
    BY <1>2, <2>1 DEF ValidateLobbyHeader, Then, Unless
  <2> QED
    BY <1>2, <2>2 DEF IsCompleteKeyResponse, ParseKeyResponse, ValidateLobbyIdentifier, Then, Unless
<1> QED
  BY <1>1, <1>2

(* before_send writes into the guest's own buffer: a buffer that is sent   *)
(* again is not changed again (PrepareLobbySend).                          *)
THEOREM StampedOnce ==
  ASSUME NEW session, NEW version, NEW plain,
         NEW source \in [length : Nat, marker : BOOLEAN, command : Nat, hash : {session, plain},
                         version : {version, plain}],
         NEW port, NEW dataPort, NEW viewPort
  PROVE  LET once == PrepareLobbySend(source, port, dataPort, viewPort, session, version)
         IN  PrepareLobbySend(once, port, dataPort, viewPort, session, version) = once
<1> DEFINE once == PrepareLobbySend(source, port, dataPort, viewPort, session, version)
<1>1. source = [length |-> source.length, marker |-> source.marker, command |-> source.command,
                hash |-> source.hash, version |-> source.version]
  OBVIOUS
<1>2. CASE once = source
  BY <1>2
<1>3. CASE once = [source EXCEPT !.hash = session]
  BY <1>1, <1>3 DEF PrepareLobbySend, IsLobbyPacket
<1>4. CASE once = [source EXCEPT !.hash = session, !.version = version]
  BY <1>1, <1>4 DEF PrepareLobbySend, IsLobbyPacket
<1> QED
  BY <1>2, <1>3, <1>4 DEF PrepareLobbySend

(* The bootstrap's login does not pass before_send, and need not: there is *)
(* nothing in it left to stamp (MakeViewLogin).                            *)
LEMMA BootstrapStamped ==
  ASSUME NEW session, NEW version, NEW dataPort, NEW viewPort
  PROVE  PrepareLobbySend(MakeViewLogin(session, version), viewPort, dataPort, viewPort,
                          session, version) = MakeViewLogin(session, version)
<1>1. IsLobbyPacket(MakeViewLogin(session, version), viewPort, dataPort, viewPort)
  BY DEF IsLobbyPacket, MakeViewLogin, ViewLoginSize, DataRequestSize, ViewLoginCommand,
     AuthenticatedLobbyCommands
<1> QED
  BY <1>1 DEF PrepareLobbySend, MakeViewLogin, ViewLoginSize, ViewLoginCommand

-----------------------------------------------------------------------------
(* The inductive invariant.                                                *)

(* The receive hook knows what is at the head of the socket.               *)
HookInv ==
    /\ pc = "next" => IsNextLogin(head)
    /\ arrived = "whole" /\ IsCharacterList(head) => listSeen
    /\ ListReadyMeansList

(* A login is for one character, and all of it is over the same id.        *)
LoginFits(packet) ==
    packet # None =>
        /\ packet.id \in {packet.for, Truncated(packet.for)}
        /\ packet.check = packet.id
        /\ packet.digest = <<packet.id, packet.check>>

(* Between the first and the last byte that is written.                    *)
Restoring == sendPc \in SendSteps \ {"idle", "send"}

(* What has been written so far is of the full id, the rest of the guest's *)
(* own; the digest is still the old one.                                   *)
HalfWritten ==
    /\ login \in Logins /\ full = login.for
    /\ original.id = Truncated(full) /\ original.check = original.id
    /\ login.id = IF sendPc \in {"check", "digest", "undo low", "undo high"}
                  THEN full ELSE original.id
    /\ login.check = IF sendPc \in {"digest", "undo low", "undo high", "undo check"}
                     THEN full ELSE original.id
    /\ login.digest = <<original.id, original.check>>

LoginInv ==
    /\ LoginFits(sent)
    /\ Restoring => HalfWritten
    /\ ~Restoring => LoginFits(login)

ViewType ==
    /\ head \in ServerPackets
    /\ arrived \in {"none", "header", "whole"}
    /\ received \in 0..MaxPackets
    /\ pc \in {"idle", "header", "next", "list", "recv"}
    /\ attempts \in 0..MaxAttempts
    /\ nextLogin \in Characters \cup {None}
    /\ listReady \in BOOLEAN
    /\ listSeen \in BOOLEAN
    /\ picked \in Characters \cup {None}

WorldType ==
    /\ login \in Logins \cup {None}
    /\ sendPc \in SendSteps
    /\ full \in Characters \cup {None}
    /\ original \in [id : Ids, check : Ids] \cup {None}
    /\ sent \in Logins \cup {None}

(* received < MaxPackets whenever something is there.                      *)
BoundInv == arrived # "none" => received < MaxPackets

IInv == ViewType /\ WorldType /\ BoundInv /\ HookInv /\ LoginInv

LEMMA TypeParts == TypeOK <=> ViewType /\ WorldType
BY DEF TypeOK, ViewType, WorldType

LEMMA InitIInv == Init => IInv
<1> SUFFICES ASSUME Init PROVE IInv
  OBVIOUS
<1>1. WorldType /\ BoundInv /\ LoginInv
  BY DEF Init, WorldType, BoundInv, LoginInv, LoginFits, Restoring, SendSteps
<1>2. ViewType
  <2>1. 0 \in 0..MaxPackets /\ 0 \in 0..MaxAttempts
    BY CharactersAssumption
  <2> QED
    BY <2>1 DEF Init, ViewType
<1>3. HookInv
  BY DEF Init, HookInv, ListReadyMeansList
<1> QED
  BY <1>1, <1>2, <1>3 DEF IInv

(* The id of a next-login response is that of a character.                 *)
LEMMA NextLoginId ==
  ASSUME head \in ServerPackets, IsNextLogin(head)
  PROVE  head.id \in Characters
BY CharactersAssumption DEF IsNextLogin

-----------------------------------------------------------------------------
(* The view socket and the receive hook.                                   *)

(* A step of the receiving thread leaves the other two alone.              *)
LEMMA Elsewhere ==
  ASSUME IInv, UNCHANGED worldVars, ViewType', BoundInv', HookInv'
  PROVE  IInv'
BY DEF IInv, WorldType, LoginInv, LoginFits, Restoring, HalfWritten, worldVars

LEMMA ArriveStep == IInv /\ Arrive => IInv'
<1> SUFFICES ASSUME IInv, Arrive PROVE IInv'
  OBVIOUS
<1>1. /\ arrived' \in {"header", "whole"} /\ received < MaxPackets
      /\ listSeen' = (listSeen \/ (arrived' = "whole" /\ IsCharacterList(head)))
      /\ UNCHANGED <<head, received, pc, attempts, nextLogin, listReady, picked, worldVars>>
  BY DEF Arrive
<1>2. ViewType'
  BY <1>1 DEF IInv, ViewType
<1>3. BoundInv' /\ HookInv'
  BY <1>1 DEF IInv, BoundInv, HookInv, ListReadyMeansList
<1> QED
  BY <1>1, <1>2, <1>3, Elsewhere

LEMMA ReceiveHookStep == IInv /\ ReceiveHook => IInv'
<1> SUFFICES ASSUME IInv, ReceiveHook PROVE IInv'
  OBVIOUS
<1>1. UNCHANGED <<head, arrived, received, picked, listSeen, worldVars>>
  BY DEF ReceiveHook, EnterReceive, PeekHeader, PeekNextLogin, PeekCharacterList,
     WaitForCharacterList, SocketUnchanged
<1>2. SUFFICES ASSUME TRUE PROVE ViewType' /\ BoundInv' /\ HookInv'
  BY <1>1, Elsewhere
<1>3. BoundInv'
  BY <1>1 DEF IInv, BoundInv
<1> USE <1>1, <1>3 DEF IInv, ViewType, HookInv, ListReadyMeansList
<1>4. CASE EnterReceive
  BY <1>4 DEF EnterReceive
<1>5. CASE PeekHeader
  <2>1. attempts' = 0 /\ 0 \in 0..MaxAttempts
    BY <1>5, CharactersAssumption DEF PeekHeader
  <2>2. pc' \in {"recv", "next", "list"} /\ (pc' = "next" => IsNextLogin(head))
    BY <1>5 DEF PeekHeader
  <2> QED
    BY <1>5, <2>1, <2>2 DEF PeekHeader
<1>6. CASE PeekNextLogin
  <2>1. head.id \in Characters
    BY <1>6, NextLoginId DEF PeekNextLogin
  <2> QED
    BY <1>6, <2>1 DEF PeekNextLogin
<1>7. CASE PeekCharacterList
  <2>1. PICK checksum \in BOOLEAN :
          listReady' = (listReady \/ ParseCharacterList(head, checksum) = "ok")
    BY <1>7 DEF PeekCharacterList
  <2>2. ParseCharacterList(head, checksum) = "ok" => listSeen
    BY <1>7, ParsedListIsList DEF PeekCharacterList
  <2> QED
    BY <1>7, <2>1, <2>2 DEF PeekCharacterList
<1>8. CASE WaitForCharacterList
  <2>1. attempts' \in 0..MaxAttempts
    BY <1>8, CharactersAssumption DEF WaitForCharacterList
  <2>2. pc' \in {"recv", "list"}
    BY <1>8 DEF WaitForCharacterList
  <2> QED
    BY <1>8, <2>1, <2>2 DEF WaitForCharacterList
<1> QED
  BY <1>4, <1>5, <1>6, <1>7, <1>8 DEF ReceiveHook

LEMMA GuestReceiveStep == IInv /\ (GuestReceivesNothing \/ GuestReceives) => IInv'
<1> SUFFICES ASSUME IInv, GuestReceivesNothing \/ GuestReceives PROVE IInv'
  OBVIOUS
<1>1. CASE GuestReceivesNothing
  <2>1. /\ pc' = "idle"
        /\ UNCHANGED <<head, arrived, received, picked, listSeen, attempts, nextLogin,
                       listReady, worldVars>>
    BY <1>1 DEF GuestReceivesNothing, SocketUnchanged
  <2>2. ViewType' /\ BoundInv' /\ HookInv'
    BY <2>1 DEF IInv, ViewType, BoundInv, HookInv, ListReadyMeansList
  <2> QED
    BY <2>1, <2>2, Elsewhere
<1>2. CASE GuestReceives
  <2>1. /\ pc' = "idle" /\ arrived' = "none" /\ received' = received + 1
        /\ head' \in ServerPackets /\ arrived = "whole"
        /\ picked' = IF IsNextLogin(head) THEN head.id ELSE picked
        /\ UNCHANGED <<attempts, nextLogin, listReady, listSeen, worldVars>>
    BY <1>2 DEF GuestReceives
  <2>2. received' \in 0..MaxPackets
    BY <2>1, CharactersAssumption DEF IInv, ViewType, BoundInv
  <2>3. picked' \in Characters \cup {None}
    BY <2>1, NextLoginId DEF IInv, ViewType
  <2>4. ViewType'
    BY <2>1, <2>2, <2>3 DEF IInv, ViewType
  <2>5. BoundInv' /\ HookInv'
    BY <2>1 DEF IInv, BoundInv, HookInv, ListReadyMeansList
  <2> QED
    BY <2>1, <2>4, <2>5, Elsewhere
<1> QED
  BY <1>1, <1>2

-----------------------------------------------------------------------------
(* The world login.                                                        *)

(* The hook's other neighbours, for a step that builds or sends a login.   *)
LEMMA ElsewhereWorld ==
  ASSUME IInv, UNCHANGED viewVars, WorldType', LoginInv'
  PROVE  IInv'
BY DEF IInv, ViewType, BoundInv, HookInv, ListReadyMeansList, viewVars

(* A full id and a truncated one are among the values of an id.            *)
LEMMA IdsOfCharacters ==
  ASSUME NEW c \in Characters
  PROVE  c \in Ids /\ Truncated(c) \in Ids
<1>1. c = [high |-> c.high, low |-> c.low]
  BY CharactersAssumption
<1> QED
  BY <1>1 DEF Ids, Truncated

LEMMA BuildLoginStep == IInv /\ BuildLogin => IInv'
<1> SUFFICES ASSUME IInv, BuildLogin PROVE IInv'
  OBVIOUS
<1> DEFINE id == Truncated(picked)
           packet == [id |-> id, check |-> id, digest |-> <<id, id>>, for |-> picked]
<1>1. picked \in Characters
  BY DEF IInv, ViewType, BuildLogin
<1>2. id \in Ids
  BY <1>1, IdsOfCharacters
<1>3. packet \in Logins
  BY <1>1, <1>2 DEF Logins
<1>4. LoginFits(packet)
  BY DEF LoginFits
<1>5. /\ login' = packet /\ sendPc = "idle"
      /\ UNCHANGED <<viewVars, sendPc, full, original, sent>>
  BY DEF BuildLogin
<1> HIDE DEF packet
<1>6. WorldType' /\ LoginInv'
  BY <1>3, <1>4, <1>5 DEF IInv, WorldType, LoginInv, LoginFits, Restoring
<1> QED
  BY <1>5, <1>6, ElsewhereWorld

(* The id that is about to be restored is the full one of the packet's     *)
(* own character.                                                          *)
LEMMA OwnCharacter ==
  ASSUME NEW packet \in Logins, LoginFits(packet), packet # None,
         NEW stored \in Characters, IsTruncationOf(packet.id, stored)
  PROVE  stored = packet.for /\ packet.id = Truncated(stored)
<1>1. packet.for \in Characters
  BY DEF Logins
<1>2. packet.id.low = packet.for.low
  BY DEF LoginFits, Truncated
<1>3. stored = packet.for
  BY <1>1, <1>2, CharactersAssumption DEF IsTruncationOf
<1> QED
  BY <1>3 DEF LoginFits, IsTruncationOf

LEMMA EnterSendStep == IInv /\ EnterSend => IInv'
<1> SUFFICES ASSUME IInv, EnterSend PROVE IInv'
  OBVIOUS
<1>1. /\ sendPc = "idle" /\ login # None
      /\ full' = nextLogin
      /\ original' = [id |-> login.id, check |-> login.check]
      /\ sendPc' = IF nextLogin # None /\ IsTruncationOf(login.id, nextLogin)
                   THEN "low" ELSE "send"
      /\ UNCHANGED viewVars /\ login' = login /\ sent' = sent
  BY DEF EnterSend
<1>2. /\ login \in Logins /\ nextLogin \in Characters \cup {None}
      /\ LoginFits(login) /\ LoginFits(sent)
  BY <1>1 DEF IInv, WorldType, ViewType, LoginInv, Restoring
<1>3. original' \in [id : Ids, check : Ids]
  BY <1>1, <1>2 DEF Logins
<1>4. WorldType'
  BY <1>1, <1>2, <1>3 DEF IInv, WorldType, SendSteps
<1>5. CASE nextLogin # None /\ IsTruncationOf(login.id, nextLogin)
  <2>1. nextLogin = login.for /\ login.id = Truncated(nextLogin)
    BY <1>1, <1>2, <1>5, OwnCharacter
  <2>2. original'.id = login.id /\ original'.check = login.check
    BY <1>1
  <2>3. login.check = login.id /\ login.digest = <<login.id, login.check>>
    BY <1>1, <1>2 DEF LoginFits
  <2>4. sendPc' = "low"
    BY <1>1, <1>5
  <2>5. HalfWritten'
    BY <1>1, <1>2, <2>1, <2>2, <2>3, <2>4 DEF HalfWritten
  <2>6. LoginInv'
    BY <1>1, <1>2, <2>4, <2>5 DEF LoginInv, LoginFits, Restoring, SendSteps
  <2> QED
    BY <1>1, <1>4, <2>6, ElsewhereWorld
<1>6. CASE ~(nextLogin # None /\ IsTruncationOf(login.id, nextLogin))
  <2>1. LoginInv'
    BY <1>1, <1>2, <1>6 DEF LoginInv, LoginFits, Restoring
  <2> QED
    BY <1>1, <1>4, <2>1, ElsewhereWorld
<1> QED
  BY <1>5, <1>6

(* What a store must leave for the hook to go on.                          *)
LEMMA WriteStep ==
  ASSUME IInv, NEW from \in SendSteps, NEW to \in SendSteps, NEW packet \in Logins,
         Write(from, to, packet),
         to # "send" => HalfWritten',
         to = "send" => LoginFits(packet),
         to # "idle"
  PROVE  IInv'
<1>1. /\ sendPc = from /\ sendPc' = to /\ login' = packet
      /\ UNCHANGED viewVars /\ full' = full /\ original' = original /\ sent' = sent
  BY DEF Write
<1>2. WorldType'
  BY <1>1 DEF IInv, WorldType
<1>3. LoginFits(sent)' /\ (Restoring => HalfWritten)'
  BY <1>1 DEF IInv, LoginInv, LoginFits, Restoring
<1>4. (~Restoring => LoginFits(login))'
  BY <1>1 DEF LoginFits, Restoring
<1>5. LoginInv'
  BY <1>3, <1>4 DEF LoginInv
<1> QED
  BY <1>1, <1>2, <1>5, ElsewhereWorld

(* One store after another, and each half-written packet is as it should   *)
(* be; the last store of either way leaves a whole one.                    *)
LEMMA RestoreStep == IInv /\ RestoreWorldLoginCharacterId => IInv'
<1> SUFFICES ASSUME IInv, RestoreWorldLoginCharacterId PROVE IInv'
  OBVIOUS
<1>1. Restoring
  BY DEF RestoreWorldLoginCharacterId, Restoring, SendSteps, Write, WriteLow, WriteHigh, WriteCheck,
     WriteDigest, DigestFails, PutBackLow, PutBackHigh, PutBackCheck
<1>2. HalfWritten
  BY <1>1 DEF IInv, LoginInv
<1>3. /\ login \in Logins
      /\ full \in Characters /\ full = login.for
      /\ original.id = Truncated(full) /\ original.check = original.id
      /\ login.digest = <<original.id, original.check>>
  BY <1>2 DEF HalfWritten, Logins
<1>4. full \in Ids /\ original.id \in Ids /\ original.check \in Ids
  BY <1>3, IdsOfCharacters
<1>5. ASSUME NEW high, NEW id, id = [high |-> high, low |-> full.low]
      PROVE  /\ [id EXCEPT !.low = full.low] = id
             /\ [id EXCEPT !.low = original.id.low] = id
             /\ [id EXCEPT !.high = full.high] = full
             /\ [id EXCEPT !.high = original.id.high] = original.id
  <2>1. full = [high |-> full.high, low |-> full.low]
    BY <1>3, CharactersAssumption
  <2>2. original.id = [high |-> 0, low |-> full.low]
    BY <1>3 DEF Truncated
  <2> QED
    BY <1>5, <2>1, <2>2
<1>6. /\ full = [high |-> full.high, low |-> full.low]
      /\ original.id = [high |-> 0, low |-> full.low]
  BY <1>3, CharactersAssumption DEF Truncated
<1>7. CASE WriteLow
  <2> DEFINE packet == [login EXCEPT !.id = [login.id EXCEPT !.low = full.low]]
  <2>1. Write("low", "high", packet)
    BY <1>7 DEF WriteLow
  <2>2. sendPc = "low" /\ login.id = original.id /\ login.check = original.id
    BY <1>2, <2>1 DEF Write, HalfWritten
  <2>3. [login.id EXCEPT !.low = full.low] = original.id
    BY <1>5, <1>6, <2>2
  <2>4. /\ packet \in Logins /\ packet.id = original.id /\ packet.check = original.id
        /\ packet.digest = login.digest /\ packet.for = login.for
    BY <1>3, <1>4, <2>2, <2>3 DEF Logins
  <2> HIDE DEF packet
  <2>5. HalfWritten'
    BY <1>2, <1>3, <2>1, <2>4 DEF Write, HalfWritten
  <2> QED
    BY <2>1, <2>4, <2>5, WriteStep DEF SendSteps
<1>8. CASE WriteHigh
  <2> DEFINE packet == [login EXCEPT !.id = [login.id EXCEPT !.high = full.high]]
  <2>1. Write("high", "check", packet)
    BY <1>8 DEF WriteHigh
  <2>2. sendPc = "high" /\ login.id = original.id /\ login.check = original.id
    BY <1>2, <2>1 DEF Write, HalfWritten
  <2>3. [login.id EXCEPT !.high = full.high] = full
    BY <1>5, <1>6, <2>2
  <2>4. /\ packet \in Logins /\ packet.id = full /\ packet.check = original.id
        /\ packet.digest = login.digest /\ packet.for = login.for
    BY <1>3, <1>4, <2>2, <2>3 DEF Logins
  <2> HIDE DEF packet
  <2>5. HalfWritten'
    BY <1>2, <1>3, <2>1, <2>4 DEF Write, HalfWritten
  <2> QED
    BY <2>1, <2>4, <2>5, WriteStep DEF SendSteps
<1>9. CASE WriteCheck
  <2> DEFINE packet == [login EXCEPT !.check = login.id]
  <2>1. Write("check", "digest", packet)
    BY <1>9 DEF WriteCheck
  <2>2. sendPc = "check" /\ login.id = full
    BY <1>2, <2>1 DEF Write, HalfWritten
  <2>3. /\ packet \in Logins /\ packet.id = full /\ packet.check = full
        /\ packet.digest = login.digest /\ packet.for = login.for
    BY <1>3, <1>4, <2>2 DEF Logins
  <2> HIDE DEF packet
  <2>4. HalfWritten'
    BY <1>2, <1>3, <2>1, <2>3 DEF Write, HalfWritten
  <2> QED
    BY <2>1, <2>3, <2>4, WriteStep DEF SendSteps
<1>10. CASE WriteDigest
  <2> DEFINE packet == [login EXCEPT !.digest = <<login.id, login.check>>]
  <2>1. Write("digest", "send", packet)
    BY <1>10 DEF WriteDigest
  <2>2. sendPc = "digest" /\ login.id = full /\ login.check = full
    BY <1>2, <2>1 DEF Write, HalfWritten
  <2>3. /\ packet \in Logins /\ packet.id = full /\ packet.check = full
        /\ packet.digest = <<full, full>> /\ packet.for = full
    BY <1>3, <2>2 DEF Logins
  <2> HIDE DEF packet
  <2>4. LoginFits(packet)
    BY <2>3 DEF LoginFits
  <2> QED
    BY <2>1, <2>3, <2>4, WriteStep DEF SendSteps
<1>11. CASE DigestFails
  <2>1. Write("digest", "undo low", login)
    BY <1>11 DEF DigestFails
  <2>2. HalfWritten'
    BY <1>2, <2>1 DEF Write, HalfWritten
  <2> QED
    BY <1>3, <2>1, <2>2, WriteStep DEF SendSteps
<1>12. CASE PutBackLow
  <2> DEFINE packet == [login EXCEPT !.id = [login.id EXCEPT !.low = original.id.low]]
  <2>1. Write("undo low", "undo high", packet)
    BY <1>12 DEF PutBackLow
  <2>2. sendPc = "undo low" /\ login.id = full /\ login.check = full
    BY <1>2, <2>1 DEF Write, HalfWritten
  <2>3. [login.id EXCEPT !.low = original.id.low] = full
    BY <1>5, <1>6, <2>2
  <2>4. packet = [login EXCEPT !.id = full]
    BY <2>3
  <2> HIDE DEF packet
  <2>5. /\ packet \in Logins /\ packet.id = full /\ packet.check = login.check
        /\ packet.digest = login.digest /\ packet.for = login.for
    BY <1>3, <1>4, <2>4 DEF Logins
  <2>6. HalfWritten'
    BY <1>2, <1>3, <2>1, <2>2, <2>5 DEF Write, HalfWritten
  <2> QED
    BY <2>1, <2>5, <2>6, WriteStep DEF SendSteps
<1>13. CASE PutBackHigh
  <2> DEFINE packet == [login EXCEPT !.id = [login.id EXCEPT !.high = original.id.high]]
  <2>1. Write("undo high", "undo check", packet)
    BY <1>13 DEF PutBackHigh
  <2>2. sendPc = "undo high" /\ login.id = full /\ login.check = full
    BY <1>2, <2>1 DEF Write, HalfWritten
  <2>3. [login.id EXCEPT !.high = original.id.high] = original.id
    BY <1>5, <1>6, <2>2
  <2>4. packet = [login EXCEPT !.id = original.id]
    BY <2>3
  <2> HIDE DEF packet
  <2>5. /\ packet \in Logins /\ packet.id = original.id /\ packet.check = login.check
        /\ packet.digest = login.digest /\ packet.for = login.for
    BY <1>3, <1>4, <2>4 DEF Logins
  <2>6. HalfWritten'
    BY <1>2, <1>3, <2>1, <2>2, <2>5 DEF Write, HalfWritten
  <2> QED
    BY <2>1, <2>5, <2>6, WriteStep DEF SendSteps
<1>14. CASE PutBackCheck
  <2> DEFINE packet == [login EXCEPT !.check = original.check]
  <2>1. Write("undo check", "send", packet)
    BY <1>14 DEF PutBackCheck
  <2>2. sendPc = "undo check" /\ login.id = original.id
    BY <1>2, <2>1 DEF Write, HalfWritten
  <2>3. packet = [login EXCEPT !.check = original.id]
    BY <1>3
  <2> HIDE DEF packet
  <2>4. /\ packet \in Logins /\ packet.id = login.id /\ packet.check = original.id
        /\ packet.digest = login.digest /\ packet.for = login.for
    BY <1>3, <1>4, <2>3 DEF Logins
  <2>5. LoginFits(packet)
    BY <1>3, <2>2, <2>4 DEF LoginFits
  <2> QED
    BY <2>1, <2>4, <2>5, WriteStep DEF SendSteps
<1> QED
  BY <1>7, <1>8, <1>9, <1>10, <1>11, <1>12, <1>13, <1>14 DEF RestoreWorldLoginCharacterId

LEMMA SendLoginStep == IInv /\ SendLogin => IInv'
<1> SUFFICES ASSUME IInv, SendLogin PROVE IInv'
  OBVIOUS
<1>1. /\ sendPc = "send" /\ sendPc' = "idle" /\ sent' = login
      /\ full' = None /\ original' = None /\ UNCHANGED viewVars /\ login' = login
  BY DEF SendLogin
<1>2. LoginFits(login)
  BY <1>1 DEF IInv, LoginInv, Restoring
<1>3. WorldType'
  BY <1>1 DEF IInv, WorldType, SendSteps
<1>4. LoginInv'
  BY <1>1, <1>2 DEF LoginInv, LoginFits, Restoring
<1> QED
  BY <1>1, <1>3, <1>4, ElsewhereWorld

-----------------------------------------------------------------------------
(* The theorems.                                                           *)

(* The inductive invariant holds however the threads and packets mix.      *)
THEOREM Invariance == Spec => []IInv
<1>1. IInv /\ UNCHANGED vars => IInv'
  <2> SUFFICES ASSUME IInv, UNCHANGED vars PROVE IInv'
    OBVIOUS
  <2>1. ViewType' /\ BoundInv' /\ HookInv'
    BY DEF IInv, ViewType, BoundInv, HookInv, ListReadyMeansList, vars, viewVars
  <2> QED
    BY <2>1, Elsewhere DEF vars
<1>2. IInv /\ [Next]_vars => IInv'
  BY <1>1, ArriveStep, ReceiveHookStep, GuestReceiveStep, BuildLoginStep,
     EnterSendStep, RestoreStep, SendLoginStep DEF Next
<1> QED
  BY InitIInv, <1>2, PTL DEF Spec

(* Sockets, hooks and packets keep their types.                            *)
THEOREM TypeCorrect == Spec => []TypeOK
<1>1. IInv => TypeOK
  BY TypeParts DEF IInv
<1> QED
  BY <1>1, Invariance, PTL

(* g_lobby_character_list_ready is set by a well-formed list only.         *)
THEOREM ReadyMeansList == Spec => []ListReadyMeansList
<1>1. IInv => ListReadyMeansList
  BY DEF IInv, HookInv
<1> QED
  BY <1>1, Invariance, PTL

(* RestoreWorldLoginCharacterId never turns a login into another           *)
(* character's, though the stored id may be of an earlier choice.          *)
THEOREM CharacterKept == Spec => []LoginKeepsCharacter
<1>1. IInv => LoginKeepsCharacter
  BY DEF IInv, LoginInv, LoginFits, LoginKeepsCharacter
<1> QED
  BY <1>1, Invariance, PTL

(* Its check byte and digest fit what leaves, also when the digest fails   *)
(* after the packet was half rewritten and must be put back byte by byte.  *)
THEOREM LoginWhole == Spec => []LoginStaysWhole
<1>1. IInv => LoginStaysWhole
  BY DEF IInv, LoginInv, LoginFits, LoginStaysWhole
<1> QED
  BY <1>1, Invariance, PTL

=============================================================================
