---------------------------- MODULE LobbyPackets ----------------------------
(***************************************************************************)
(* The lobby packet functions (login/lobby_packets.cpp): what the parsers  *)
(* accept of a server's bytes, what PrepareLobbySend does to a guest's     *)
(* packet and what MakeViewLogin builds.                                   *)
(*                                                                         *)
(* A received packet is [length, size, terminator, command, count,         *)
(* identifier]: the bytes there are, the words of the header, and whether  *)
(* the identifier is the MD5 of the first size bytes.  A sent packet is    *)
(* [length, marker, command, hash, version]; MakeViewLogin fills the rest  *)
(* of it with zeros, PrepareLobbySend leaves it as the guest wrote it.     *)
(***************************************************************************)
EXTENDS Naturals

DataRequestSize == 28          \* kDataRequestSize, kLobbyHeaderSize
ViewLoginSize == 152           \* kViewLoginSize
KeyResponseSize == 40          \* kKeyResponseSize
CharacterListHeaderSize == 32  \* kCharacterListHeaderSize
CharacterEntrySize == 140      \* kCharacterEntrySize
MaxCharacters == 16

KeyResponseCommand == 5     \* 0x05
NextLoginCommand == 11      \* 0x0B
CharacterListCommand == 32  \* 0x20
ViewLoginCommand == 38      \* 0x26

(* kAuthenticatedLobbyCommands: 07 14 1F 21 22 24 26 28 2B.                *)
AuthenticatedLobbyCommands == {7, 20, 31, 33, 34, 36, 38, 40, 43}

-----------------------------------------------------------------------------
(* Parsing: "ok" or the ParseError, the first one that is met.             *)

Then(outcome, next) == IF outcome = "ok" THEN next ELSE outcome

Unless(error, good) == IF good THEN "ok" ELSE error

ValidateLobbyHeader(bytes, command, minimum) ==
    Then(Unless("Truncated", bytes.length >= minimum),
    Then(Unless("InvalidSize", bytes.size \in minimum..bytes.length),
    Then(Unless("InvalidTerminator", bytes.terminator),
         Unless("UnexpectedCommand", bytes.command = command))))

(* checksum: BCrypt can compute the MD5.                                   *)
ValidateLobbyIdentifier(bytes, checksum) ==
    Then(Unless("ChecksumUnavailable", checksum),
         Unless("InvalidIdentifier", bytes.identifier))

ParseKeyResponse(bytes, checksum) ==
    Then(ValidateLobbyHeader(bytes, KeyResponseCommand, KeyResponseSize),
    Then(Unless("InvalidSize", bytes.size = KeyResponseSize),
         ValidateLobbyIdentifier(bytes, checksum)))

IsCompleteKeyResponse(bytes, checksum) ==
    bytes.length = KeyResponseSize /\ ParseKeyResponse(bytes, checksum) = "ok"

CharacterListSize(count) == CharacterListHeaderSize + CharacterEntrySize * count

(* Altered: a list is taken without a look at its identifier.              *)
ParseCharacterListUnsigned(bytes, checksum) ==
    Then(ValidateLobbyHeader(bytes, CharacterListCommand, CharacterListHeaderSize),
    Then(Unless("InvalidCharacterCount", bytes.count <= MaxCharacters),
         Unless("InvalidSize", bytes.size = CharacterListSize(bytes.count))))

ParseCharacterList(bytes, checksum) ==
    Then(ValidateLobbyHeader(bytes, CharacterListCommand, CharacterListHeaderSize),
    Then(Unless("InvalidCharacterCount", bytes.count <= MaxCharacters),
    Then(Unless("InvalidSize", bytes.size = CharacterListSize(bytes.count)),
         ValidateLobbyIdentifier(bytes, checksum))))

-----------------------------------------------------------------------------
(* Sending: the guest's packets get the session's hash, and its own view   *)
(* login also the client version.                                          *)

MakeViewLogin(session, version) ==
    [length |-> ViewLoginSize, marker |-> TRUE, command |-> ViewLoginCommand,
     hash |-> session, version |-> version]

IsLobbyPacket(source, port, dataPort, viewPort) ==
    /\ port \in {dataPort, viewPort}
    /\ source.length >= DataRequestSize
    /\ source.marker
    /\ source.command \in AuthenticatedLobbyCommands

(* before_send with PrepareLobbySend: what leaves in the place of source.  *)
PrepareLobbySend(source, port, dataPort, viewPort, session, version) ==
    IF ~IsLobbyPacket(source, port, dataPort, viewPort) THEN source
    ELSE IF source.command # ViewLoginCommand THEN [source EXCEPT !.hash = session]
    ELSE IF port = viewPort /\ source.length >= ViewLoginSize
    THEN [source EXCEPT !.hash = session, !.version = version]
    ELSE source

=============================================================================
