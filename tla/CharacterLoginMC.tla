-------------------------- MODULE CharacterLoginMC --------------------------
(* An instance of CharacterLogin: two characters, one with a full id of    *)
(* more than 24 bits; a packet on each side of every boundary.             *)
EXTENDS CharacterLogin

First == [high |-> 1, low |-> 1]
Second == [high |-> 0, low |-> 2]
MCCharacters == {First, Second}

ServerPacket(command, size, count, identifier) ==
    [length |-> size, size |-> size, terminator |-> TRUE, command |-> command,
     count |-> count, identifier |-> identifier, id |-> None]

NextLogin(c) == [ServerPacket(NextLoginCommand, 72, 0, TRUE) EXCEPT !.id = c]

MCServerPackets ==
    {NextLogin(c) : c \in MCCharacters}
    \cup {ServerPacket(CharacterListCommand, 32 + 140 * n, n, i) : n \in {0, 16}, i \in BOOLEAN}
    \cup {ServerPacket(CharacterListCommand, 172, 2, TRUE),
          ServerPacket(CharacterListCommand, 32 + 140 * 16, 17, TRUE),
          ServerPacket(CharacterListCommand, 32 + 140 * 17, 17, TRUE),
          [ServerPacket(CharacterListCommand, 32, 0, TRUE) EXCEPT !.terminator = FALSE],
          ServerPacket(KeyResponseCommand, 40, 0, TRUE)}
=============================================================================
