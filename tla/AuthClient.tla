----------------------------- MODULE AuthClient -----------------------------
(***************************************************************************)
(* The login over TLS (login/auth_client.cpp): Authenticate connects,      *)
(* handshakes, checks the certificate pin, sends the credentials and reads *)
(* records until the text is a whole JSON value, which auth_protocol.cpp   *)
(* decodes.                                                                *)
(*                                                                         *)
(* What the server sends is a sequence of records.  recv knows nothing of  *)
(* records: a record is RecordUnits units on the wire, a unit is its       *)
(* position in the stream, and a recv returns between one and ChunkUnits   *)
(* of the next ones.  So ciphertext is left over at every place where the  *)
(* code takes a record, and handed from loop to loop in `encrypted` and    *)
(* pending_encrypted_.  Schannel is modelled by what the code relies on:   *)
(* it opens the records in order, each one once and whole.                 *)
(***************************************************************************)
EXTENDS LoginServer

CONSTANTS RecordUnits,  \* units of one TLS record
          ChunkUnits,   \* kReceiveChunkSize: most units one recv returns
          MaxEncrypted, \* kMaximumEncryptedSize, in units
          Addresses     \* addresses the host name resolves to

(* A record and a chunk fit the limit together: 16661 + 16384 < 1048576.   *)
ASSUME SizesAssumption ==
    /\ {RecordUnits, ChunkUnits, Addresses} \subseteq Nat \ {0}
    /\ MaxEncrypted \in Nat
    /\ RecordUnits + ChunkUnits <= MaxEncrypted + 1

VARIABLES server,    \* the server of this login
          pc,        \* where Authenticate is
          address,   \* the address OpenSocket tries
          taken,     \* units received so far
          encrypted, \* the vector of the loop that runs
          pending,   \* pending_encrypted_
          opened,    \* records the TLS context has taken
          plaintext, \* the data records in the text so far, by number
          sent,      \* the credentials have been sent
          fault,     \* history: a call of the system or the network failed
          result     \* what Authenticate returned

buffers == <<taken, encrypted, pending, opened>>
vars == <<server, pc, address, buffers, plaintext, sent, fault, result>>

Init ==
    /\ server \in Servers
    /\ pc = "start"
    /\ address = 1
    /\ taken = 0
    /\ encrypted = <<>>
    /\ pending = <<>>
    /\ opened = 0
    /\ plaintext = <<>>
    /\ sent = FALSE
    /\ fault = FALSE
    /\ result = "none"

-----------------------------------------------------------------------------
(* The server's stream.                                                    *)

Units == RecordUnits * Len(server.stream)

(* Positions first, ..., last of the stream.                               *)
Positions(first, last) == [i \in 1..(last - first + 1) |-> first + i - 1]

(* The buffer begins with the record the TLS context expects next.         *)
HasRecord == Len(encrypted) >= RecordUnits
Expected == Positions(opened * RecordUnits + 1, (opened + 1) * RecordUnits)
IsExpected == HasRecord /\ SubSeq(encrypted, 1, RecordUnits) = Expected
Kind == server.stream[opened + 1]
IsNext(kind) == IsExpected /\ Kind = kind

-----------------------------------------------------------------------------
(* Ends of Authenticate.                                                   *)

Return(r) == pc' = "done" /\ result' = r

(* What is reported when a call made at a step fails.                      *)
FaultErrors ==
    [start |-> {"invalid_input", "connection_failed"},
     resolve |-> {"name_resolution_failed"},
     name |-> {"invalid_input"},
     handshake |-> {"tls_failed"}, hs |-> {"tls_failed"}, pin |-> {"tls_failed"},
     send |-> {"io_failed"},
     rx |-> {"tls_failed"}, rehs |-> {"tls_failed"}]

Looping == pc \in {"hs", "rx", "rehs"}

(* In the loops the call is the one that takes the record at the head of   *)
(* the buffer; a record out of place is refused without any other failure. *)
CallFails ==
    /\ pc \in DOMAIN FaultErrors
    /\ Looping => HasRecord
    /\ \E e \in FaultErrors[pc] : Return(e)
    /\ fault' = (fault \/ (Looping => IsExpected))
    /\ UNCHANGED <<server, address, buffers, plaintext, sent>>

-----------------------------------------------------------------------------
(* OpenSocket and the beginning of Authenticate.                           *)

Goto(from, to) ==
    /\ pc = from
    /\ pc' = to
    /\ UNCHANGED <<server, address, buffers, plaintext, sent, fault, result>>

Prepare == Goto("start", "resolve")
Resolve == Goto("resolve", "connect")
Connect == Goto("connect", "name")
ConvertName == Goto("name", "handshake")
StartHandshake == Goto("handshake", "hs")

ConnectFails ==
    /\ pc = "connect"
    /\ address' = address + 1
    /\ IF address < Addresses THEN UNCHANGED <<pc, result>> ELSE Return("connection_failed")
    /\ UNCHANGED <<server, buffers, plaintext, sent, fault>>

-----------------------------------------------------------------------------
(* Receive: one recv into the buffer of the loop that runs.                *)

(* Altered: recv is called on every turn of a loop.                        *)
NeedsAlways == Looping

Needs == Looping /\ ~HasRecord

HasRoom == Len(encrypted) <= MaxEncrypted - ChunkUnits

Receive ==
    /\ Needs /\ HasRoom
    /\ \E n \in 1..ChunkUnits :
        /\ taken + n <= Units
        /\ taken' = taken + n
        /\ encrypted' = encrypted \o Positions(taken + 1, taken + n)
    /\ UNCHANGED <<server, pc, address, pending, opened, plaintext, sent, fault, result>>

(* Altered: a recv that fails or times out is tried again.                 *)
ReceiveFailsRetries == Needs /\ UNCHANGED vars

(* The stream has ended, recv fails or times out, or the buffer is full.   *)
ReceiveFails ==
    /\ Needs
    /\ Return(IF pc # "rx" THEN "tls_failed"
              ELSE IF encrypted = <<>> /\ plaintext # <<>> THEN "malformed_response"
              ELSE "io_failed")
    /\ fault' = (fault \/ (HasRoom /\ taken < Units))
    /\ UNCHANGED <<server, address, buffers, plaintext, sent>>

-----------------------------------------------------------------------------
(* ContinueHandshake, from Handshake (hs) and from ReceiveJson (rehs).     *)

(* Altered: PreserveExtra always clears the buffer.                        *)
ExtraLost == <<>>

(* What PreserveExtra leaves when the record has been taken.               *)
Extra == SubSeq(encrypted, RecordUnits + 1, Len(encrypted))

Take == opened' = opened + 1 /\ UNCHANGED <<taken, server, address>>

(* Any other record ends the login: the server's close, or a message that  *)
(* has no place there.                                                     *)
Accepted == [hs |-> {"hello", "finish"}, rehs |-> {"hello", "ticket"},
             rx |-> {"data", "empty", "ticket"}]

RefuseRecord ==
    /\ Looping /\ IsExpected
    /\ Kind \notin Accepted[pc]
    /\ Return("tls_failed")
    /\ UNCHANGED <<server, address, buffers, plaintext, sent, fault>>

HandshakeMessage ==
    /\ pc \in {"hs", "rehs"} /\ IsNext("hello")
    /\ Take
    /\ encrypted' = Extra
    /\ UNCHANGED <<pc, pending, plaintext, sent, fault, result>>

(* Altered: the ciphertext behind the last handshake message is lost.      *)
FinishHandshakeDropsExtra ==
    /\ pc = "hs" /\ IsNext("finish")
    /\ Take
    /\ encrypted' = <<>>
    /\ pc' = "pin"
    /\ UNCHANGED <<pending, plaintext, sent, fault, result>>

FinishHandshake ==
    /\ pc = "hs" /\ IsNext("finish")
    /\ Take
    /\ pending' = Extra
    /\ encrypted' = <<>>
    /\ pc' = "pin"
    /\ UNCHANGED <<plaintext, sent, fault, result>>

(* Altered: the ticket that was taken stays at the head of the buffer.     *)
TakeTicketKeeps ==
    /\ pc = "rehs" /\ IsNext("ticket")
    /\ Take
    /\ encrypted' = encrypted
    /\ pc' = "rx"
    /\ UNCHANGED <<pending, plaintext, sent, fault, result>>

(* The buffer still begins with the ticket when ReceiveJson hands it over; *)
(* it goes on with what pending_encrypted_ has got.                        *)
TakeTicket ==
    /\ pc = "rehs" /\ IsNext("ticket")
    /\ Take
    /\ encrypted' = Extra
    /\ pc' = "rx"
    /\ UNCHANGED <<pending, plaintext, sent, fault, result>>

(* Altered: the verdict on the pin is ignored.                             *)
ValidateCertificatePinIgnored ==
    /\ pc = "pin"
    /\ pc' = "send"
    /\ UNCHANGED <<server, address, buffers, plaintext, sent, fault, result>>

ValidateCertificatePin ==
    /\ pc = "pin"
    /\ IF server.pin = "other" THEN Return("tls_failed")
       ELSE pc' = "send" /\ UNCHANGED result
    /\ UNCHANGED <<server, address, buffers, plaintext, sent, fault>>

Send ==
    /\ pc = "send"
    /\ sent' = TRUE
    /\ pc' = "rx"
    /\ encrypted' = pending
    /\ pending' = <<>>
    /\ UNCHANGED <<server, address, taken, opened, plaintext, fault, result>>

-----------------------------------------------------------------------------
(* ReceiveJson.                                                            *)

DecryptTicket ==
    /\ pc = "rx" /\ IsNext("ticket")
    /\ pc' = "rehs"
    /\ UNCHANGED <<server, address, buffers, plaintext, sent, fault, result>>

(* A record without data adds nothing to the text.                         *)
Text == IF Kind = "data" THEN Append(plaintext, opened + 1) ELSE plaintext

DecryptData ==
    /\ pc = "rx" /\ \E kind \in {"data", "empty"} : IsNext(kind)
    /\ Take
    /\ plaintext' = Text
    /\ encrypted' = Extra
    /\ IF TooLarge(Text) THEN Return("response_too_large")
       ELSE IF IsCompleteJson(server, Text) THEN pc' = "decode" /\ UNCHANGED result
       ELSE UNCHANGED <<pc, result>>
    /\ UNCHANGED <<pending, sent, fault>>

DecodeLoginResponse ==
    /\ pc = "decode"
    /\ Return(server.answer)
    /\ UNCHANGED <<server, address, buffers, plaintext, sent, fault>>

Step ==
    \/ Prepare \/ Resolve \/ Connect \/ ConnectFails \/ ConvertName
    \/ StartHandshake \/ HandshakeMessage \/ FinishHandshake
    \/ ValidateCertificatePin \/ Send
    \/ Receive \/ ReceiveFails
    \/ DecryptData \/ DecryptTicket \/ TakeTicket \/ RefuseRecord
    \/ DecodeLoginResponse

Next == Step \/ CallFails

(* Every call returns: connect, send and recv have timeouts, and the calls *)
(* of Schannel do not wait.                                                *)
Spec == Init /\ [][Next]_vars /\ WF_vars(Next)

-----------------------------------------------------------------------------
(* Properties.                                                             *)

Errors == {"response_too_large"} \cup UNION {FaultErrors[p] : p \in DOMAIN FaultErrors}

(* Every variable has its type, and the text never passes the size limit   *)
(* by more than the record that is refused for it.                         *)
TypeOK ==
    /\ server \in ServerTypes
    /\ pc \in DOMAIN FaultErrors \cup {"connect", "decode", "done"}
    /\ address \in 1..(Addresses + 1)
    /\ taken \in 0..Units
    /\ encrypted \in Seq(1..Units) /\ pending \in Seq(1..Units)
    /\ opened \in 0..Len(server.stream)
    /\ plaintext \in Seq(1..Len(server.stream))
    /\ Len(plaintext) <= MaxResponse + 1
    /\ {sent, fault} \subseteq BOOLEAN
    /\ result \in Answers \cup Errors \cup {"none"}

(* However recv cuts the stream, what was received and not yet taken is in *)
(* the buffers, in order and once: the left-over ciphertext of the last    *)
(* handshake message, of a record and of a ticket reaches the next loop    *)
(* (pending_encrypted_, PreserveExtra).                                    *)
Conserved == pc # "done" =>
    encrypted \o pending = Positions(opened * RecordUnits + 1, taken)

(* recv is called only for a record that is not whole, so the left-over    *)
(* ciphertext never comes near kMaximumEncryptedSize, however many records *)
(* one recv returns, and Receive never refuses a well-formed stream for    *)
(* its size.                                                               *)
BuffersBounded ==
    /\ Len(encrypted) < RecordUnits + ChunkUnits
    /\ Len(pending) < ChunkUnits
    /\ Needs => HasRoom

(* The credentials go out only when the handshake is complete and, where   *)
(* the options have a certificate pin, which replaces Schannel's own       *)
(* validation, the server's certificate has it.                            *)
CredentialsAfterPin == sent =>
    /\ server.pin # "other"
    /\ \E i \in 1..opened : server.stream[i] = "finish"

(* When no call fails, some address connects and the server sends a whole  *)
(* answer within the limits, Authenticate returns what it decodes to:      *)
(* however it is cut and whatever tickets and empty records are in between.*)
AnswerIsFound ==
    pc = "done" /\ ~fault /\ address <= Addresses /\ Answerable(server) => result = server.answer

(* An answer is decoded from the whole text, after the credentials.        *)
AnswerEarned ==
    result \in {"session", "server_rejected"} =>
        sent /\ result = server.answer /\ IsCompleteJson(server, plaintext)

AllData == DataBy(server.stream, Len(server.stream))

(* An outcome is earned: an answer is decoded from the whole text and      *)
(* nothing else, a response is too large only if the server sent more      *)
(* than the limit before the text was whole, and a malformed response is   *)
(* the server's text, never one that the client cut short.                 *)
ResultExplained ==
    /\ AnswerEarned
    /\ result = "response_too_large" =>
        /\ Cardinality(AllData) > MaxResponse
        /\ server.json \notin 1..MaxResponse
    /\ result = "malformed_response" /\ ~fault =>
        IsCompleteJson(server, plaintext) \/ Lists(plaintext, AllData)

(* Seen from outside, Authenticate takes the server's records whole, one   *)
(* at a time and in order, wherever recv cuts them: the buffers, the loops *)
(* and the addresses do not show.                                          *)
LoginStep ==
    CASE pc \in {"start", "resolve", "connect", "name", "handshake"} -> "connecting"
      [] pc = "hs" -> "handshake"
      [] pc \in {"rx", "rehs"} -> "response"
      [] OTHER -> pc

Login == INSTANCE RecordLogin WITH step <- LoginStep, text <- plaintext
ImplementsLogin == Login!LoginSpec

(* Authenticate returns.                                                   *)
Terminates == <>(pc = "done")

=============================================================================
