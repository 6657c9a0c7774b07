---------------------------- MODULE LoginServer ----------------------------
(***************************************************************************)
(* What the login server may send to Authenticate (login/auth_client.cpp), *)
(* and what the client makes of it: a stream of TLS records, the data ones *)
(* of which carry a text that auth_protocol.cpp recognizes as a whole JSON *)
(* value and decodes.                                                      *)
(*                                                                         *)
(* AuthClient and RecordLogin, the specification it implements, share this *)
(* module.                                                                 *)
(***************************************************************************)
EXTENDS Integers, Sequences, FiniteSets

CONSTANTS MaxResponse,  \* kMaximumResponseSize, in data records
          Servers       \* what servers may send; see ServerTypes

Records == {"hello", "finish", "data", "empty", "ticket", "close"}
Answers == {"session", "server_rejected", "malformed_response"}

(* What a server sends, how many of its data records make up the JSON text *)
(* (0: none do), what the text decodes to, and the certificate pin.        *)
ServerTypes == [stream : Seq(Records), json : Nat, answer : Answers,
                pin : {"none", "match", "other"}]

ASSUME LimitAssumption == MaxResponse \in Nat \ {0}
ASSUME ServersAssumption == Servers \subseteq ServerTypes

-----------------------------------------------------------------------------
(* The text.                                                               *)

(* The data records among the first n of a stream, by number.              *)
DataBy(stream, n) == {i \in 1..n : stream[i] = "data"}

(* A text is the numbers of the data records it was put together from, in  *)
(* the order of the stream and each once.                                  *)
Lists(text, records) ==
    /\ records = {text[i] : i \in 1..Len(text)}
    /\ \A i, j \in 1..Len(text) : i < j => text[i] < text[j]

(* The first data records of the stream, in order, as many as the text of  *)
(* the answer has.                                                         *)
IsCompleteJson(server, text) ==
    /\ server.json > 0
    /\ Len(text) = server.json
    /\ \E n \in 0..Len(server.stream) : Lists(text, DataBy(server.stream, n))

(* Altered: the largest text allowed is refused.                           *)
TooLargeAtLimit(text) == Len(text) >= MaxResponse

TooLarge(text) == Len(text) > MaxResponse

-----------------------------------------------------------------------------
(* A server that answers.                                                  *)

(* Record f ends the handshake, and record last completes a text within    *)
(* the limit; tickets and empty records may come in between.               *)
AnswersAt(server, f, last) ==
    /\ \A i \in 1..(f - 1) : server.stream[i] = "hello"
    /\ server.stream[f] = "finish"
    /\ \A i \in (f + 1)..last : server.stream[i] \in {"data", "empty", "ticket"}
    /\ Cardinality(DataBy(server.stream, last)) = server.json

Answerable(server) ==
    /\ server.pin # "other"
    /\ server.json \in 1..MaxResponse
    /\ \E last \in 1..Len(server.stream) : \E f \in 1..last : AnswersAt(server, f, last)
=============================================================================
