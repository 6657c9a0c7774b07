---------------------------- MODULE RecordLogin ----------------------------
(***************************************************************************)
(* What the login of login/auth_client.cpp promises to its caller, with no *)
(* ciphertext, no buffers and no addresses: the client takes the server's  *)
(* records whole and one at a time, in the order they were sent, and asks  *)
(* of each only whether the step it is at has a place for it.  A login     *)
(* that meets no fault is a function of what the server sends; a fault of  *)
(* the system or the network ends it with an error of that step.           *)
(*                                                                         *)
(* AuthClient is the detailed specification that implements this one.      *)
(***************************************************************************)
EXTENDS LoginServer

VARIABLES server,  \* the server of this login
          step,    \* where the login is
          opened,  \* records taken
          text,    \* the text of the answer so far
          sent,    \* the credentials have been sent
          fault,   \* a call of the system or the network failed
          result   \* what Authenticate returned

loginVars == <<server, step, opened, text, sent, fault, result>>

-----------------------------------------------------------------------------
LoginInit ==
    /\ server \in Servers
    /\ step = "connecting"
    /\ opened = 0
    /\ text = <<>>
    /\ sent = FALSE
    /\ fault = FALSE
    /\ result = "none"

End(r) == step' = "done" /\ result' = r

(* The next record has come, and is one of these.                          *)
Comes(kinds) == opened < Len(server.stream) /\ server.stream[opened + 1] \in kinds

Goto(s) == step' = s /\ UNCHANGED result

OpenRecord(from, kinds, to) ==
    /\ step = from
    /\ Comes(kinds)
    /\ opened' = opened + 1
    /\ Goto(to)
    /\ UNCHANGED <<server, text, sent, fault>>

-----------------------------------------------------------------------------
Connected ==
    /\ step = "connecting"
    /\ Goto("handshake")
    /\ UNCHANGED <<server, opened, text, sent, fault>>

\* No address of the host accepts the connection.
Unreachable ==
    /\ step = "connecting"
    /\ End("connection_failed")
    /\ UNCHANGED <<server, opened, text, sent, fault>>

OpenHello == OpenRecord("handshake", {"hello"}, "handshake")
OpenFinish == OpenRecord("handshake", {"finish"}, "pin")
OpenTicket == OpenRecord("response", {"ticket"}, "response")

CheckPin ==
    /\ step = "pin"
    /\ IF server.pin = "other" THEN End("tls_failed") ELSE Goto("send")
    /\ UNCHANGED <<server, opened, text, sent, fault>>

SendRequest ==
    /\ step = "send"
    /\ sent' = TRUE
    /\ Goto("response")
    /\ UNCHANGED <<server, opened, text, fault>>

Longer == IF server.stream[opened + 1] = "data" THEN Append(text, opened + 1) ELSE text

OpenData ==
    /\ step = "response"
    /\ Comes({"data", "empty"})
    /\ opened' = opened + 1
    /\ text' = Longer
    /\ IF TooLarge(Longer) THEN End("response_too_large")
       ELSE IF IsCompleteJson(server, Longer) THEN Goto("decode")
       ELSE Goto("response")
    /\ UNCHANGED <<server, sent, fault>>

Decode ==
    /\ step = "decode"
    /\ End(server.answer)
    /\ UNCHANGED <<server, opened, text, sent, fault>>

-----------------------------------------------------------------------------
\* A record that has no place at this step.
Refuse ==
    /\ \/ step = "handshake" /\ Comes(Records \ {"hello", "finish"})
       \/ step = "response" /\ Comes(Records \ {"data", "empty", "ticket"})
    /\ End("tls_failed")
    /\ UNCHANGED <<server, opened, text, sent, fault>>

\* The caller is told whether the answer had begun.
Truncated == IF text = <<>> THEN "io_failed" ELSE "malformed_response"

\* The server has said all it says, and the text is not whole.
StreamEnds ==
    /\ opened = Len(server.stream)
    /\ \/ step = "handshake" /\ End("tls_failed")
       \/ step = "response" /\ End(Truncated)
    /\ UNCHANGED <<server, opened, text, sent, fault>>

\* The errors a fault may have at a step.
FaultsAt(s) ==
    CASE s = "connecting" -> {"invalid_input", "name_resolution_failed",
                              "connection_failed", "tls_failed"}
      [] s \in {"handshake", "pin"} -> {"tls_failed"}
      [] s = "send" -> {"io_failed"}
      [] s = "response" -> {"tls_failed", "io_failed", Truncated}
      [] OTHER -> {}

Fault ==
    /\ \E e \in FaultsAt(step) : End(e)
    /\ fault' = TRUE
    /\ UNCHANGED <<server, opened, text, sent>>

-----------------------------------------------------------------------------
LoginNext ==
    \/ Connected \/ Unreachable
    \/ OpenHello \/ OpenFinish \/ CheckPin
    \/ SendRequest
    \/ OpenTicket \/ OpenData \/ Decode
    \/ Refuse \/ StreamEnds \/ Fault

LoginSpec == LoginInit /\ [][LoginNext]_loginVars
=============================================================================
