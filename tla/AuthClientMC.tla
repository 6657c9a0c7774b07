---------------------------- MODULE AuthClientMC ----------------------------
(* Servers of AuthClient: every body of up to four records after a         *)
(* handshake, every text in it, and the shorter ones with every pin and    *)
(* every answer; handshakes that are longer or cut off.                    *)
EXTENDS AuthClient

Bodies(n) == UNION {[1..k -> {"data", "empty", "ticket", "close"}] : k \in 0..n}
Texts(body) == 0..Cardinality({i \in DOMAIN body : body[i] = "data"})

Server(stream, json, answer, pin) ==
    [stream |-> stream, json |-> json, answer |-> answer, pin |-> pin]

Shake == <<"hello", "finish">>

MCServers ==
    UNION {{Server(Shake \o b, j, "session", "match") : j \in Texts(b)} : b \in Bodies(4)}
        \cup {Server(Shake \o b, j, a, p) : b \in Bodies(1), j \in 0..1, a \in Answers,
                                           p \in {"none", "match", "other"}}
        \cup {Server(s, 1, "session", "none") :
                 s \in {<<>>, <<"hello">>, <<"hello", "hello", "finish", "data">>}}
=============================================================================
