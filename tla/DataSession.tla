----------------------------- MODULE DataSession -----------------------------
(***************************************************************************)
(* What the login data coordination of runtime/lobby_bridge.cpp and        *)
(* login/lobby_client.cpp promises to the account, with no threads, no     *)
(* polls and no stop tokens: one session after another, each a             *)
(* conversation with the data server in which neither side gets ahead of   *)
(* its turn, with one outcome, after which its connection is not used.     *)
(*                                                                         *)
(* LobbyData is the detailed specification that implements this one.       *)
(***************************************************************************)
EXTENDS Integers, Sequences

CONSTANT MaxCoords  \* bound: sessions begun

Sessions == 1..MaxCoords

VARIABLES busy,   \* a session is open or about to begin
          count,  \* sessions begun so far
          open,   \* the last of them is not over
          said,   \* per session, what the server has sent
          heard,  \* per session, how much of it was received
          got,    \* per session, what the server has received
          result  \* per session, its outcome, or "none"

sessionVars == <<busy, count, open, said, heard, got, result>>

FromClient == {"bind", "request", "key"}
FromServer == {"trigger1", "list", "trigger2", "other"}
Conversation == <<"bind", "trigger1", "request", "list", "trigger2", "key">>

Turn(c) == Conversation[Len(got[c]) + heard[c] + 1]

Talking(c) == open /\ c = count /\ result[c] = "none"

-----------------------------------------------------------------------------
SessionInit ==
    /\ busy = FALSE
    /\ count = 0
    /\ open = FALSE
    /\ said = [c \in Sessions |-> <<>>]
    /\ heard = [c \in Sessions |-> 0]
    /\ got = [c \in Sessions |-> <<>>]
    /\ result = [c \in Sessions |-> "none"]

Reserve ==
    /\ ~busy
    /\ busy' = TRUE
    /\ UNCHANGED <<count, open, said, heard, got, result>>

Begin ==
    /\ busy /\ ~open
    /\ count < MaxCoords
    /\ count' = count + 1
    /\ open' = TRUE
    /\ UNCHANGED <<busy, said, heard, got, result>>

Close ==
    /\ open
    /\ result[count] # "none"
    /\ busy' = FALSE
    /\ open' = FALSE
    /\ UNCHANGED <<count, said, heard, got, result>>

-----------------------------------------------------------------------------
Ends(c, outcome) == result' = [result EXCEPT ![c] = outcome]

\* The server may say anything, at any time.
Speak(c) ==
    /\ Talking(c)
    /\ Len(said[c]) < 3
    /\ \E what \in FromServer : said' = [said EXCEPT ![c] = Append(@, what)]
    /\ UNCHANGED <<busy, count, open, heard, got, result>>

\* The key is the last word, and the success of the session.
Send(c) ==
    /\ Talking(c)
    /\ Turn(c) \in FromClient
    /\ got' = [got EXCEPT ![c] = Append(@, Turn(c))]
    /\ IF Turn(c) = "key" THEN Ends(c, "ok") ELSE UNCHANGED result
    /\ UNCHANGED <<busy, count, open, said, heard>>

Receive(c) ==
    /\ Talking(c)
    /\ Turn(c) \in FromServer
    /\ Len(said[c]) > heard[c]
    /\ heard' = [heard EXCEPT ![c] = @ + 1]
    /\ IF said[c][heard[c] + 1] = Turn(c) THEN UNCHANGED result ELSE Ends(c, "failed")
    /\ UNCHANGED <<busy, count, open, said, got>>

Fail(c) ==
    /\ Talking(c)
    /\ Ends(c, "failed")
    /\ UNCHANGED <<busy, count, open, said, heard, got>>

\* Only the wait for the selection can be given up.
GiveUp(c) ==
    /\ Talking(c)
    /\ Turn(c) = "trigger2"
    /\ \E outcome \in {"timed out", "cancelled"} : Ends(c, outcome)
    /\ UNCHANGED <<busy, count, open, said, heard, got>>

-----------------------------------------------------------------------------
SessionNext ==
    \/ Reserve
    \/ Begin
    \/ \E c \in Sessions : Speak(c) \/ Send(c) \/ Receive(c) \/ Fail(c) \/ GiveUp(c)
    \/ Close

SessionSpec == SessionInit /\ [][SessionNext]_sessionVars
=============================================================================
