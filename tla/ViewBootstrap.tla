---------------------------- MODULE ViewBootstrap ----------------------------
(***************************************************************************)
(* The view-login bootstrap.  The bridge arms it with an authenticated     *)
(* view login (RevanaConfigureDirectLobbyViewBootstrap); the first guest   *)
(* thread that is about to receive four bytes from the view server sends   *)
(* it on the guest's own socket and holds the receive back while it peeks  *)
(* for the whole key response (RevanaTraceFourByteSocketReceive); the      *)
(* guest's own view login is swallowed once (consume_send in               *)
(* src/src/runtime/lobby_bridge.cpp).                                      *)
(*                                                                         *)
(* The hook holds no lock: each atomic load, store and exchange, each send *)
(* and each peek is a step.  The view server and the guest are modelled    *)
(* by what the hook relies on.  After the bootstrap part the hook only     *)
(* traces (see README), so it ends there and the guest receives.           *)
(***************************************************************************)
EXTENDS Integers, Sequences, FiniteSets

CONSTANTS Threads,      \* guest threads that receive from the view server
          MaxConns,     \* bound: view connections the guest opens
          MaxAttempts   \* peeks before giving up (kResponseWaitAttempts, 500)

ASSUME BootstrapAssumption ==
    MaxConns \in Nat \ {0} /\ MaxAttempts \in Nat \ {0}

Conns == 1..MaxConns

VARIABLES requestSent,  \* g_direct_view_bootstrap_request_sent
          ready,        \* g_direct_view_bootstrap_response_ready
          failed,       \* g_direct_view_bootstrap_failed
          packet,       \* g_direct_view_bootstrap_packet: "login" or "zeros"
          pendingLogin, \* State::bootstrap_view_login_pending
          pc,           \* where each thread is in the hook
          socket,       \* the connection whose socket the thread receives on
          attempt,      \* peeks done by the thread
          conn,         \* connections the guest has opened so far
          open,         \* the connections that are still open
          wrote,        \* per connection, the complete packets the server got
          torn,         \* connections on which part of a packet was sent
          guestSent,    \* connections on which the guest sent its view login
          inbox         \* per connection, what the server has sent back

flags == <<requestSent, ready, failed>>
hook == <<pc, socket, attempt>>
net == <<conn, open, wrote, torn, guestSent, inbox>>
vars == <<flags, packet, pendingLogin, hook, net>>

Steps == {"idle", "failed?", "claim", "send", "wipe", "unclaim", "fail",
          "sent?", "peek", "set_ready", "give_up", "receive"}

Goto(t, step) == pc' = [pc EXCEPT ![t] = step]
At(t, step) == pc[t] = step

\* RevanaConfigureDirectLobbyViewBootstrap has armed the bootstrap and
\* RevanaLobbyBridge::Configure has set bootstrap_view_login_pending.
Init ==
    /\ requestSent = FALSE
    /\ ready = FALSE
    /\ failed = FALSE
    /\ packet = "login"
    /\ pendingLogin = TRUE
    /\ pc = [t \in Threads |-> "idle"]
    /\ socket = [t \in Threads |-> 1]
    /\ attempt = [t \in Threads |-> 0]
    /\ conn = 0
    /\ open = {}
    /\ wrote = [c \in Conns |-> <<>>]
    /\ torn = {}
    /\ guestSent = {}
    /\ inbox = [c \in Conns |-> "empty"]

-----------------------------------------------------------------------------
(* The guest and the view server.                                           *)
Connect ==
    /\ conn < MaxConns
    /\ open = {}
    /\ conn' = conn + 1
    /\ open' = {conn + 1}
    /\ UNCHANGED <<flags, packet, pendingLogin, hook, wrote, torn, guestSent, inbox>>

\* Either end closes the connection.
Close ==
    /\ open # {}
    /\ open' = {}
    /\ UNCHANGED <<flags, packet, pendingLogin, hook, conn, wrote, torn, guestSent, inbox>>

\* A server that got one view login and nothing else answers it; the bytes
\* of the key response arrive in more than one piece.
ServerAnswers(c) ==
    /\ c \in open \ torn
    /\ wrote[c] \in {<<"login">>, <<"guest login">>}
    /\ \/ inbox[c] = "empty" /\ inbox' = [inbox EXCEPT ![c] = "partial"]
       \/ inbox[c] = "partial" /\ inbox' = [inbox EXCEPT ![c] = "response"]
    /\ UNCHANGED <<flags, packet, pendingLogin, hook, conn, open, wrote, torn, guestSent>>

\* Fault: every view login of the guest goes through.
GuestLoginPasses(c) ==
    /\ c \in open \ guestSent
    /\ guestSent' = guestSent \cup {c}
    /\ pendingLogin' = FALSE
    /\ wrote' = [wrote EXCEPT ![c] = Append(@, "guest login")]
    /\ UNCHANGED <<flags, packet, hook, conn, open, torn, inbox>>

(* consume_send: the first view login the guest sends is swallowed, a later *)
(* one, authenticated by before_send, goes to the server.                   *)
GuestSendsLogin(c) ==
    /\ c \in open \ guestSent
    /\ guestSent' = guestSent \cup {c}
    /\ pendingLogin' = FALSE
    /\ wrote' = IF pendingLogin THEN wrote
                ELSE [wrote EXCEPT ![c] = Append(@, "guest login")]
    /\ UNCHANGED <<flags, packet, hook, conn, open, torn, inbox>>

-----------------------------------------------------------------------------
(* RevanaTraceFourByteSocketReceive on a view socket.  The gate is three     *)
(* loads; "enabled" is up for good once the guest runs.                      *)
Enter(t) ==
    /\ At(t, "idle")
    /\ \E c \in open : socket' = [socket EXCEPT ![t] = c]
    /\ Goto(t, IF ready THEN "receive" ELSE "failed?")
    /\ UNCHANGED <<flags, packet, pendingLogin, attempt, net>>

CheckFailed(t) ==
    /\ At(t, "failed?")
    /\ Goto(t, IF failed THEN "receive" ELSE "claim")
    /\ UNCHANGED <<flags, packet, pendingLogin, socket, attempt, net>>

\* request_sent.exchange(true)
Claim(t) ==
    /\ At(t, "claim")
    /\ requestSent' = TRUE
    /\ Goto(t, IF requestSent THEN "sent?" ELSE "send")
    /\ UNCHANGED <<ready, failed, packet, pendingLogin, socket, attempt, net>>

Send(t) ==
    /\ At(t, "send")
    /\ socket[t] \in open
    /\ wrote' = [wrote EXCEPT ![socket[t]] = Append(@, packet)]
    /\ Goto(t, "wipe")
    /\ UNCHANGED <<flags, packet, pendingLogin, socket, attempt, conn, open,
                   torn, guestSent, inbox>>

\* Fewer than 152 bytes went out, or none.
SendFails(t) ==
    /\ At(t, "send")
    /\ \/ UNCHANGED torn
       \/ socket[t] \in open /\ torn' = torn \cup {socket[t]}
    /\ Goto(t, "unclaim")
    /\ UNCHANGED <<flags, packet, pendingLogin, socket, attempt, conn, open,
                   wrote, guestSent, inbox>>

Wipe(t) ==
    /\ At(t, "wipe")
    /\ packet' = "zeros"
    /\ Goto(t, "sent?")
    /\ UNCHANGED <<flags, pendingLogin, socket, attempt, net>>

\* Fault: the packet is wiped when the send failed, too.
UnclaimWipes(t) ==
    /\ At(t, "unclaim")
    /\ requestSent' = FALSE
    /\ packet' = "zeros"
    /\ Goto(t, "fail")
    /\ UNCHANGED <<ready, failed, pendingLogin, socket, attempt, net>>

Unclaim(t) ==
    /\ At(t, "unclaim")
    /\ requestSent' = FALSE
    /\ Goto(t, "fail")
    /\ UNCHANGED <<ready, failed, packet, pendingLogin, socket, attempt, net>>

Fail(t) ==
    /\ At(t, "fail")
    /\ failed' = TRUE
    /\ Goto(t, "sent?")
    /\ UNCHANGED <<requestSent, ready, packet, pendingLogin, socket, attempt, net>>

CheckSent(t) ==
    /\ At(t, "sent?")
    /\ Goto(t, IF requestSent THEN "peek" ELSE "receive")
    /\ attempt' = [attempt EXCEPT ![t] = 0]
    /\ UNCHANGED <<flags, packet, pendingLogin, socket, net>>

\* Fault: any bytes are taken for the response.
PeekAnything(t) ==
    /\ At(t, "peek")
    /\ inbox[socket[t]] # "empty"
    /\ Goto(t, "set_ready")
    /\ UNCHANGED <<flags, packet, pendingLogin, socket, attempt, net>>

\* All 40 bytes are there and are a valid key response.
PeekResponse(t) ==
    /\ At(t, "peek")
    /\ inbox[socket[t]] = "response"
    /\ Goto(t, "set_ready")
    /\ UNCHANGED <<flags, packet, pendingLogin, socket, attempt, net>>

\* The peer has closed and nothing is left to read.
PeekClosed(t) ==
    /\ At(t, "peek")
    /\ socket[t] \notin open
    /\ inbox[socket[t]] \in {"empty", "taken"}
    /\ Goto(t, "give_up")
    /\ UNCHANGED <<flags, packet, pendingLogin, socket, attempt, net>>

\* Fault: the attempts are not counted.
PeekUncounted(t) ==
    /\ At(t, "peek")
    /\ inbox[socket[t]] # "response"
    /\ UNCHANGED vars

\* Too few bytes, other bytes or an error: ten milliseconds later, again.
PeekNothing(t) ==
    /\ At(t, "peek")
    /\ inbox[socket[t]] # "response"
    /\ attempt' = [attempt EXCEPT ![t] = @ + 1]
    /\ IF attempt[t] + 1 = MaxAttempts THEN Goto(t, "give_up") ELSE UNCHANGED pc
    /\ UNCHANGED <<flags, packet, pendingLogin, socket, net>>

SetReady(t) ==
    /\ At(t, "set_ready")
    /\ ready' = TRUE
    /\ Goto(t, "receive")
    /\ UNCHANGED <<requestSent, failed, packet, pendingLogin, socket, attempt, net>>

\* Fault: a thread that has run out of attempts just returns.
GiveUpSilently(t) ==
    /\ At(t, "give_up")
    /\ Goto(t, "receive")
    /\ UNCHANGED <<flags, packet, pendingLogin, socket, attempt, net>>

GiveUp(t) ==
    /\ At(t, "give_up")
    /\ failed' = TRUE
    /\ Goto(t, "receive")
    /\ UNCHANGED <<requestSent, ready, packet, pendingLogin, socket, attempt, net>>

\* The hook has returned: the guest's own receive takes what is there.
Receive(t) ==
    /\ At(t, "receive")
    /\ inbox' = [inbox EXCEPT ![socket[t]] = IF @ = "response" THEN "taken" ELSE @]
    /\ attempt' = [attempt EXCEPT ![t] = 0]
    /\ Goto(t, "idle")
    /\ UNCHANGED <<flags, packet, pendingLogin, socket, conn, open, wrote, torn, guestSent>>

-----------------------------------------------------------------------------
HookStep(t) ==
    \/ CheckFailed(t)
    \/ Claim(t)
    \/ Send(t)
    \/ SendFails(t)
    \/ Wipe(t)
    \/ Unclaim(t)
    \/ Fail(t)
    \/ CheckSent(t)
    \/ PeekResponse(t)
    \/ PeekClosed(t)
    \/ PeekNothing(t)
    \/ SetReady(t)
    \/ GiveUp(t)
    \/ Receive(t)

Next ==
    \/ Connect
    \/ Close
    \/ \E c \in Conns : ServerAnswers(c) \/ GuestSendsLogin(c)
    \/ \E t \in Threads : Enter(t) \/ HookStep(t)

Spec == Init /\ [][Next]_vars /\ \A t \in Threads : WF_vars(HookStep(t))

-----------------------------------------------------------------------------
(* Types; a thread counts at most as many peeks as it may do.               *)
TypeOK ==
    /\ requestSent \in BOOLEAN
    /\ ready \in BOOLEAN
    /\ failed \in BOOLEAN
    /\ packet \in {"login", "zeros"}
    /\ pendingLogin \in BOOLEAN
    /\ pc \in [Threads -> Steps]
    /\ socket \in [Threads -> Conns]
    /\ attempt \in [Threads -> 0..MaxAttempts]
    /\ conn \in 0..MaxConns
    /\ open \in SUBSET Conns
    /\ wrote \in [Conns -> Seq({"login", "zeros", "guest login"})]
    /\ torn \in SUBSET Conns
    /\ guestSent \in SUBSET Conns
    /\ inbox \in [Conns -> {"empty", "partial", "response", "taken"}]

(* The authenticated packet goes out complete at most once in the whole     *)
(* process, over all threads and connections and after every failed send,   *)
(* and the wiped array never goes out.                                      *)
Sends(p) == {s \in Conns \X (1..(MaxConns + Cardinality(Threads))) :
                s[2] \in DOMAIN wrote[s[1]] /\ wrote[s[1]][s[2]] = p}

BootstrapSentOnce == Cardinality(Sends("login")) <= 1 /\ Sends("zeros") = {}

(* On the connection the bootstrap was armed for the server sees one view   *)
(* login: the host's or the guest's, never both.                            *)
FirstConnectionLogsInOnce == Len(wrote[1]) <= 1

(* "Ready" is announced only after some connection held the whole key       *)
(* response, even when another thread has consumed it since.                *)
ReadyMeansAnswered == ready => \E c \in Conns : inbox[c] \in {"response", "taken"}

(* A receive is released before the outcome of the bootstrap is known only  *)
(* while another thread stands between taking its claim back and reporting  *)
(* the failure.                                                             *)
ReleasedAfterOutcome ==
    \A t \in Threads : At(t, "receive") =>
        ready \/ failed \/ \E u \in Threads : At(u, "fail")

(* A silent server cannot keep a guest thread in the hook.                  *)
HookReturns == \A t \in Threads : At(t, "failed?") ~> At(t, "idle")

(* What the comment on IsCompleteKeyResponse says: the guest's view receive *)
(* is not released until the complete key response is available.            *)
ReleasedOnlyWhenReady == \A t \in Threads : At(t, "receive") => ready

(* What docs/architecture.md says: the view login of the guest that is      *)
(* consumed is a duplicate, that is, the connection has got another one or  *)
(* the bootstrap is still to come.                                          *)
ConsumesOnlyDuplicates ==
    \A c \in guestSent \cap open : wrote[c] = <<>> => ~ready /\ ~failed
=============================================================================
