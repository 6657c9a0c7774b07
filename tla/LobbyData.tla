------------------------------ MODULE LobbyData ------------------------------
(***************************************************************************)
(* The login data session.  The hook before_connect (lobby_bridge.cpp)     *)
(* starts a coordinator thread when the guest connects to the view server; *)
(* CoordinateCharacterLoginData (lobby_client.cpp) opens the data          *)
(* connection and waits, across the guest's list request and character     *)
(* selection, to send the map session key; the bridge destructor stops and *)
(* joins the thread.                                                       *)
(*                                                                         *)
(* A coordinator is a number, in the order of launch.  Its data connection *)
(* is what the server has said on it, how much of that the coordinator has *)
(* heard, and what the server has got.  The data server is modelled by     *)
(* what the coordinator expects of it, and by anything else it may say.    *)
(***************************************************************************)
EXTENDS Integers, Sequences, FiniteSets

CONSTANTS Guests,    \* guest threads that connect to the view server
          MaxCoords, \* bound: coordinators launched
          MaxPolls   \* polls until selection_timeout_ms has passed (3000)

ASSUME BoundsAssumption == MaxCoords \in Nat \ {0} /\ MaxPolls \in Nat \ {0}

Coords == 1..MaxCoords
None == 0

VARIABLES started,  \* State::data_coordination_started
          slot,     \* data_thread_: the coordinator it owns, or None
          launched, \* coordinators launched so far
          stop,     \* per coordinator, its stop token
          stage,    \* per coordinator, where it is
          polls,    \* per coordinator, polls of the selection wait
          result,   \* per coordinator, what CoordinateCharacterLoginData returned
          said,     \* per data connection, what the server has sent
          heard,    \* per data connection, how much of it was received
          got,      \* per data connection, what the server has received
          guestPc,  \* where each guest thread is in before_connect
          mine,     \* the coordinator a guest thread has just launched
          host,     \* the host: "running", "joining", "gone", "terminated"
          raced,    \* history: two threads were in the launch at once
          late      \* history, per coordinator: polls that ended after a stop

thread == <<stop, stage, polls, result, late>>
wire == <<said, heard, got>>
launch == <<started, slot, launched, guestPc, mine, raced>>
vars == <<thread, wire, launch, host>>

Ended == {"unborn", "exit", "exited"}  \* has no session, or no longer
Running == {c \in Coords : stage[c] \notin {"unborn", "exited"}}
Live == {c \in Coords : stage[c] \notin Ended}

Init ==
    /\ started = FALSE
    /\ slot = None
    /\ launched = 0
    /\ stop = [c \in Coords |-> FALSE]
    /\ stage = [c \in Coords |-> "unborn"]
    /\ polls = [c \in Coords |-> 0]
    /\ result = [c \in Coords |-> "none"]
    /\ said = [c \in Coords |-> <<>>]
    /\ heard = [c \in Coords |-> 0]
    /\ got = [c \in Coords |-> <<>>]
    /\ guestPc = [g \in Guests |-> "idle"]
    /\ mine = [g \in Guests |-> None]
    /\ host = "running"
    /\ raced = FALSE
    /\ late = [c \in Coords |-> 0]

-----------------------------------------------------------------------------
(* before_connect on the view port.                                         *)
GuestGoto(g, step) == guestPc' = [guestPc EXCEPT ![g] = step]

Launching == {g \in Guests : guestPc[g] # "idle"}
Unlaunched == {g \in Guests : guestPc[g] = "construct"}

\* Fault: the flag is read and not exchanged.
ConnectViewLoads(g) ==
    /\ host = "running"
    /\ guestPc[g] = "idle"
    /\ launched + Cardinality(Unlaunched) < MaxCoords
    /\ ~started
    /\ GuestGoto(g, "construct")
    /\ raced' = (raced \/ Launching # {})
    /\ UNCHANGED <<thread, wire, started, slot, launched, mine, host>>

\* data_coordination_started.exchange(true)
ConnectView(g) ==
    /\ host = "running"
    /\ guestPc[g] = "idle"
    /\ launched + Cardinality(Unlaunched) < MaxCoords
    /\ started' = TRUE
    /\ IF started
         THEN UNCHANGED <<guestPc, raced>>
         ELSE GuestGoto(g, "construct") /\ raced' = (raced \/ Launching # {})
    /\ UNCHANGED <<thread, wire, slot, launched, mine, host>>

\* The thread runs as soon as the jthread is constructed.
Construct(g) ==
    /\ guestPc[g] = "construct"
    /\ launched' = launched + 1
    /\ mine' = [mine EXCEPT ![g] = launched + 1]
    /\ stage' = [stage EXCEPT ![launched + 1] = "input"]
    /\ GuestGoto(g, "assign")
    /\ UNCHANGED <<started, slot, stop, polls, result, late, wire, raced, host>>

(* Move assignment: the thread that data_thread_ owns is told to stop and   *)
(* joined, then the new one moves in.                                       *)
AssignStop(g) ==
    /\ guestPc[g] = "assign"
    /\ stop' = [c \in Coords |-> stop[c] \/ c = slot]
    /\ GuestGoto(g, IF slot = None THEN "move" ELSE "join")
    /\ UNCHANGED <<started, slot, launched, mine, stage, polls, result, late,
                   wire, raced, host>>

AssignJoin(g) ==
    /\ guestPc[g] = "join"
    /\ slot \notin Running
    /\ slot' = None
    /\ GuestGoto(g, "move")
    /\ UNCHANGED <<started, launched, mine, thread, wire, raced, host>>

AssignMove(g) ==
    /\ guestPc[g] = "move"
    /\ slot' = mine[g]
    /\ GuestGoto(g, "idle")
    /\ UNCHANGED <<started, launched, mine, thread, wire, raced, host>>

\* std::terminate, when another thread's assignment got in between.
AssignTerminates(g) ==
    /\ guestPc[g] = "move"
    /\ slot # None
    /\ host' = "terminated"
    /\ UNCHANGED <<launch, thread, wire>>

-----------------------------------------------------------------------------
(* ~RevanaLobbyBridge: the members are destroyed, data_thread_ before       *)
(* state_.  The guest is no longer inside before_connect.                   *)
Shutdown ==
    /\ host = "running"
    /\ Launching = {}
    /\ stop' = [c \in Coords |-> stop[c] \/ c = slot]
    /\ host' = "joining"
    /\ UNCHANGED <<launch, stage, polls, result, late, wire>>

\* Fault: the thread is not waited for.
JoinDetaches ==
    /\ host = "joining"
    /\ host' = "gone"
    /\ UNCHANGED <<launch, thread, wire>>

Join ==
    /\ host = "joining"
    /\ slot \notin Running
    /\ host' = "gone"
    /\ UNCHANGED <<launch, thread, wire>>

-----------------------------------------------------------------------------
(* The data server.                                                         *)
Say(c, what) ==
    /\ stage[c] \notin Ended \cup {"clear"}
    /\ said' = [said EXCEPT ![c] = Append(@, what)]
    /\ UNCHANGED <<launch, thread, heard, got, host>>

ServerBehaves(c) ==
    \/ got[c] = <<"bind">> /\ said[c] = <<>> /\ Say(c, "trigger1")
    \/ got[c] = <<"bind", "request">> /\ said[c] = <<"trigger1">> /\ Say(c, "list")
    \/ said[c] = <<"trigger1", "list">> /\ Say(c, "trigger2")

\* Something else in place of what is due.
ServerMisbehaves(c) ==
    /\ got[c] # <<>>
    /\ Len(said[c]) < 3
    /\ Len(said[c]) = heard[c]
    /\ Say(c, "other")

-----------------------------------------------------------------------------
(* CoordinateCharacterLoginData                                             *)
At(c, step) == stage[c] = step
Goto(c, step) == stage' = [stage EXCEPT ![c] = step]
Return(c, outcome) == /\ result' = [result EXCEPT ![c] = outcome]
                      /\ Goto(c, "clear")

\* Invalid input, no address, no connection, a send or a receive that fails
\* or takes longer than timeout_ms.
Fails(c) ==
    /\ stage[c] \in {"input", "connect", "bind", "trigger", "request", "list",
                    "wait", "reply"}
    /\ Return(c, "failed")
    /\ UNCHANGED <<launch, stop, polls, late, wire, host>>

\* Fault: the flag is cleared once the thread is under way.
InputClearsStarted(c) ==
    /\ At(c, "input")
    /\ Goto(c, "connect")
    /\ started' = FALSE
    /\ UNCHANGED <<slot, launched, guestPc, mine, raced, stop, polls, result,
                   late, wire, host>>

Input(c) ==
    /\ At(c, "input")
    /\ Goto(c, "connect")
    /\ UNCHANGED <<launch, stop, polls, result, late, wire, host>>

OpenDataSocket(c) ==
    /\ At(c, "connect")
    /\ Goto(c, "bind")
    /\ UNCHANGED <<launch, stop, polls, result, late, wire, host>>

Sends(c, what) ==
    /\ got' = [got EXCEPT ![c] = Append(@, what)]
    /\ UNCHANGED <<launch, stop, polls, late, said, heard, host>>

SendBind(c) ==
    /\ At(c, "bind")
    /\ Sends(c, "bind")
    /\ Goto(c, "trigger")
    /\ UNCHANGED result

SendRequest(c) ==
    /\ At(c, "request")
    /\ Sends(c, "request")
    /\ Goto(c, "list")
    /\ UNCHANGED result

SendKey(c) ==
    /\ At(c, "reply")
    /\ Sends(c, "key")
    /\ Return(c, "ok")

\* Fault: whatever comes is taken for the message that is due.
ReceivesUnchecked(c, due, next) ==
    /\ Len(said[c]) > heard[c]
    /\ heard' = [heard EXCEPT ![c] = @ + 1]
    /\ Goto(c, next)
    /\ UNCHANGED <<launch, result, stop, polls, said, got, host>>

\* The next message is complete; it is checked before it is acted on.
Receives(c, due, next) ==
    /\ Len(said[c]) > heard[c]
    /\ heard' = [heard EXCEPT ![c] = @ + 1]
    /\ IF said[c][heard[c] + 1] = due
         THEN Goto(c, next) /\ UNCHANGED result
         ELSE Return(c, "failed")
    /\ UNCHANGED <<launch, stop, polls, said, got, host>>

ReceiveTrigger(c) ==
    /\ At(c, "trigger")
    /\ Receives(c, "trigger1", "request")
    /\ UNCHANGED late

ReceiveList(c) ==
    /\ At(c, "list")
    /\ Receives(c, "list", "wait")
    /\ UNCHANGED late

\* The poll interval is set and the deadline fixed.
StartWait(c) ==
    /\ At(c, "wait")
    /\ Goto(c, "select")
    /\ UNCHANGED <<launch, stop, polls, result, late, wire, host>>

\* Fault: the stop token is not looked at.
SelectHeadNoStop(c) ==
    /\ At(c, "select")
    /\ IF polls[c] = MaxPolls THEN Return(c, "timed out")
       ELSE Goto(c, "select_recv") /\ UNCHANGED result
    /\ UNCHANGED <<launch, stop, polls, late, wire, host>>

(* ReceiveExactUntil: the stop token, the deadline, then a receive of at    *)
(* most 100 milliseconds.                                                   *)
SelectHead(c) ==
    /\ At(c, "select")
    /\ IF stop[c] THEN Return(c, "cancelled")
       ELSE IF polls[c] = MaxPolls THEN Return(c, "timed out")
       ELSE Goto(c, "select_recv") /\ UNCHANGED result
    /\ UNCHANGED <<launch, stop, polls, late, wire, host>>

EndsPoll(c) == late' = [late EXCEPT ![c] = IF stop[c] THEN @ + 1 ELSE @]

SelectReceive(c) ==
    /\ At(c, "select_recv")
    /\ Receives(c, "trigger2", "reply")
    /\ EndsPoll(c)

\* Fault: the wait goes on at the receive, past the checks.
SelectTimeoutRetries(c) ==
    /\ At(c, "select_recv")
    /\ Len(said[c]) = heard[c]
    /\ UNCHANGED <<launch, thread, wire, host>>

SelectTimeout(c) ==
    /\ At(c, "select_recv")
    /\ Len(said[c]) = heard[c]
    /\ polls' = [polls EXCEPT ![c] = @ + 1]
    /\ EndsPoll(c)
    /\ Goto(c, "select")
    /\ UNCHANGED <<launch, stop, result, wire, host>>

\* The server has closed the connection, or the receive failed.
SelectFails(c) ==
    /\ At(c, "select_recv")
    /\ Return(c, "failed")
    /\ EndsPoll(c)
    /\ UNCHANGED <<launch, stop, polls, wire, host>>

\* Fault: a coordination that was cut short leaves the flag up.
ClearStartedUnlessFailed(c) ==
    /\ At(c, "clear")
    /\ started' = (result[c] = "failed")
    /\ Goto(c, "exit")
    /\ UNCHANGED <<slot, launched, guestPc, mine, raced, stop, polls, result,
                   late, wire, host>>

\* The last statement of the thread, after every outcome.
ClearStarted(c) ==
    /\ At(c, "clear")
    /\ started' = FALSE
    /\ Goto(c, "exit")
    /\ UNCHANGED <<slot, launched, guestPc, mine, raced, stop, polls, result,
                   late, wire, host>>

Exit(c) ==
    /\ At(c, "exit")
    /\ Goto(c, "exited")
    /\ UNCHANGED <<launch, stop, polls, result, late, wire, host>>

-----------------------------------------------------------------------------
GuestStep(g) ==
    \/ ConnectView(g)
    \/ Construct(g)
    \/ AssignStop(g)
    \/ AssignJoin(g)
    \/ AssignMove(g)
    \/ AssignTerminates(g)

CoordStep(c) ==
    /\ host # "terminated"
    /\ \/ Input(c)
       \/ OpenDataSocket(c)
       \/ SendBind(c)
       \/ ReceiveTrigger(c)
       \/ SendRequest(c)
       \/ ReceiveList(c)
       \/ StartWait(c)
       \/ SelectHead(c)
       \/ SelectReceive(c)
       \/ SelectTimeout(c)
       \/ SendKey(c)
       \/ Fails(c)
       \/ ClearStarted(c)
       \/ Exit(c)

Next ==
    \/ \E g \in Guests : host # "terminated" /\ GuestStep(g)
    \/ Shutdown
    \/ Join
    \/ \E c \in Coords : CoordStep(c) \/ (host # "terminated" /\ SelectFails(c))
    \/ \E c \in Coords : ServerBehaves(c) \/ ServerMisbehaves(c)

(* Every call of a coordinator returns: sends and receives have a time      *)
(* limit (SO_SNDTIMEO, SO_RCVTIMEO), so a step of its own, Fails or         *)
(* SelectTimeout if nothing else, is always taken in the end.  The server   *)
(* owes nothing, not even to close the connection (SelectFails).            *)
Fairness == WF_vars(Join) /\ \A c \in Coords : WF_vars(CoordStep(c))

Spec == Init /\ [][Next]_vars /\ Fairness

-----------------------------------------------------------------------------
(* Types and the bounds of the selection wait.                              *)
TypeOK ==
    /\ started \in BOOLEAN
    /\ slot \in Coords \cup {None}
    /\ launched \in 0..MaxCoords
    /\ stop \in [Coords -> BOOLEAN]
    /\ stage \in [Coords -> {"unborn", "input", "connect", "bind", "trigger",
                             "request", "list", "wait", "select",
                             "select_recv", "reply", "clear", "exit", "exited"}]
    /\ polls \in [Coords -> 0..MaxPolls]
    /\ result \in [Coords -> {"none", "ok", "failed", "cancelled", "timed out"}]
    /\ said \in [Coords -> Seq({"trigger1", "list", "trigger2", "other"})]
    /\ heard \in [Coords -> 0..3]
    /\ got \in [Coords -> Seq({"bind", "request", "key"})]
    /\ guestPc \in [Guests -> {"idle", "construct", "assign", "join", "move"}]
    /\ mine \in [Guests -> Coords \cup {None}]
    /\ host \in {"running", "joining", "gone", "terminated"}
    /\ raced \in BOOLEAN
    /\ late \in [Coords -> 0..MaxPolls]

(* However many guest threads connect and reconnect, one login data session *)
(* at a time is open for the account.                                       *)
SingleSession == Cardinality(Live) <= 1

(* The flag that keeps a second session out does not outlive its own: a     *)
(* guest that connects after a failure gets a new coordinator.              *)
FlagNeverSticks == started /\ host # "terminated" => Live # {} \/ Unlaunched # {}

(* The map session key is sent only on a connection where the guest's list  *)
(* request and its selection have been announced, in that order, and the    *)
(* character list was received in between.                                  *)
KeyOnlyAfterSelection ==
    \A c \in Coords : got[c] = <<"bind", "request", "key">> =>
        said[c] = <<"trigger1", "list", "trigger2">> /\ heard[c] = 3

(* A reconnection joins a coordinator that is finished, it does not cut a   *)
(* selection short: unless two threads launch at once, only the shutdown of *)
(* the host cancels one.                                                    *)
CancelledOnlyByShutdown ==
    ~raced => \A c \in Coords : result[c] = "cancelled" => host # "running"

(* Once the bridge is destroyed no thread is left that holds the session    *)
(* and its key, and launching them never ends the process, unless two       *)
(* guest threads launch at once.                                            *)
NoOrphan ==
    ~raced => /\ host = "gone" => \A c \in Coords : stage[c] \in {"unborn", "exited"}
              /\ host # "terminated"

(* A stop request is seen when the poll in progress ends: the host waits    *)
(* for the selection 100 milliseconds at most.                              *)
StopSeenWithinOnePoll == \A c \in Coords : late[c] <= 1

(* Seen from the account, however guest threads overlap and polls end,      *)
(* there is one session after another; each keeps to the conversation, has  *)
(* one outcome, and leaves its connection alone once it is over.            *)
SessionOpen == launched # None /\ stage[launched] \notin Ended

Session == INSTANCE DataSession WITH busy <- started, count <- launched, open <- SessionOpen
ImplementsSession == Session!SessionSpec

(* A silent server cannot keep the host from shutting down.                 *)
ShutdownCompletes == host = "joining" ~> host = "gone"
=============================================================================
