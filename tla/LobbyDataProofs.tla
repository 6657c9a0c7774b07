--------------------------- MODULE LobbyDataProofs ---------------------------
(***************************************************************************)
(* Proofs about LobbyData, for any number of guest threads, coordinators   *)
(* and polls: one session at a time, the key only after the selection, and *)
(* what becomes of a coordinator that is told to stop.                     *)
(***************************************************************************)
EXTENDS LobbyData, FiniteSetTheorems, SequenceTheorems, TLAPS

Stages == {"unborn", "input", "connect", "bind", "trigger", "request", "list",
           "wait", "select", "select_recv", "reply", "clear", "exit", "exited"}
Said == {"trigger1", "list", "trigger2", "other"}
Got == {"bind", "request", "key"}

(* TypeOK with the sizes its steps rely on.                                *)
SizeInv ==
    \A c \in Coords :
        /\ Len(said[c]) <= 3
        /\ heard[c] <= Len(said[c])
        /\ stage[c] = "select_recv" => polls[c] < MaxPolls

(* The flag is up exactly while one coordinator is under way or about to   *)
(* be launched.                                                            *)
SessionInv ==
    /\ \A c, d \in Coords : stage[c] \notin Ended /\ stage[d] \notin Ended => c = d
    /\ \A g, h \in Guests : guestPc[g] = "construct" /\ guestPc[h] = "construct" => g = h
    /\ \A c \in Coords, g \in Guests : stage[c] \in Ended \/ guestPc[g] # "construct"
    /\ started <=> \/ \E c \in Coords : stage[c] \notin Ended
                   \/ \E g \in Guests : guestPc[g] = "construct"
    /\ \A g \in Guests : guestPc[g] = "construct" => launched < MaxCoords
    /\ \A c \in Coords : c > launched => stage[c] = "unborn"

(* What has been heard and sent when a coordinator gets to a stage.        *)
HeardTrigger(c) == said[c][1] = "trigger1"
HeardList(c) == HeardTrigger(c) /\ said[c][2] = "list"
HeardAll(c) == said[c] = <<"trigger1", "list", "trigger2">> /\ heard[c] = 3

TalkInv ==
    \A c \in Coords :
        /\ stage[c] \in {"unborn", "input", "connect", "bind"} =>
              got[c] = <<>> /\ said[c] = <<>> /\ heard[c] = 0
        /\ stage[c] = "trigger" => got[c] = <<"bind">> /\ heard[c] = 0
        /\ stage[c] = "request" => got[c] = <<"bind">> /\ heard[c] = 1 /\ HeardTrigger(c)
        /\ stage[c] = "list" => got[c] = <<"bind", "request">> /\ heard[c] = 1 /\ HeardTrigger(c)
        /\ stage[c] \in {"wait", "select", "select_recv"} =>
              got[c] = <<"bind", "request">> /\ heard[c] = 2 /\ HeardList(c)
        /\ stage[c] = "reply" => got[c] = <<"bind", "request">> /\ HeardAll(c)
        /\ stage[c] \in {"clear", "exit", "exited"} =>
              (got[c] = <<"bind", "request", "key">> => HeardAll(c))

(* A poll that ends after a stop is the last one.                          *)
LateInv ==
    \A c \in Coords :
        /\ late[c] \in {0, 1}
        /\ late[c] = 1 => stop[c] /\ stage[c] \in {"select", "reply", "clear", "exit", "exited"}

(* Unless two guest threads launch at once: one is in the launch, with a   *)
(* coordinator of its own; every other thread still running is the one     *)
(* that data_thread_ owns, and it is stopped only when its session is over *)
(* or the host goes.                                                       *)
Holds(g) == guestPc[g] \in {"assign", "join", "move"}

AloneInv ==
    /\ host # "terminated"
    /\ \A g, h \in Guests : guestPc[g] # "idle" /\ guestPc[h] # "idle" => g = h
    /\ host # "running" => \A g \in Guests : guestPc[g] = "idle"
    /\ slot # None => stage[slot] # "unborn"
    /\ \A g \in Guests : Holds(g) =>
          /\ mine[g] \in Coords /\ stage[mine[g]] # "unborn" /\ mine[g] # slot
          /\ \A c \in Coords : stage[c] \notin Ended => c = mine[g]
    /\ \A g \in Guests : guestPc[g] = "move" => slot = None
    /\ \A c \in Coords : stage[c] \notin {"unborn", "exited"} =>
          c = slot \/ \E g \in Guests : Holds(g) /\ mine[g] = c
    /\ host = "running" => \A c \in Coords : stop[c] => stage[c] \in {"exit", "exited"}
    /\ host = "running" => \A c \in Coords : result[c] # "cancelled"
    /\ host = "gone" => \A c \in Coords : stage[c] \in {"unborn", "exited"}

(* A coordinator has an outcome once its conversation is over, and only    *)
(* the last one launched can have a session.                               *)
Over == {"clear", "exit", "exited"}

ReportInv ==
    /\ \A c \in Coords : result[c] = "none" <=> stage[c] \notin Over
    /\ \A c \in Coords : stage[c] \notin Ended => c = launched

(* A step of a coordinator goes on in the conversation, returns, or ends   *)
(* the thread.                                                             *)
Talks == Stages \ ({"unborn"} \cup Over)

IInv ==
    /\ TypeOK /\ SizeInv /\ SessionInv /\ ReportInv /\ TalkInv /\ LateInv
    /\ raced \/ AloneInv

-----------------------------------------------------------------------------
(* A step of one coordinator: what it leaves alone and where it can lead.  *)

(* The session goes on, or ends with an outcome to report.                 *)
Moves(c) ==
    /\ stage[c] \notin {"unborn", "clear", "exit", "exited"}
    /\ stage'[c] \in Stages \ {"unborn", "input", "exit", "exited"}
    /\ started' = started
    /\ result'[c] = "cancelled" => stop[c] \/ result[c] = "cancelled"

Frame(c) ==
    /\ \A d \in Coords : d # c =>
          /\ stage'[d] = stage[d] /\ polls'[d] = polls[d] /\ result'[d] = result[d]
          /\ late'[d] = late[d] /\ heard'[d] = heard[d] /\ got'[d] = got[d]
    /\ UNCHANGED <<stop, said, slot, launched, guestPc, mine, raced, host>>

LEMMA CoordMoves ==
  ASSUME TypeOK, NEW c \in Coords, CoordStep(c) \/ SelectFails(c)
  PROVE  /\ Frame(c)
         /\ \/ Moves(c)
            \/ ClearStarted(c) /\ stage[c] = "clear" /\ stage'[c] = "exit" /\ started' = FALSE /\ result' = result
            \/ Exit(c) /\ stage[c] = "exit" /\ stage'[c] = "exited" /\ started' = started /\ result' = result
<1>1. ASSUME NEW next, Goto(c, next) PROVE stage'[c] = next /\ \A d \in Coords : d # c => stage'[d] = stage[d]
  BY <1>1 DEF Goto, TypeOK
<1>2. ASSUME NEW outcome, Return(c, outcome)
      PROVE  /\ stage'[c] = "clear" /\ result'[c] = outcome
             /\ \A d \in Coords : d # c => stage'[d] = stage[d] /\ result'[d] = result[d]
  BY <1>1, <1>2 DEF Return, TypeOK
<1>3. ASSUME NEW due, NEW next \in Stages \ {"unborn", "input", "exit", "exited"}, Receives(c, due, next)
      PROVE  /\ stage'[c] \in {next, "clear"} /\ (result'[c] = "cancelled" => result[c] = "cancelled")
             /\ \A d \in Coords : d # c => /\ stage'[d] = stage[d] /\ result'[d] = result[d]
                                           /\ heard'[d] = heard[d]
             /\ UNCHANGED <<launch, stop, polls, said, got, host>>
  <2>1. heard' = [heard EXCEPT ![c] = @ + 1] /\ UNCHANGED <<launch, stop, polls, said, got, host>>
    BY <1>3 DEF Receives
  <2>0. \A d \in Coords : d # c => heard'[d] = heard[d]
    BY <2>1 DEF TypeOK
  <2>2. CASE Goto(c, next) /\ UNCHANGED result
    BY <1>1, <2>0, <2>1, <2>2
  <2>3. CASE Return(c, "failed")
    <3>1. stage'[c] = "clear" /\ result'[c] = "failed"
      BY <1>2, <2>3
    <3> QED
      BY <1>2, <2>0, <2>1, <2>3, <3>1
  <2> QED
    BY <1>3, <2>2, <2>3 DEF Receives
<1>4. ASSUME EndsPoll(c) PROVE \A d \in Coords : d # c => late'[d] = late[d]
  BY <1>4 DEF EndsPoll, TypeOK
<1>5. ASSUME NEW what, Sends(c, what)
      PROVE  /\ \A d \in Coords : d # c => got'[d] = got[d]
             /\ UNCHANGED <<launch, stop, polls, late, said, heard, host>>
  BY <1>5 DEF Sends, TypeOK
<1>6. CASE Input(c) \/ OpenDataSocket(c) \/ StartWait(c)
  BY <1>1, <1>6 DEF Input, OpenDataSocket, StartWait, At, Frame, Moves, Stages, launch, wire
<1>7. CASE SendBind(c) \/ SendRequest(c)
  BY <1>1, <1>5, <1>7 DEF SendBind, SendRequest, At, Frame, Moves, Stages, launch
<1>8. CASE SendKey(c)
  BY <1>2, <1>5, <1>8 DEF SendKey, At, Frame, Moves, Stages, launch
<1>9. CASE ReceiveTrigger(c)
  <2>1. Receives(c, "trigger1", "request") /\ stage[c] = "trigger" /\ late' = late
    BY <1>9 DEF ReceiveTrigger, At
  <2> QED
    BY <1>3, <2>1 DEF Frame, Moves, Stages, launch
<1>10. CASE ReceiveList(c)
  <2>1. Receives(c, "list", "wait") /\ stage[c] = "list" /\ late' = late
    BY <1>10 DEF ReceiveList, At
  <2> QED
    BY <1>3, <2>1 DEF Frame, Moves, Stages, launch
<1>11. CASE SelectReceive(c)
  <2>1. Receives(c, "trigger2", "reply") /\ stage[c] = "select_recv" /\ EndsPoll(c)
    BY <1>11 DEF SelectReceive, At
  <2> QED
    BY <1>3, <1>4, <2>1 DEF Frame, Moves, Stages, launch
<1>12. CASE SelectHead(c)
  <2>1. stage[c] = "select" /\ UNCHANGED <<launch, stop, polls, late, wire, host>>
    BY <1>12 DEF SelectHead, At
  <2>2. \/ stop[c] /\ Return(c, "cancelled")
        \/ Return(c, "timed out")
        \/ Goto(c, "select_recv") /\ UNCHANGED result
    BY <1>12 DEF SelectHead
  <2>3. CASE Return(c, "cancelled") /\ stop[c]
    BY <1>2, <2>1, <2>3 DEF Frame, Moves, Stages, launch, wire
  <2>4. CASE Return(c, "timed out")
    <3>0. "timed out" # "cancelled"
      OBVIOUS
    <3>1. stage'[c] = "clear" /\ result'[c] = "timed out"
      BY <1>2, <2>4, Zenon
    <3>2. \A d \in Coords : d # c => stage'[d] = stage[d] /\ result'[d] = result[d]
      BY <1>2, <2>4, Zenon
    <3> QED
      BY <2>1, <3>0, <3>1, <3>2 DEF Frame, Moves, Stages, launch, wire
  <2>5. CASE Goto(c, "select_recv") /\ UNCHANGED result
    BY <1>1, <2>1, <2>5 DEF Frame, Moves, Stages, launch, wire
  <2> QED
    BY <2>2, <2>3, <2>4, <2>5
<1>13. CASE SelectTimeout(c)
  <2>1. \A d \in Coords : d # c => polls'[d] = polls[d]
    BY <1>13 DEF SelectTimeout, TypeOK
  <2> QED
    BY <1>1, <1>4, <1>13, <2>1 DEF SelectTimeout, At, Frame, Moves, Stages, launch, wire
<1>14. CASE SelectFails(c)
  BY <1>2, <1>4, <1>14 DEF SelectFails, At, Frame, Moves, Stages, launch, wire
<1>15. CASE Fails(c)
  BY <1>2, <1>15 DEF Fails, Frame, Moves, Stages, launch, wire
<1>16. CASE ClearStarted(c)
  BY <1>1, <1>16 DEF ClearStarted, At, Frame, wire
<1>17. CASE Exit(c)
  BY <1>1, <1>17 DEF Exit, At, Frame, launch, wire
<1> QED
  BY <1>6, <1>7, <1>8, <1>9, <1>10, <1>11, <1>12, <1>13, <1>14, <1>15, <1>16, <1>17 DEF CoordStep

(* The server only adds to what it has said, and never past three messages. *)
LEMMA ServerSays ==
  ASSUME TypeOK, SizeInv, NEW c \in Coords, ServerBehaves(c) \/ ServerMisbehaves(c)
  PROVE  /\ UNCHANGED <<launch, thread, heard, got, host>>
         /\ stage[c] \notin {"unborn", "exit", "exited", "clear"}
         /\ \A d \in Coords : d # c => said'[d] = said[d]
         /\ got[c] # <<>> \/ said[c] = <<"trigger1", "list">>
         /\ Len(said[c]) < 3 /\ Len(said'[c]) = Len(said[c]) + 1
         /\ \A i \in 1..Len(said[c]) : said'[c][i] = said[c][i]
         /\ said' \in [Coords -> Seq(Said)]
<1>1. /\ Len(said[c]) < 3
      /\ \E what \in Said : Say(c, what)
      /\ got[c] # <<>> \/ said[c] = <<"trigger1", "list">>
  <2>1. CASE got[c] = <<"bind">> /\ said[c] = <<>> /\ Say(c, "trigger1")
    BY <2>1 DEF Said
  <2>2. CASE got[c] = <<"bind", "request">> /\ said[c] = <<"trigger1">> /\ Say(c, "list")
    BY <2>2 DEF Said
  <2>3. CASE said[c] = <<"trigger1", "list">> /\ Say(c, "trigger2")
    BY <2>3 DEF Said
  <2>4. CASE ServerMisbehaves(c)
    BY <2>4 DEF ServerMisbehaves, Said
  <2> QED
    BY <2>1, <2>2, <2>3, <2>4 DEF ServerBehaves
<1>2. PICK what \in Said : Say(c, what)
  BY <1>1
<1>3. said[c] \in Seq(Said) /\ said' = [said EXCEPT ![c] = Append(@, what)] /\ said \in [Coords -> Seq(Said)]
  BY <1>2 DEF Say, TypeOK, Said
<1>4. /\ Append(said[c], what) \in Seq(Said) /\ Len(Append(said[c], what)) = Len(said[c]) + 1
      /\ \A i \in 1..Len(said[c]) : Append(said[c], what)[i] = said[c][i]
  BY <1>3, AppendProperties
<1>5. said'[c] = Append(said[c], what) /\ said' \in [Coords -> Seq(Said)]
  BY <1>3, <1>4
<1> QED
  BY <1>1, <1>2, <1>3, <1>4, <1>5 DEF Say, Ended

-----------------------------------------------------------------------------
(* The start, types and sizes.                                             *)

LEMMA InitIInv == Init => IInv
<1> SUFFICES ASSUME Init PROVE IInv
  OBVIOUS
<1>1. 0 \in 0..MaxCoords /\ 0 \in 0..MaxPolls
  BY BoundsAssumption
<1>2. TypeOK
  <2>1. said \in [Coords -> Seq(Said)] /\ got \in [Coords -> Seq(Got)]
    BY DEF Init
  <2>2. 0 \in 0..3
    OBVIOUS
  <2> QED
    BY <1>1, <2>1, <2>2 DEF Init, TypeOK, Said, Got, None
<1>3. SizeInv /\ TalkInv
  BY DEF Init, SizeInv, TalkInv
<1>4. SessionInv /\ LateInv
  BY DEF Init, SessionInv, LateInv, Ended
<1>5. AloneInv
  BY DEF Init, AloneInv, Ended, Holds
<1>6. ReportInv
  BY DEF Init, ReportInv, Ended, Over
<1> QED
  BY <1>2, <1>3, <1>4, <1>5, <1>6 DEF IInv

(* The guest's threads and the host do not touch the coordinators' talk.    *)
LEMMA GuestQuiet ==
  ASSUME NEW g \in Guests, GuestStep(g)
  PROVE  UNCHANGED <<polls, result, late, said, heard, got>>
BY DEF GuestStep, ConnectView, Construct, AssignStop, AssignJoin, AssignMove, AssignTerminates,
   thread, wire

LEMMA SizeStep ==
  ASSUME TypeOK, SizeInv, TalkInv, SessionInv, [Next]_vars
  PROVE  SizeInv'
<1>0. \A c \in Coords : Len(said[c]) \in Nat /\ heard[c] \in Nat
  <2> SUFFICES ASSUME NEW c \in Coords PROVE Len(said[c]) \in Nat /\ heard[c] \in Nat
    OBVIOUS
  <2>1. said[c] \in Seq(Said) /\ heard[c] \in 0..3
    BY DEF TypeOK, Said
  <2> QED
    BY <2>1
<1>1. ASSUME UNCHANGED <<said, heard, stage, polls>> PROVE SizeInv'
  BY <1>1 DEF SizeInv
<1>2. CASE Shutdown \/ Join \/ UNCHANGED vars
  BY <1>1, <1>2 DEF Shutdown, Join, vars, thread, wire
<1>3. ASSUME NEW g \in Guests, GuestStep(g) PROVE SizeInv'
  <2>1. UNCHANGED <<polls, said, heard>>
    BY <1>3, GuestQuiet
  <2>2. \A c \in Coords : stage'[c] = "select_recv" => stage[c] = "select_recv"
    BY <1>3 DEF GuestStep, ConnectView, Construct, AssignStop, AssignJoin, AssignMove,
       AssignTerminates, thread, TypeOK
  <2> QED
    BY <2>1, <2>2 DEF SizeInv
<1>4. ASSUME NEW c \in Coords, ServerBehaves(c) \/ ServerMisbehaves(c) PROVE SizeInv'
  <2>1. /\ UNCHANGED <<stage, polls, heard>>
        /\ \A d \in Coords : d # c => said'[d] = said[d]
        /\ Len(said[c]) < 3 /\ Len(said'[c]) = Len(said[c]) + 1
    BY <1>4, ServerSays DEF thread
  <2> QED
    BY <1>0, <2>1 DEF SizeInv
<1>5. ASSUME NEW c \in Coords, CoordStep(c) \/ SelectFails(c) PROVE SizeInv'
  <2>1. Frame(c)
    BY <1>5, CoordMoves
  <2>2. /\ heard'[c] <= Len(said[c])
        /\ stage'[c] = "select_recv" => polls'[c] < MaxPolls
    <3>1. CASE ReceiveTrigger(c) \/ ReceiveList(c) \/ SelectReceive(c)
      <4>1. Len(said[c]) > heard[c] /\ heard'[c] = heard[c] + 1
        BY <3>1 DEF ReceiveTrigger, ReceiveList, SelectReceive, Receives, TypeOK
      <4>2. stage'[c] \in {"request", "wait", "reply", "clear"}
        BY <3>1 DEF ReceiveTrigger, ReceiveList, SelectReceive, Receives, Goto, Return, TypeOK
      <4> QED
        BY <1>0, <4>1, <4>2
    <3>2. CASE SelectHead(c)
      <4>1. heard' = heard /\ polls' = polls
        BY <3>2 DEF SelectHead, wire
      <4>2. CASE polls[c] = MaxPolls
        <5>1. stage'[c] = "clear"
          BY <3>2, <4>2 DEF SelectHead, Return, Goto, TypeOK
        <5> QED
          BY <4>1, <5>1 DEF SizeInv
      <4>3. CASE polls[c] # MaxPolls
        <5>1. polls[c] \in 0..MaxPolls /\ MaxPolls \in Nat
          BY BoundsAssumption DEF TypeOK
        <5> QED
          BY <4>1, <4>3, <5>1 DEF SizeInv
      <4> QED
        BY <4>2, <4>3
    <3>3. CASE SelectTimeout(c)
      BY <3>3 DEF SelectTimeout, Goto, TypeOK, wire, SizeInv
    <3>4. CASE \/ Input(c) \/ OpenDataSocket(c) \/ SendBind(c) \/ SendRequest(c) \/ StartWait(c)
               \/ SendKey(c) \/ Fails(c) \/ SelectFails(c) \/ ClearStarted(c) \/ Exit(c)
      <4>1. heard' = heard
        BY <3>4 DEF Input, OpenDataSocket, SendBind, SendRequest, StartWait, SendKey, Fails,
           SelectFails, ClearStarted, Exit, Sends, wire
      <4>2. stage'[c] # "select_recv"
        BY <3>4 DEF Input, OpenDataSocket, SendBind, SendRequest, StartWait, SendKey, Fails,
           SelectFails, ClearStarted, Exit, Return, Goto, TypeOK
      <4> QED
        BY <4>1, <4>2 DEF SizeInv
    <3> QED
      BY <1>5, <3>1, <3>2, <3>3, <3>4 DEF CoordStep
  <2> QED
    BY <2>1, <2>2 DEF Frame, SizeInv
<1> QED
  BY <1>2, <1>3, <1>4, <1>5 DEF Next

LEMMA TypeStep ==
  ASSUME TypeOK, SizeInv, SessionInv, LateInv, LateInv', SizeInv', [Next]_vars
  PROVE  TypeOK'
<1>0. None \notin Coords /\ MaxCoords \in Nat /\ MaxPolls \in Nat \ {0}
  BY BoundsAssumption DEF Coords, None
<1>1. CASE Shutdown
  BY <1>1 DEF Shutdown, TypeOK, launch, wire
<1>2. CASE Join
  BY <1>2 DEF Join, TypeOK, launch, thread, wire
<1>3. CASE UNCHANGED vars
  BY <1>3 DEF vars, TypeOK, launch, thread, wire
<1>4. ASSUME NEW g \in Guests, GuestStep(g) PROVE TypeOK'
  <2>1. ASSUME NEW step \in {"idle", "construct", "assign", "join", "move"}, GuestGoto(g, step)
        PROVE  guestPc' \in [Guests -> {"idle", "construct", "assign", "join", "move"}]
    BY <2>1 DEF GuestGoto, TypeOK
  <2>2. CASE ConnectView(g)
    BY <2>1, <2>2 DEF ConnectView, TypeOK, thread, wire
  <2>3. CASE Construct(g)
    <3>1. launched \in 0..MaxCoords /\ launched < MaxCoords
      BY <2>3 DEF Construct, SessionInv, TypeOK
    <3>2. launched + 1 \in 0..MaxCoords /\ launched + 1 \in Coords
      BY <1>0, <3>1 DEF Coords
    <3>3. mine' \in [Guests -> Coords \cup {None}] /\ stage' \in [Coords -> Stages]
      BY <2>3, <3>2 DEF Construct, TypeOK, Stages
    <3> QED
      BY <2>1, <2>3, <3>2, <3>3 DEF Construct, TypeOK, Stages, wire
  <2>4. CASE AssignStop(g)
    <3>1. stop' \in [Coords -> BOOLEAN]
      BY <2>4 DEF AssignStop, TypeOK
    <3> QED
      BY <2>1, <2>4, <3>1 DEF AssignStop, TypeOK, wire
  <2>5. CASE AssignJoin(g)
    BY <2>1, <2>5 DEF AssignJoin, TypeOK, thread, wire
  <2>6. CASE AssignMove(g)
    BY <2>1, <2>6 DEF AssignMove, TypeOK, thread, wire
  <2>7. CASE AssignTerminates(g)
    BY <2>7 DEF AssignTerminates, TypeOK, launch, thread, wire
  <2> QED
    BY <1>4, <2>2, <2>3, <2>4, <2>5, <2>6, <2>7 DEF GuestStep
<1>5. ASSUME NEW c \in Coords, ServerBehaves(c) \/ ServerMisbehaves(c) PROVE TypeOK'
  BY <1>5, ServerSays DEF TypeOK, launch, thread, Said
<1>6. ASSUME NEW c \in Coords, CoordStep(c) \/ SelectFails(c) PROVE TypeOK'
  <2>1. Frame(c)
    BY <1>6, CoordMoves
  <2>0. \/ Moves(c)
        \/ stage'[c] = "exit" /\ started' = FALSE
        \/ stage'[c] = "exited" /\ started' = started
    BY <1>6, CoordMoves
  <2>2. started' \in BOOLEAN
    BY <2>0 DEF Moves, TypeOK
  <2>3. stage' \in [Coords -> Stages]
    <3>1. stage'[c] \in Stages /\ \A d \in Coords : stage'[d] \in Stages
      <4>1. stage'[c] \in Stages
        BY <2>0 DEF Moves, Stages
      <4> QED
        BY <2>1, <4>1 DEF Frame, TypeOK, Stages
    <3>2. \E s : stage' = [stage EXCEPT ![c] = s]
      BY <1>6 DEF CoordStep, Input, OpenDataSocket, SendBind, ReceiveTrigger, SendRequest,
         ReceiveList, StartWait, SelectHead, SelectReceive, SelectTimeout, SendKey, Fails,
         ClearStarted, Exit, SelectFails, Receives, Return, Goto
    <3> QED
      BY <3>1, <3>2 DEF TypeOK
  <2>4. polls' \in [Coords -> 0..MaxPolls]
    <3>1. CASE SelectTimeout(c)
      <4>1. polls[c] \in 0..MaxPolls /\ polls[c] < MaxPolls
        BY <3>1 DEF SelectTimeout, At, SizeInv, TypeOK
      <4>2. polls[c] + 1 \in 0..MaxPolls
        BY <1>0, <4>1
      <4> QED
        BY <3>1, <4>2 DEF SelectTimeout, TypeOK
    <3>2. CASE polls' = polls
      BY <3>2 DEF TypeOK
    <3>3. SelectTimeout(c) \/ polls' = polls
      BY <1>6 DEF CoordStep, Input, OpenDataSocket, SendBind, ReceiveTrigger, SendRequest,
         ReceiveList, StartWait, SelectHead, SelectReceive, SendKey, Fails,
         ClearStarted, Exit, SelectFails, Receives, Sends
    <3> QED
      BY <3>1, <3>2, <3>3
  <2>5. result' \in [Coords -> {"none", "ok", "failed", "cancelled", "timed out"}]
    <3>1. \/ result' = result
          \/ \E r \in {"ok", "failed", "cancelled", "timed out"} : result' = [result EXCEPT ![c] = r]
      <4>1. ASSUME NEW r, Return(c, r) PROVE result' = [result EXCEPT ![c] = r]
        BY <4>1 DEF Return
      <4>2. \/ result' = result
            \/ Return(c, "ok") \/ Return(c, "failed") \/ Return(c, "cancelled") \/ Return(c, "timed out")
        BY <1>6, Zenon DEF CoordStep, Input, OpenDataSocket, SendBind, ReceiveTrigger, SendRequest,
           ReceiveList, StartWait, SelectHead, SelectReceive, SelectTimeout, SendKey, Fails,
           ClearStarted, Exit, SelectFails, Receives
      <4> QED
        BY <4>1, <4>2, Zenon
    <3> QED
      BY <3>1, Zenon DEF TypeOK
  <2>6. heard' \in [Coords -> 0..3]
    <3>1. heard' = heard \/ heard' = [heard EXCEPT ![c] = @ + 1]
      BY <1>6 DEF CoordStep, Input, OpenDataSocket, SendBind, ReceiveTrigger, SendRequest,
         ReceiveList, StartWait, SelectHead, SelectReceive, SelectTimeout, SendKey, Fails,
         ClearStarted, Exit, SelectFails, Receives, Sends, wire
    <3>2. CASE heard' = [heard EXCEPT ![c] = @ + 1]
      <4>1. heard[c] \in 0..3 /\ heard'[c] = heard[c] + 1 /\ heard'[c] <= Len(said'[c]) /\ Len(said'[c]) <= 3
        <5>1. heard'[c] <= Len(said'[c]) /\ Len(said'[c]) <= 3
          BY Zenon DEF SizeInv
        <5> QED
          BY <3>2, <5>1 DEF TypeOK
      <4>2. Len(said'[c]) \in Nat
        <5>1. said' = said
          BY <2>1 DEF Frame
        <5>2. said[c] \in Seq(Said)
          BY DEF TypeOK, Said
        <5> QED
          BY <5>1, <5>2
      <4>3. heard[c] + 1 \in 0..3
        BY <4>1, <4>2
      <4> QED
        BY <3>2, <4>3 DEF TypeOK
    <3> QED
      BY <3>1, <3>2 DEF TypeOK
  <2>7. got' \in [Coords -> Seq(Got)]
    <3>1. got' = got \/ \E m \in Got : got' = [got EXCEPT ![c] = Append(@, m)]
      BY <1>6 DEF CoordStep, Input, OpenDataSocket, SendBind, ReceiveTrigger, SendRequest,
         ReceiveList, StartWait, SelectHead, SelectReceive, SelectTimeout, SendKey, Fails,
         ClearStarted, Exit, SelectFails, Receives, Sends, wire, Got
    <3>2. ASSUME NEW m \in Got, got' = [got EXCEPT ![c] = Append(@, m)] PROVE got' \in [Coords -> Seq(Got)]
      <4>1. Append(got[c], m) \in Seq(Got)
        BY AppendProperties DEF TypeOK, Got
      <4> QED
        BY <3>2, <4>1 DEF TypeOK, Got
    <3> QED
      BY <3>1, <3>2 DEF TypeOK, Got
  <2>8. late' \in [Coords -> 0..MaxPolls]
    <3>1. \E n : late' = [late EXCEPT ![c] = n]
      BY <1>6 DEF CoordStep, Input, OpenDataSocket, SendBind, ReceiveTrigger, SendRequest,
         ReceiveList, StartWait, SelectHead, SelectReceive, SelectTimeout, SendKey, Fails,
         ClearStarted, Exit, SelectFails, Receives, Sends, EndsPoll, TypeOK
    <3>2. late'[c] \in {0, 1} /\ {0, 1} \subseteq 0..MaxPolls
      BY <1>0 DEF LateInv
    <3> QED
      BY <3>1, <3>2 DEF TypeOK
  <2> QED
    BY <2>1, <2>2, <2>3, <2>4, <2>5, <2>6, <2>7, <2>8, Zenon DEF Frame, TypeOK, Stages, Got
<1> QED
  BY <1>1, <1>2, <1>3, <1>4, <1>5, <1>6 DEF Next

-----------------------------------------------------------------------------
(* One session at a time.                                                  *)

LEMMA SessionStep ==
  ASSUME TypeOK, SessionInv, [Next]_vars
  PROVE  SessionInv'
<1>0. launched \in 0..MaxCoords /\ launched \in Nat /\ MaxCoords \in Nat
  <2>1. launched \in 0..MaxCoords /\ MaxCoords \in Nat
    BY BoundsAssumption DEF TypeOK
  <2> QED
    BY <2>1
<1>1. ASSUME UNCHANGED <<stage, guestPc, started, launched>> PROVE SessionInv'
  BY <1>1 DEF SessionInv
<1>2. CASE Shutdown \/ Join \/ UNCHANGED vars
  BY <1>1, <1>2 DEF Shutdown, Join, vars, thread, launch
<1>3. ASSUME NEW g \in Guests, GuestStep(g) PROVE SessionInv'
  <2>1. CASE ConnectView(g)
    <3>1. UNCHANGED <<stage, launched>> /\ started' = TRUE /\ launched + Cardinality(Unlaunched) < MaxCoords
      BY <2>1 DEF ConnectView, thread
    <3>2. CASE started
      BY <1>1, <2>1, <3>1, <3>2 DEF ConnectView, TypeOK
    <3>3. CASE ~started
      <4>1. guestPc'[g] = "construct" /\ \A h \in Guests : h # g => guestPc'[h] = guestPc[h]
        BY <2>1, <3>3 DEF ConnectView, GuestGoto, TypeOK
      <4>2. /\ \A c \in Coords : stage[c] \in Ended
            /\ \A h \in Guests : guestPc[h] # "construct"
        BY <3>3 DEF SessionInv
      <4>3. launched < MaxCoords
        <5>1. Unlaunched = {}
          BY <4>2 DEF Unlaunched
        <5>2. Cardinality(Unlaunched) = 0
          BY <5>1, FS_EmptySet
        <5> QED
          BY <1>0, <3>1, <5>2
      <4> QED
        BY <3>1, <4>1, <4>2, <4>3 DEF SessionInv
    <3> QED
      BY <3>2, <3>3
  <2>2. CASE Construct(g)
    <3>1. /\ guestPc[g] = "construct" /\ guestPc'[g] = "assign"
          /\ \A h \in Guests : h # g => guestPc'[h] = guestPc[h]
          /\ launched' = launched + 1 /\ started' = started
      BY <2>2 DEF Construct, GuestGoto, TypeOK
    <3>2. /\ \A c \in Coords : stage[c] \in Ended
          /\ \A h \in Guests : h # g => guestPc[h] # "construct"
          /\ launched < MaxCoords /\ started
      BY <3>1 DEF SessionInv
    <3>3. launched + 1 \in Coords
      BY <1>0, <3>2 DEF Coords
    <3>4. /\ stage'[launched + 1] = "input"
          /\ \A c \in Coords : c # launched + 1 => stage'[c] = stage[c]
      BY <2>2, <3>3 DEF Construct, TypeOK
    <3>5. stage'[launched + 1] \notin Ended
      BY <3>4 DEF Ended
    <3>6. \A h \in Guests : guestPc'[h] # "construct"
      BY <3>1, <3>2
    <3>7. \A c \in Coords : c > launched' => stage'[c] = "unborn"
      <4> SUFFICES ASSUME NEW c \in Coords, c > launched' PROVE stage'[c] = "unborn"
        OBVIOUS
      <4>1. c > launched /\ c # launched + 1
        BY <1>0, <3>1 DEF Coords
      <4> QED
        BY <3>4, <4>1 DEF SessionInv
    <3> QED
      BY <3>1, <3>2, <3>3, <3>4, <3>5, <3>6, <3>7 DEF SessionInv
  <2>3. CASE AssignStop(g) \/ AssignJoin(g) \/ AssignMove(g) \/ AssignTerminates(g)
    <3>1. /\ UNCHANGED <<stage, started, launched>>
          /\ \A h \in Guests : guestPc[h] = "construct" <=> guestPc'[h] = "construct"
      BY <2>3 DEF AssignStop, AssignJoin, AssignMove, AssignTerminates, GuestGoto, TypeOK, thread, launch
    <3> QED
      BY <3>1 DEF SessionInv
  <2> QED
    BY <1>3, <2>1, <2>2, <2>3 DEF GuestStep
<1>4. ASSUME NEW c \in Coords, ServerBehaves(c) \/ ServerMisbehaves(c) PROVE SessionInv'
  BY <1>1, <1>4 DEF ServerBehaves, ServerMisbehaves, Say, launch, thread
<1>5. ASSUME NEW c \in Coords, CoordStep(c) \/ SelectFails(c) PROVE SessionInv'
  <2>1. /\ \A d \in Coords : d # c => stage'[d] = stage[d]
        /\ UNCHANGED <<launched, guestPc>>
    BY <1>5, CoordMoves DEF Frame
  <2>2. CASE Moves(c)
    <3>1. stage[c] \notin Ended /\ stage'[c] \notin Ended /\ started' = started /\ stage[c] # "unborn"
      BY <2>2 DEF Moves, Ended
    <3>2. \A d \in Coords : stage[d] \in Ended <=> stage'[d] \in Ended
      BY <2>1, <3>1
    <3> QED
      BY <2>1, <3>1, <3>2 DEF SessionInv
  <2>3. CASE stage[c] = "clear" /\ stage'[c] = "exit" /\ started' = FALSE
    <3>1. stage[c] \notin Ended /\ stage'[c] \in Ended
      BY <2>3 DEF Ended
    <3>2. /\ \A d \in Coords : d # c => stage[d] \in Ended
          /\ \A g \in Guests : guestPc[g] # "construct"
      BY <3>1 DEF SessionInv
    <3>3. \A d \in Coords : stage'[d] \in Ended
      BY <2>1, <3>1, <3>2
    <3>4. \A d \in Coords : d > launched => stage'[d] = "unborn"
      BY <2>1, <2>3 DEF SessionInv
    <3> QED
      BY <2>1, <2>3, <3>2, <3>3, <3>4 DEF SessionInv
  <2>4. CASE stage[c] = "exit" /\ stage'[c] = "exited" /\ started' = started
    <3>1. \A d \in Coords : stage[d] \in Ended <=> stage'[d] \in Ended
      BY <2>1, <2>4 DEF Ended
    <3>2. \A d \in Coords : d > launched => stage'[d] = "unborn"
      BY <2>1, <2>4 DEF SessionInv
    <3> QED
      BY <2>1, <2>4, <3>1, <3>2 DEF SessionInv
  <2> QED
    BY <1>5, <2>2, <2>3, <2>4, CoordMoves
<1> QED
  BY <1>2, <1>3, <1>4, <1>5 DEF Next

-----------------------------------------------------------------------------
(* The conversation and the polls.                                         *)

LEMMA NextUnborn ==
  ASSUME TypeOK, SessionInv, NEW g \in Guests, guestPc[g] = "construct"
  PROVE  launched + 1 \in Coords /\ stage[launched + 1] = "unborn"
<1>1. launched \in 0..MaxCoords /\ launched < MaxCoords /\ MaxCoords \in Nat
  BY BoundsAssumption DEF SessionInv, TypeOK
<1>2. launched + 1 \in Coords /\ launched + 1 > launched
  BY <1>1 DEF Coords
<1> QED
  BY <1>2 DEF SessionInv

LEMMA LateStep ==
  ASSUME TypeOK, SessionInv, LateInv, [Next]_vars
  PROVE  LateInv'
<1>1. ASSUME UNCHANGED <<late, stage>>, \A c \in Coords : stop[c] => stop'[c] PROVE LateInv'
  BY <1>1 DEF LateInv
<1>2. CASE Shutdown \/ Join \/ UNCHANGED vars
  <2>1. UNCHANGED <<late, stage>> /\ \A c \in Coords : stop[c] => stop'[c]
    BY <1>2 DEF Shutdown, Join, vars, thread
  <2> QED
    BY <1>1, <2>1
<1>3. ASSUME NEW g \in Guests, GuestStep(g) PROVE LateInv'
  <2>1. late' = late
    BY <1>3, GuestQuiet
  <2>2. \A c \in Coords : stop[c] => stop'[c]
    BY <1>3 DEF GuestStep, ConnectView, Construct, AssignStop, AssignJoin, AssignMove,
       AssignTerminates, thread
  <2>3. CASE stage' = stage
    BY <1>1, <2>1, <2>2, <2>3
  <2>4. CASE Construct(g)
    <3>0. launched + 1 \in Coords /\ stage[launched + 1] = "unborn"
      BY <2>4, NextUnborn DEF Construct
    <3>1. \A c \in Coords : c # launched + 1 => stage'[c] = stage[c]
      BY <2>4, <3>0 DEF Construct, TypeOK
    <3>2. late[launched + 1] # 1
      BY <3>0 DEF LateInv
    <3> QED
      BY <2>1, <2>2, <3>0, <3>1, <3>2 DEF LateInv
  <2> QED
    BY <1>3, <2>3, <2>4 DEF GuestStep, ConnectView, AssignStop, AssignJoin, AssignMove,
       AssignTerminates, thread
<1>4. ASSUME NEW c \in Coords, ServerBehaves(c) \/ ServerMisbehaves(c) PROVE LateInv'
  <2>1. UNCHANGED <<late, stage, stop>>
    BY <1>4 DEF ServerBehaves, ServerMisbehaves, Say, thread
  <2> QED
    BY <1>1, <2>1
<1>5. ASSUME NEW c \in Coords, CoordStep(c) \/ SelectFails(c) PROVE LateInv'
  <2>1. /\ \A d \in Coords : d # c => stage'[d] = stage[d] /\ late'[d] = late[d]
        /\ stop' = stop
    BY <1>5, CoordMoves DEF Frame
  <2>2. /\ late'[c] \in {0, 1}
        /\ late'[c] = 1 => stop[c] /\ stage'[c] \in {"select", "reply", "clear", "exit", "exited"}
    <3>1. CASE SelectTimeout(c) \/ SelectReceive(c) \/ SelectFails(c)
      <4>1. stage[c] = "select_recv" /\ late[c] = 0
        BY <3>1 DEF SelectTimeout, SelectReceive, SelectFails, At, LateInv
      <4>2. late'[c] = IF stop[c] THEN 1 ELSE 0
        <5>1. EndsPoll(c)
          BY <3>1 DEF SelectTimeout, SelectReceive, SelectFails
        <5>2. late'[c] = IF stop[c] THEN late[c] + 1 ELSE late[c]
          BY <5>1 DEF EndsPoll, TypeOK
        <5> QED
          BY <4>1, <5>2
      <4>3. stage'[c] \in {"select", "reply", "clear"}
        BY <3>1 DEF SelectTimeout, SelectReceive, SelectFails, Receives, Return, Goto, TypeOK
      <4> QED
        BY <4>2, <4>3
    <3>2. CASE SelectHead(c)
      <4>1. late' = late /\ stage[c] = "select" /\ (stop[c] => stage'[c] = "clear")
        BY <3>2 DEF SelectHead, At, Return, Goto, TypeOK
      <4> QED
        BY <4>1 DEF LateInv
    <3>3. CASE \/ Input(c) \/ OpenDataSocket(c) \/ SendBind(c) \/ ReceiveTrigger(c) \/ SendRequest(c)
               \/ ReceiveList(c) \/ StartWait(c)
      <4>1. late' = late /\ stage[c] \in {"input", "connect", "bind", "trigger", "request", "list", "wait"}
        BY <3>3 DEF Input, OpenDataSocket, SendBind, ReceiveTrigger, SendRequest, ReceiveList,
           StartWait, At, Sends
      <4>2. late[c] = 0
        BY <4>1 DEF LateInv
      <4> QED
        BY <4>1, <4>2
    <3>4. CASE SendKey(c) \/ Fails(c) \/ ClearStarted(c) \/ Exit(c)
      <4>1. late' = late /\ stage'[c] \in {"clear", "exit", "exited"}
        BY <3>4 DEF SendKey, Fails, ClearStarted, Exit, Sends, Return, Goto, TypeOK
      <4> QED
        BY <4>1 DEF LateInv
    <3> QED
      BY <1>5, <3>1, <3>2, <3>3, <3>4 DEF CoordStep
  <2> QED
    BY <2>1, <2>2 DEF LateInv
<1> QED
  BY <1>2, <1>3, <1>4, <1>5 DEF Next

LEMMA TalkStep ==
  ASSUME TypeOK, SizeInv, SessionInv, TalkInv, [Next]_vars
  PROVE  TalkInv'
<1>0. \A c \in Coords : said[c] \in Seq(Said) /\ got[c] \in Seq(Got)
  BY DEF TypeOK, Said, Got
<1>1. ASSUME UNCHANGED <<stage, said, heard, got>> PROVE TalkInv'
  BY <1>1 DEF TalkInv, HeardTrigger, HeardList, HeardAll
<1>2. CASE Shutdown \/ Join \/ UNCHANGED vars
  BY <1>1, <1>2 DEF Shutdown, Join, vars, thread, wire
<1>3. ASSUME NEW g \in Guests, GuestStep(g) PROVE TalkInv'
  <2>1. UNCHANGED <<said, heard, got>>
    BY <1>3, GuestQuiet
  <2>2. CASE stage' = stage
    BY <1>1, <2>1, <2>2
  <2>3. CASE Construct(g)
    <3>1. launched + 1 \in Coords /\ stage[launched + 1] = "unborn"
      BY <2>3, NextUnborn DEF Construct
    <3>2. /\ stage'[launched + 1] = "input"
          /\ \A c \in Coords : c # launched + 1 => stage'[c] = stage[c]
      BY <2>3, <3>1 DEF Construct, TypeOK
    <3> QED
      BY <2>1, <3>1, <3>2 DEF TalkInv, HeardTrigger, HeardList, HeardAll
  <2> QED
    BY <1>3, <2>2, <2>3 DEF GuestStep, ConnectView, AssignStop, AssignJoin, AssignMove,
       AssignTerminates, thread
<1>4. ASSUME NEW c \in Coords, ServerBehaves(c) \/ ServerMisbehaves(c) PROVE TalkInv'
  <2>1. /\ UNCHANGED <<stage, heard, got>>
        /\ \A d \in Coords : d # c => said'[d] = said[d]
        /\ stage[c] \notin {"unborn", "exit", "exited", "clear"}
        /\ got[c] # <<>> \/ said[c] = <<"trigger1", "list">>
        /\ Len(said[c]) < 3
        /\ \A i \in 1..Len(said[c]) : said'[c][i] = said[c][i]
    BY <1>4, ServerSays DEF thread
  <2>2. stage[c] \notin {"input", "connect", "bind"}
    <3>1. <<>> # <<"trigger1", "list">>
      OBVIOUS
    <3> QED
      BY <2>1, <3>1 DEF TalkInv
  <2>3. stage[c] # "reply"
    BY <2>1 DEF TalkInv, HeardAll
  <2>4. heard[c] \in Nat /\ Len(said[c]) \in Nat /\ heard[c] <= Len(said[c])
    <3>1. heard[c] \in 0..3 /\ heard[c] <= Len(said[c])
      BY DEF SizeInv, TypeOK
    <3>2. Len(said[c]) \in Nat
      BY <1>0
    <3> QED
      BY <3>1, <3>2
  <2>5. heard[c] >= 1 => said'[c][1] = said[c][1]
    BY <2>1, <2>4
  <2>6. heard[c] >= 2 => said'[c][2] = said[c][2]
    BY <2>1, <2>4
  <2> QED
    BY <2>1, <2>2, <2>3, <2>5, <2>6 DEF TalkInv, HeardTrigger, HeardList, HeardAll
<1>5. ASSUME NEW c \in Coords, CoordStep(c) \/ SelectFails(c) PROVE TalkInv'
  <2>1. /\ \A d \in Coords : d # c => stage'[d] = stage[d] /\ heard'[d] = heard[d] /\ got'[d] = got[d]
        /\ said' = said
    BY <1>5, CoordMoves DEF Frame
  <2> SUFFICES
        /\ stage'[c] \in {"unborn", "input", "connect", "bind"} =>
              got'[c] = <<>> /\ said[c] = <<>> /\ heard'[c] = 0
        /\ stage'[c] = "trigger" => got'[c] = <<"bind">> /\ heard'[c] = 0
        /\ stage'[c] = "request" => got'[c] = <<"bind">> /\ heard'[c] = 1 /\ HeardTrigger(c)
        /\ stage'[c] = "list" => got'[c] = <<"bind", "request">> /\ heard'[c] = 1 /\ HeardTrigger(c)
        /\ stage'[c] \in {"wait", "select", "select_recv"} =>
              got'[c] = <<"bind", "request">> /\ heard'[c] = 2 /\ HeardList(c)
        /\ stage'[c] = "reply" => /\ got'[c] = <<"bind", "request">>
                                  /\ said[c] = <<"trigger1", "list", "trigger2">> /\ heard'[c] = 3
        /\ stage'[c] \in {"clear", "exit", "exited"} =>
              (got'[c] = <<"bind", "request", "key">> =>
                  said[c] = <<"trigger1", "list", "trigger2">> /\ heard'[c] = 3)
    BY <2>1 DEF TalkInv, HeardTrigger, HeardList, HeardAll
  <2>2. ASSUME NEW due, NEW next, Receives(c, due, next)
        PROVE  /\ Len(said[c]) > heard[c] /\ heard'[c] = heard[c] + 1 /\ got' = got
               /\ \/ said[c][heard[c] + 1] = due /\ stage'[c] = next
                  \/ stage'[c] = "clear"
    BY <2>2 DEF Receives, Return, Goto, TypeOK
  <2>3. /\ <<"bind">> # <<"bind", "request", "key">>
        /\ <<"bind", "request">> # <<"bind", "request", "key">>
        /\ <<>> # <<"bind", "request", "key">>
    OBVIOUS
  <2>4. CASE Input(c) \/ OpenDataSocket(c)
    BY <2>4 DEF Input, OpenDataSocket, At, Goto, TypeOK, wire, TalkInv
  <2>5. CASE SendBind(c)
    <3>1. got[c] = <<>> /\ heard' = heard /\ heard[c] = 0 /\ stage'[c] = "trigger"
      BY <2>5 DEF SendBind, Sends, At, Goto, TypeOK, TalkInv
    <3>2. got'[c] = Append(got[c], "bind")
      BY <2>5 DEF SendBind, Sends, TypeOK
    <3> QED
      BY <3>1, <3>2
  <2>6. CASE SendRequest(c)
    <3>1. /\ got[c] = <<"bind">> /\ heard' = heard /\ heard[c] = 1 /\ HeardTrigger(c)
          /\ stage'[c] = "list"
      BY <2>6 DEF SendRequest, Sends, At, Goto, TypeOK, TalkInv
    <3>2. got'[c] = Append(got[c], "request")
      BY <2>6 DEF SendRequest, Sends, TypeOK
    <3>3. got'[c] = <<"bind", "request">>
      <4>1. Append(<<"bind">>, "request") = <<"bind", "request">>
        <5>1. <<"bind">> \in Seq(Got) /\ "request" \in Got /\ Len(<<"bind">>) = 1
          BY DEF Got
        <5>2. <<"bind", "request">> \in Seq(Got) /\ Len(<<"bind", "request">>) = 2
          BY DEF Got
        <5>3. /\ Append(<<"bind">>, "request") \in Seq(Got)
              /\ Len(Append(<<"bind">>, "request")) = 2
              /\ Append(<<"bind">>, "request")[1] = "bind"
              /\ Append(<<"bind">>, "request")[2] = "request"
          BY <5>1, AppendProperties
        <5>4. \A i \in 1..2 : i = 1 \/ i = 2
          OBVIOUS
        <5>5. \A i \in 1..2 : Append(<<"bind">>, "request")[i] = <<"bind", "request">>[i]
          BY <5>3, <5>4
        <5> QED
          BY <5>2, <5>3, <5>5, SeqEqual
      <4> QED
        BY <3>1, <3>2, <4>1
    <3> QED
      BY <3>1, <3>3
  <2>7. CASE SendKey(c)
    <3>1. heard' = heard /\ HeardAll(c) /\ stage'[c] = "clear"
      BY <2>7 DEF SendKey, Sends, At, Return, Goto, TypeOK, TalkInv
    <3> QED
      BY <3>1 DEF HeardAll
  <2>8. CASE ReceiveTrigger(c)
    <3>1. Receives(c, "trigger1", "request") /\ got[c] = <<"bind">> /\ heard[c] = 0
      BY <2>8 DEF ReceiveTrigger, At, TalkInv
    <3> QED
      BY <2>2, <2>3, <3>1 DEF HeardTrigger
  <2>9. CASE ReceiveList(c)
    <3>1. /\ Receives(c, "list", "wait") /\ got[c] = <<"bind", "request">> /\ heard[c] = 1
          /\ HeardTrigger(c)
      BY <2>9 DEF ReceiveList, At, TalkInv
    <3> QED
      BY <2>2, <2>3, <3>1 DEF HeardTrigger, HeardList
  <2>10. CASE SelectReceive(c)
    <3>1. /\ Receives(c, "trigger2", "reply") /\ got[c] = <<"bind", "request">> /\ heard[c] = 2
          /\ HeardList(c)
      BY <2>10 DEF SelectReceive, At, TalkInv
    <3>2. Len(said[c]) > 2 /\ Len(said[c]) <= 3
      BY <2>2, <3>1 DEF SizeInv
    <3>3. CASE said[c][3] = "trigger2"
      <4>1. Len(said[c]) = 3
        <5>1. Len(said[c]) \in Nat
          BY <1>0
        <5>2. \A n \in Nat : n > 2 /\ n <= 3 => n = 3
          OBVIOUS
        <5> QED
          BY <3>2, <5>1, <5>2, Zenon
      <4>2. said[c] = <<"trigger1", "list", "trigger2">>
        BY <1>0, <3>1, <3>3, <4>1 DEF HeardList, HeardTrigger
      <4> QED
        BY <2>2, <2>3, <3>1, <4>2
    <3> QED
      BY <2>2, <2>3, <3>1, <3>3
  <2>11. CASE StartWait(c) \/ SelectHead(c) \/ SelectTimeout(c) \/ SelectFails(c)
    <3>1. /\ heard' = heard /\ got' = got
          /\ stage[c] \in {"wait", "select", "select_recv"}
          /\ stage'[c] \in {"select", "select_recv", "clear"}
      BY <2>11 DEF StartWait, SelectHead, SelectTimeout, SelectFails, At, Return, Goto, TypeOK, wire
    <3>2. got[c] = <<"bind", "request">> /\ heard[c] = 2 /\ HeardList(c)
      BY <3>1 DEF TalkInv
    <3> QED
      BY <2>3, <3>1, <3>2
  <2>12. CASE Fails(c)
    <3>1. /\ heard' = heard /\ got' = got /\ stage'[c] = "clear"
          /\ stage[c] \in {"input", "connect", "bind", "trigger", "request", "list", "wait", "reply"}
      BY <2>12 DEF Fails, Return, Goto, TypeOK, wire
    <3>2. got[c] \in {<<>>, <<"bind">>, <<"bind", "request">>}
      BY <3>1 DEF TalkInv
    <3> QED
      BY <2>3, <3>1, <3>2
  <2>13. CASE ClearStarted(c) \/ Exit(c)
    <3>1. /\ heard' = heard /\ got' = got
          /\ stage[c] \in {"clear", "exit"} /\ stage'[c] \in {"exit", "exited"}
      BY <2>13 DEF ClearStarted, Exit, At, Goto, TypeOK, wire
    <3> QED
      BY <3>1 DEF TalkInv, HeardAll
  <2> QED
    BY <1>5, <2>4, <2>5, <2>6, <2>7, <2>8, <2>9, <2>10, <2>11, <2>12, <2>13 DEF CoordStep
<1> QED
  BY <1>2, <1>3, <1>4, <1>5 DEF Next

-----------------------------------------------------------------------------
(* One guest thread in the launch.                                         *)

LEMMA AloneStep ==
  ASSUME TypeOK, SessionInv, AloneInv, ~raced', [Next]_vars
  PROVE  AloneInv'
<1>0. slot \in Coords \cup {None} /\ None \notin Coords
  <2>1. slot \in Coords \cup {None}
    BY DEF TypeOK
  <2>2. None \notin Coords
    BY BoundsAssumption DEF Coords, None
  <2> QED
    BY <2>1, <2>2
<1>1. CASE Shutdown
  <2>1. /\ host = "running" /\ host' = "joining"
        /\ \A g \in Guests : guestPc[g] = "idle"
        /\ UNCHANGED <<slot, guestPc, mine, stage, result>>
    BY <1>1 DEF Shutdown, Launching, launch
  <2> QED
    BY <2>1 DEF AloneInv, Holds
<1>2. CASE Join
  <2>1. /\ host = "joining" /\ slot \notin Running /\ host' = "gone"
        /\ UNCHANGED <<slot, guestPc, mine, stage, result, stop>>
    BY <1>2 DEF Join, launch, thread
  <2>2. \A g \in Guests : guestPc[g] = "idle"
    BY <2>1 DEF AloneInv
  <2>3. \A c \in Coords : stage[c] \in {"unborn", "exited"}
    BY <2>1, <2>2 DEF AloneInv, Holds, Running
  <2> QED
    BY <2>1, <2>2, <2>3 DEF AloneInv, Holds
<1>3. CASE UNCHANGED vars
  BY <1>3 DEF vars, launch, thread, AloneInv, Holds
<1>4. ASSUME NEW g \in Guests, GuestStep(g) PROVE AloneInv'
  <2>1. CASE ConnectView(g)
    <3>1. UNCHANGED <<stage, stop, result, slot, mine, host>> /\ host = "running"
      BY <2>1 DEF ConnectView, thread
    <3>2. CASE started
      <4>1. guestPc' = guestPc
        BY <2>1, <3>2 DEF ConnectView
      <4> QED
        BY <3>1, <4>1 DEF AloneInv, Holds
    <3>3. CASE ~started
      <4>1. /\ guestPc'[g] = "construct" /\ \A h \in Guests : h # g => guestPc'[h] = guestPc[h]
            /\ \A h \in Guests : guestPc[h] = "idle"
        BY <2>1, <3>3 DEF ConnectView, GuestGoto, Launching, TypeOK
      <4>2. \A c \in Coords : stage[c] \notin {"unborn", "exited"} => c = slot
        BY <4>1 DEF AloneInv, Holds
      <4> QED
        BY <3>1, <4>1, <4>2 DEF AloneInv, Holds
    <3> QED
      BY <3>2, <3>3
  <2>2. CASE Construct(g)
    <3>0. guestPc[g] = "construct" /\ UNCHANGED <<slot, stop, result, host>>
      BY <2>2 DEF Construct
    <3> DEFINE n == launched + 1
    <3>1. n \in Coords /\ stage[n] = "unborn"
      BY <3>0, NextUnborn
    <3>2. /\ stage'[n] = "input" /\ \A c \in Coords : c # n => stage'[c] = stage[c]
          /\ mine'[g] = n /\ \A h \in Guests : h # g => mine'[h] = mine[h]
          /\ guestPc'[g] = "assign" /\ \A h \in Guests : h # g => guestPc'[h] = guestPc[h]
      BY <2>2, <3>1 DEF Construct, GuestGoto, TypeOK
    <3>3. /\ \A h \in Guests : h # g => guestPc[h] = "idle"
          /\ host = "running"
          /\ \A c \in Coords : stage[c] \in Ended
      BY <3>0 DEF AloneInv, SessionInv
    <3>4. slot # n /\ (slot # None => stage[slot] # "unborn")
      BY <1>0, <3>1 DEF AloneInv
    <3>5. \A c \in Coords : stage[c] \notin {"unborn", "exited"} => c = slot
      BY <3>0, <3>3 DEF AloneInv, Holds
    <3>6. ~stop[n]
      BY <3>1, <3>3 DEF AloneInv
    <3>7. \A c \in Coords : stage'[c] \notin Ended => c = n
      BY <3>2, <3>3
    <3> HIDE DEF n
    <3>8. \A h \in Guests : Holds(h)' <=> h = g
      BY <3>2, <3>3 DEF Holds
    <3>9. slot # None => stage'[slot] # "unborn"
      BY <1>0, <3>1, <3>2, <3>4
    <3>10. \A c \in Coords : stage'[c] \notin {"unborn", "exited"} =>
              c = slot \/ \E h \in Guests : Holds(h)' /\ mine'[h] = c
      BY <3>2, <3>5, <3>8
    <3>11. \A c \in Coords : stop[c] => stage'[c] \in {"exit", "exited"}
      BY <3>2, <3>3, <3>6 DEF AloneInv
    <3>12. \A h \in Guests : Holds(h)' =>
              /\ mine'[h] \in Coords /\ stage'[mine'[h]] # "unborn" /\ mine'[h] # slot
              /\ \A c \in Coords : stage'[c] \notin Ended => c = mine'[h]
      BY <3>1, <3>2, <3>4, <3>7, <3>8
    <3>13. /\ \A h \in Guests : guestPc'[h] # "move"
           /\ \A h, k \in Guests : guestPc'[h] # "idle" /\ guestPc'[k] # "idle" => h = k
      BY <3>2, <3>3
    <3> QED
      BY <3>0, <3>3, <3>9, <3>10, <3>11, <3>12, <3>13 DEF AloneInv
  <2>3. CASE AssignStop(g)
    <3>1. /\ guestPc[g] = "assign" /\ UNCHANGED <<slot, mine, stage, result, host>>
          /\ guestPc'[g] = IF slot = None THEN "move" ELSE "join"
          /\ \A h \in Guests : h # g => guestPc'[h] = guestPc[h]
          /\ \A c \in Coords : stop'[c] => stop[c] \/ c = slot
      BY <2>3 DEF AssignStop, GuestGoto, TypeOK
    <3>2. /\ \A h \in Guests : h # g => guestPc[h] = "idle"
          /\ host = "running"
      BY <3>1 DEF AloneInv
    <3>3. \A c \in Coords : c = slot => stage[c] \in {"exit", "exited"}
      BY <1>0, <3>1 DEF AloneInv, Holds, Ended
    <3>4. \A h \in Guests : Holds(h)' <=> Holds(h)
      BY <3>1 DEF Holds
    <3> QED
      BY <3>1, <3>2, <3>3, <3>4 DEF AloneInv
  <2>4. CASE AssignJoin(g)
    <3>1. /\ guestPc[g] = "join" /\ slot \notin Running /\ slot' = None
          /\ UNCHANGED <<mine, stage, result, stop, host>>
          /\ guestPc'[g] = "move" /\ \A h \in Guests : h # g => guestPc'[h] = guestPc[h]
      BY <2>4 DEF AssignJoin, GuestGoto, TypeOK, thread
    <3>2. \A h \in Guests : Holds(h)' <=> Holds(h)
      BY <3>1 DEF Holds
    <3>3. \A c \in Coords : c = slot => stage[c] \in {"unborn", "exited"}
      BY <3>1 DEF Running
    <3>4. \A h \in Guests : h # g => guestPc[h] = "idle"
      BY <3>1 DEF AloneInv
    <3> QED
      BY <1>0, <3>1, <3>2, <3>3, <3>4 DEF AloneInv
  <2>5. CASE AssignMove(g)
    <3>1. /\ guestPc[g] = "move" /\ slot' = mine[g]
          /\ UNCHANGED <<mine, stage, result, stop, host>>
          /\ guestPc'[g] = "idle" /\ \A h \in Guests : h # g => guestPc'[h] = guestPc[h]
      BY <2>5 DEF AssignMove, GuestGoto, TypeOK, thread
    <3>2. /\ Holds(g) /\ slot = None /\ mine[g] \in Coords /\ stage[mine[g]] # "unborn"
          /\ \A h \in Guests : h # g => guestPc[h] = "idle"
      BY <3>1 DEF AloneInv, Holds
    <3>3. \A h \in Guests : guestPc'[h] = "idle"
      BY <3>1, <3>2
    <3>4. \A c \in Coords : stage[c] \notin {"unborn", "exited"} => c = mine[g]
      BY <1>0, <3>2 DEF AloneInv, Holds
    <3> QED
      BY <3>1, <3>2, <3>3, <3>4 DEF AloneInv, Holds
  <2>6. CASE AssignTerminates(g)
    BY <2>6 DEF AssignTerminates, AloneInv
  <2> QED
    BY <1>4, <2>1, <2>2, <2>3, <2>4, <2>5, <2>6 DEF GuestStep
<1>5. ASSUME NEW c \in Coords, ServerBehaves(c) \/ ServerMisbehaves(c) PROVE AloneInv'
  <2>1. UNCHANGED <<launch, thread, host>>
    BY <1>5 DEF ServerBehaves, ServerMisbehaves, Say
  <2> QED
    BY <2>1 DEF launch, thread, AloneInv, Holds
<1>6. ASSUME NEW c \in Coords, CoordStep(c) \/ SelectFails(c) PROVE AloneInv'
  <2>1. /\ \A d \in Coords : d # c => stage'[d] = stage[d] /\ result'[d] = result[d]
        /\ UNCHANGED <<stop, slot, guestPc, mine, host>>
    BY <1>6, CoordMoves DEF Frame
  <2>2. /\ stage[c] \notin {"unborn", "exited"} /\ stage'[c] # "unborn"
        /\ stage'[c] \notin Ended => stage[c] \notin Ended
        /\ stage[c] \in {"exit", "exited"} => stage'[c] \in {"exit", "exited"}
        /\ result'[c] = "cancelled" => result[c] = "cancelled" \/ (stop[c] /\ stage[c] \notin {"exit", "exited"})
    <3>1. CASE Moves(c)
      BY <3>1 DEF Moves, Ended
    <3>2. CASE stage[c] = "clear" /\ stage'[c] = "exit" /\ result' = result
      BY <3>2 DEF Ended
    <3>3. CASE stage[c] = "exit" /\ stage'[c] = "exited" /\ result' = result
      BY <3>3 DEF Ended
    <3> QED
      BY <1>6, <3>1, <3>2, <3>3, CoordMoves
  <2>3. /\ \A d \in Coords : stage[d] # "unborn" => stage'[d] # "unborn"
        /\ \A d \in Coords : stage'[d] \notin Ended => stage[d] \notin Ended
        /\ \A d \in Coords : stage'[d] \notin {"unborn", "exited"} => stage[d] \notin {"unborn", "exited"}
        /\ \A d \in Coords : stage[d] \in {"exit", "exited"} => stage'[d] \in {"exit", "exited"}
    BY <2>1, <2>2
  <2>4. host = "running" => result'[c] # "cancelled"
    BY <2>2 DEF AloneInv
  <2>5. host # "gone"
    BY <2>2 DEF AloneInv
  <2>6. \A g \in Guests : Holds(g)' <=> Holds(g)
    BY <2>1 DEF Holds
  <2> QED
    BY <1>0, <2>1, <2>3, <2>4, <2>5, <2>6 DEF AloneInv
<1> QED
  BY <1>1, <1>2, <1>3, <1>4, <1>5, <1>6 DEF Next

LEMMA RaceStays == [Next]_vars /\ TypeOK /\ raced => raced'
<1> SUFFICES ASSUME [Next]_vars, TypeOK, raced PROVE raced'
  OBVIOUS
<1>1. ASSUME NEW g \in Guests, GuestStep(g) PROVE raced'
  BY <1>1 DEF GuestStep, ConnectView, Construct, AssignStop, AssignJoin, AssignMove,
     AssignTerminates, launch
<1>2. ASSUME NEW c \in Coords, CoordStep(c) \/ SelectFails(c) PROVE raced'
  BY <1>2, CoordMoves DEF Frame
<1>3. ASSUME NEW c \in Coords, ServerBehaves(c) \/ ServerMisbehaves(c) PROVE raced'
  BY <1>3 DEF ServerBehaves, ServerMisbehaves, Say, launch
<1>4. CASE Shutdown \/ Join \/ UNCHANGED vars
  BY <1>4 DEF Shutdown, Join, vars, launch
<1> QED
  BY <1>1, <1>2, <1>3, <1>4 DEF Next

-----------------------------------------------------------------------------
(* The outcome of a session.                                               *)

LEMMA CoordReports ==
  ASSUME NEW c \in Coords, CoordStep(c) \/ SelectFails(c)
  PROVE  \/ stage[c] \in Talks /\ result' = result /\ \E next \in Talks : Goto(c, next)
         \/ stage[c] \in Talks /\ \E r \in {"ok", "failed", "cancelled", "timed out"} : Return(c, r)
         \/ stage[c] = "clear" /\ result' = result /\ Goto(c, "exit")
         \/ stage[c] = "exit" /\ result' = result /\ Goto(c, "exited")
<1>1. CASE \/ Input(c) \/ OpenDataSocket(c) \/ SendBind(c) \/ SendRequest(c)
           \/ StartWait(c) \/ SelectTimeout(c)
  BY <1>1 DEF Input, OpenDataSocket, SendBind, SendRequest, StartWait, SelectTimeout, At,
     Talks, Stages, Over
<1>2. CASE SendKey(c) \/ Fails(c) \/ SelectFails(c)
  BY <1>2 DEF SendKey, Fails, SelectFails, At, Talks, Stages, Over
<1>3. CASE SelectHead(c)
  BY <1>3 DEF SelectHead, At, Talks, Stages, Over
<1>4. CASE ReceiveTrigger(c) \/ ReceiveList(c) \/ SelectReceive(c)
  BY <1>4 DEF ReceiveTrigger, ReceiveList, SelectReceive, Receives, At, Talks, Stages, Over
<1>5. CASE ClearStarted(c) \/ Exit(c)
  BY <1>5 DEF ClearStarted, Exit, At
<1> QED
  BY <1>1, <1>2, <1>3, <1>4, <1>5 DEF CoordStep

LEMMA ReportStep ==
  ASSUME TypeOK, SessionInv, ReportInv, [Next]_vars
  PROVE  ReportInv'
<1>1. ASSUME UNCHANGED <<stage, result, launched>> PROVE ReportInv'
  BY <1>1 DEF ReportInv
<1>2. CASE Shutdown \/ Join \/ UNCHANGED vars
  BY <1>1, <1>2 DEF Shutdown, Join, vars, thread, launch
<1>3. ASSUME NEW g \in Guests, GuestStep(g) PROVE ReportInv'
  <2>1. CASE Construct(g)
    <3> DEFINE n == launched + 1
    <3>1. n \in Coords /\ stage[n] = "unborn" /\ guestPc[g] = "construct"
      BY <2>1, NextUnborn DEF Construct
    <3>2. /\ stage'[n] = "input" /\ \A c \in Coords : c # n => stage'[c] = stage[c]
          /\ launched' = n /\ result' = result
      BY <2>1, <3>1 DEF Construct, TypeOK
    <3>3. \A c \in Coords : stage[c] \in Ended
      BY <3>1 DEF SessionInv
    <3> HIDE DEF n
    <3> QED
      BY <3>1, <3>2, <3>3 DEF ReportInv, Over, Ended
  <2> QED
    BY <1>1, <1>3, <2>1 DEF GuestStep, ConnectView, AssignStop, AssignJoin, AssignMove,
       AssignTerminates, thread, launch
<1>4. ASSUME NEW c \in Coords, ServerBehaves(c) \/ ServerMisbehaves(c) PROVE ReportInv'
  BY <1>1, <1>4 DEF ServerBehaves, ServerMisbehaves, Say, launch, thread
<1>5. ASSUME NEW c \in Coords, CoordStep(c) \/ SelectFails(c) PROVE ReportInv'
  <2>1. launched' = launched
    BY <1>5, CoordMoves DEF Frame
  <2>2. ASSUME NEW s, Goto(c, s) PROVE stage'[c] = s /\ \A d \in Coords : d # c => stage'[d] = stage[d]
    BY <2>2 DEF Goto, TypeOK
  <2>3. CASE stage[c] \in Talks /\ result' = result /\ \E next \in Talks : Goto(c, next)
    <3>1. /\ stage[c] \notin Ended \cup Over /\ stage'[c] \notin Ended \cup Over
          /\ \A d \in Coords : d # c => stage'[d] = stage[d]
      BY <2>2, <2>3 DEF Talks, Stages, Ended, Over
    <3> QED
      BY <2>1, <2>3, <3>1 DEF ReportInv
  <2>4. CASE stage[c] \in Talks /\ \E r \in {"ok", "failed", "cancelled", "timed out"} : Return(c, r)
    <3>1. /\ stage[c] \notin Ended /\ stage'[c] = "clear" /\ result'[c] # "none"
          /\ \A d \in Coords : d # c => stage'[d] = stage[d] /\ result'[d] = result[d]
      BY <2>2, <2>4 DEF Return, Talks, Stages, Ended, Over, TypeOK
    <3> QED
      BY <2>1, <3>1 DEF ReportInv, Over
  <2>5. CASE /\ result' = result
             /\ \/ stage[c] = "clear" /\ Goto(c, "exit")
                \/ stage[c] = "exit" /\ Goto(c, "exited")
    <3>1. /\ stage[c] \in Over /\ stage'[c] \in Over /\ stage'[c] \in Ended
          /\ \A d \in Coords : d # c => stage'[d] = stage[d]
      BY <2>2, <2>5 DEF Over, Ended
    <3> QED
      BY <2>1, <2>5, <3>1 DEF ReportInv
  <2> QED
    BY <1>5, <2>3, <2>4, <2>5, CoordReports
<1> QED
  BY <1>2, <1>3, <1>4, <1>5 DEF Next

-----------------------------------------------------------------------------
(* The refinement of DataSession.                                          *)

(* Every stage of the conversation is a turn of it.                        *)
TurnAt(s) ==
    CASE s \in {"input", "connect", "bind"} -> "bind"
      [] s = "trigger" -> "trigger1"
      [] s = "request" -> "request"
      [] s = "list" -> "list"
      [] s \in {"wait", "select", "select_recv"} -> "trigger2"
      [] s = "reply" -> "key"

LEMMA TurnOfStage ==
  ASSUME TalkInv, NEW c \in Coords, stage[c] \in Talks
  PROVE  Session!Turn(c) = TurnAt(stage[c])
<1> DEFINE talk == <<"bind", "trigger1", "request", "list", "trigger2", "key">>
<1>1. Session!Turn(c) = talk[Len(got[c]) + heard[c] + 1]
  BY DEF Session!Turn, Session!Conversation
<1>2. Len(<<>>) = 0 /\ Len(<<"bind">>) = 1 /\ Len(<<"bind", "request">>) = 2
  OBVIOUS
<1>3. CASE stage[c] \in {"input", "connect", "bind"}
  <2>1. got[c] = <<>> /\ heard[c] = 0
    BY <1>3 DEF TalkInv
  <2> QED
    BY <1>1, <1>2, <1>3, <2>1 DEF TurnAt
<1>4. CASE stage[c] = "trigger"
  <2>1. got[c] = <<"bind">> /\ heard[c] = 0
    BY <1>4 DEF TalkInv
  <2> QED
    BY <1>1, <1>2, <1>4, <2>1 DEF TurnAt
<1>5. CASE stage[c] = "request"
  <2>1. got[c] = <<"bind">> /\ heard[c] = 1
    BY <1>5 DEF TalkInv
  <2> QED
    BY <1>1, <1>2, <1>5, <2>1 DEF TurnAt
<1>6. CASE stage[c] = "list"
  <2>1. got[c] = <<"bind", "request">> /\ heard[c] = 1
    BY <1>6 DEF TalkInv
  <2> QED
    BY <1>1, <1>2, <1>6, <2>1 DEF TurnAt
<1>7. CASE stage[c] \in {"wait", "select", "select_recv"}
  <2>1. got[c] = <<"bind", "request">> /\ heard[c] = 2
    BY <1>7 DEF TalkInv
  <2> QED
    BY <1>1, <1>2, <1>7, <2>1 DEF TurnAt
<1>8. CASE stage[c] = "reply"
  <2>1. got[c] = <<"bind", "request">> /\ heard[c] = 3
    BY <1>8 DEF TalkInv, HeardAll
  <2> QED
    BY <1>1, <1>2, <1>8, <2>1 DEF TurnAt
<1> QED
  BY <1>3, <1>4, <1>5, <1>6, <1>7, <1>8 DEF Talks, Stages, Over

(* The session of a coordinator that talks is the one that is open.        *)
LEMMA TalksOpen ==
  ASSUME TypeOK, ReportInv, NEW c \in Coords, stage[c] \in Talks
  PROVE  Session!Talking(c) /\ SessionOpen /\ c = launched
<1>1. c = launched /\ result[c] = "none" /\ stage[c] \notin Ended
  BY DEF ReportInv, Talks, Stages, Over, Ended
<1>2. c # None
  BY BoundsAssumption DEF Coords, None
<1> QED
  BY <1>1, <1>2 DEF SessionOpen, Session!Talking

(* It stays open until the flag is cleared.                                *)
LEMMA StaysOpen ==
  ASSUME TypeOK, ReportInv, NEW c \in Coords, stage[c] \in Talks,
         launched' = launched, stage'[c] \notin Ended
  PROVE  SessionOpen' = SessionOpen
<1>1. SessionOpen /\ c = launched /\ c # None
  BY TalksOpen DEF SessionOpen
<1>2. SessionOpen'
  BY <1>1 DEF SessionOpen
<1> QED
  BY <1>1, <1>2 DEF SessionOpen

LEMMA LaunchedRange == TypeOK => launched \in Coords \/ launched = None
<1> SUFFICES ASSUME TypeOK PROVE launched \in 1..MaxCoords \/ launched = 0
  BY DEF Coords, None
<1>1. MaxCoords \in Nat /\ launched \in 0..MaxCoords
  BY BoundsAssumption DEF TypeOK
<1> QED
  BY <1>1

LEMMA SessionStutters ==
  ASSUME UNCHANGED <<started, launched, SessionOpen, said, heard, got, result>>
  PROVE  [Session!SessionNext]_(Session!sessionVars)
BY DEF Session!sessionVars

(* What a coordinator receives is checked against its turn.                *)
LEMMA ReceiveRefines ==
  ASSUME TypeOK, ReportInv, TalkInv, NEW c \in Coords, stage[c] \in Talks,
         NEW due, NEW next \in Talks, Receives(c, due, next),
         due = TurnAt(stage[c]), due \in {"trigger1", "list", "trigger2"}
  PROVE  Session!Receive(c)
<1>1. Session!Talking(c) /\ Session!Turn(c) = due
  BY TalksOpen, TurnOfStage
<1>2. /\ Len(said[c]) > heard[c] /\ heard' = [heard EXCEPT ![c] = @ + 1]
      /\ UNCHANGED <<started, launched, said, got>>
      /\ \/ said[c][heard[c] + 1] = due /\ Goto(c, next) /\ UNCHANGED result
         \/ said[c][heard[c] + 1] # due /\ Return(c, "failed")
  BY DEF Receives, launch
<1>3. stage'[c] \notin Ended
  BY <1>2 DEF Return, Goto, TypeOK, Talks, Stages, Over, Ended
<1>4. SessionOpen' = SessionOpen
  BY <1>2, <1>3, StaysOpen
<1>5. IF said[c][heard[c] + 1] = due THEN UNCHANGED result ELSE Session!Ends(c, "failed")
  BY <1>2 DEF Return, Session!Ends
<1> QED
  BY <1>1, <1>2, <1>4, <1>5 DEF Session!Receive, Session!FromServer

LEMMA CoordRefines ==
  ASSUME TypeOK, SessionInv, ReportInv, TalkInv, NEW c \in Coords, CoordStep(c) \/ SelectFails(c)
  PROVE  [Session!SessionNext]_(Session!sessionVars)
<1>0. c \in Session!Sessions
  BY DEF Session!Sessions, Coords
<1>1. ASSUME NEW s, Goto(c, s) PROVE stage'[c] = s
  BY <1>1 DEF Goto, TypeOK
<1>2. launched' = launched
  BY CoordMoves DEF Frame
<1>3. ASSUME stage[c] \in Talks, stage'[c] \notin Ended
      PROVE  SessionOpen' = SessionOpen /\ Session!Talking(c) /\ Session!Turn(c) = TurnAt(stage[c])
  BY <1>2, <1>3, StaysOpen, TalksOpen, TurnOfStage
<1>4. CASE Input(c) \/ OpenDataSocket(c) \/ StartWait(c) \/ SelectTimeout(c)
  <2>1. /\ UNCHANGED <<started, launched, said, heard, got, result>>
        /\ stage[c] \in Talks /\ stage'[c] \notin Ended
    BY <1>1, <1>4 DEF Input, OpenDataSocket, StartWait, SelectTimeout, At, launch, wire,
       Talks, Stages, Over, Ended
  <2> QED
    BY <1>3, <2>1, SessionStutters
<1>5. CASE SendBind(c) \/ SendRequest(c)
  <2>1. PICK what \in {"bind", "request"} :
           /\ Sends(c, what) /\ TurnAt(stage[c]) = what /\ UNCHANGED result
           /\ stage[c] \in Talks /\ stage'[c] \notin Ended
    BY <1>1, <1>5 DEF SendBind, SendRequest, At, TurnAt, Talks, Stages, Over, Ended
  <2>2. Session!Send(c)
    BY <1>3, <2>1 DEF Sends, launch, Session!Send, Session!FromClient
  <2> QED
    BY <1>0, <2>2 DEF Session!SessionNext
<1>6. CASE SendKey(c)
  <2>1. /\ Sends(c, "key") /\ Return(c, "ok") /\ TurnAt(stage[c]) = "key"
        /\ stage[c] \in Talks /\ stage'[c] \notin Ended
    BY <1>1, <1>6 DEF SendKey, Return, At, TurnAt, Talks, Stages, Over, Ended
  <2>2. Session!Ends(c, "ok") /\ UNCHANGED <<started, launched, said, heard>>
        /\ got' = [got EXCEPT ![c] = Append(@, "key")]
    BY <1>6, <2>1 DEF SendKey, Return, Sends, launch, Session!Ends
  <2>3. Session!Send(c)
    BY <1>3, <2>1, <2>2 DEF Session!Send, Session!FromClient
  <2> QED
    BY <1>0, <2>3 DEF Session!SessionNext
<1>7. CASE ReceiveTrigger(c) \/ ReceiveList(c) \/ SelectReceive(c)
  <2>1. \E next \in Talks : Receives(c, TurnAt(stage[c]), next)
    BY <1>7 DEF ReceiveTrigger, ReceiveList, SelectReceive, At, TurnAt, Talks, Stages, Over
  <2>2. stage[c] \in Talks /\ TurnAt(stage[c]) \in {"trigger1", "list", "trigger2"}
    BY <1>7 DEF ReceiveTrigger, ReceiveList, SelectReceive, At, TurnAt, Talks, Stages, Over
  <2>3. Session!Receive(c)
    BY <2>1, <2>2, ReceiveRefines
  <2> QED
    BY <1>0, <2>3 DEF Session!SessionNext
<1>8. CASE SelectHead(c)
  <2>1. /\ UNCHANGED <<started, launched, said, heard, got>>
        /\ stage[c] \in Talks /\ TurnAt(stage[c]) = "trigger2"
        /\ \/ \E outcome \in {"timed out", "cancelled"} : Return(c, outcome)
           \/ Goto(c, "select_recv") /\ UNCHANGED result
    BY <1>8 DEF SelectHead, At, launch, wire, TurnAt, Talks, Stages, Over
  <2>2. stage'[c] \notin Ended
    BY <1>1, <2>1 DEF Return, Ended
  <2>3. CASE Goto(c, "select_recv") /\ UNCHANGED result
    BY <1>3, <2>1, <2>2, <2>3, SessionStutters
  <2>4. CASE \E outcome \in {"timed out", "cancelled"} : Return(c, outcome)
    <3>1. Session!GiveUp(c)
      BY <1>3, <2>1, <2>2, <2>4 DEF Return, Session!GiveUp, Session!Ends
    <3> QED
      BY <1>0, <3>1 DEF Session!SessionNext
  <2> QED
    BY <2>1, <2>3, <2>4
<1>9. CASE Fails(c) \/ SelectFails(c)
  <2>1. /\ UNCHANGED <<started, launched, said, heard, got>> /\ Return(c, "failed")
        /\ stage[c] \in Talks
    BY <1>9 DEF Fails, SelectFails, At, launch, wire, Talks, Stages, Over
  <2>2. stage'[c] \notin Ended
    BY <1>1, <2>1 DEF Return, Ended
  <2>3. Session!Fail(c)
    BY <1>3, <2>1, <2>2 DEF Return, Session!Fail, Session!Ends
  <2> QED
    BY <1>0, <2>3 DEF Session!SessionNext
<1>10. CASE ClearStarted(c)
  <2>1. /\ stage[c] = "clear" /\ stage'[c] = "exit" /\ started' = FALSE
        /\ UNCHANGED <<launched, said, heard, got, result>>
    BY <1>1, <1>10 DEF ClearStarted, At, wire
  <2>2. c = launched /\ result[c] # "none" /\ c # None
    BY <2>1, BoundsAssumption DEF ReportInv, Over, Ended, Coords, None
  <2>3. SessionOpen /\ SessionOpen' = FALSE
    BY <2>1, <2>2 DEF SessionOpen, Ended
  <2>4. Session!Close
    BY <2>1, <2>2, <2>3 DEF Session!Close
  <2> QED
    BY <2>4 DEF Session!SessionNext
<1>11. CASE Exit(c)
  <2>1. /\ UNCHANGED <<started, launched, said, heard, got, result>>
        /\ stage[c] = "exit" /\ stage'[c] = "exited"
        /\ \A d \in Coords : d # c => stage'[d] = stage[d]
    BY <1>11 DEF Exit, At, Goto, launch, wire, TypeOK
  <2>2. launched \in Coords \/ launched = None
    BY LaunchedRange
  <2>3. SessionOpen' = SessionOpen
    BY <2>1, <2>2 DEF SessionOpen, Ended
  <2> QED
    BY <2>1, <2>3, SessionStutters
<1> QED
  BY <1>4, <1>5, <1>6, <1>7, <1>8, <1>9, <1>10, <1>11 DEF CoordStep

LEMMA ServerRefines ==
  ASSUME TypeOK, SizeInv, ReportInv, NEW c \in Coords, ServerBehaves(c) \/ ServerMisbehaves(c)
  PROVE  [Session!SessionNext]_(Session!sessionVars)
<1>1. PICK what \in Session!FromServer : Say(c, what)
  BY DEF ServerBehaves, ServerMisbehaves, Session!FromServer
<1>2. stage[c] \in Talks /\ Len(said[c]) < 3
  BY ServerSays DEF TypeOK, Talks, Stages, Over
<1>3. /\ UNCHANGED <<started, launched, stage, heard, got, result>>
      /\ said' = [said EXCEPT ![c] = Append(@, what)]
  BY <1>1 DEF Say, launch, thread
<1>4. SessionOpen' = SessionOpen
  BY <1>3 DEF SessionOpen
<1>5. Session!Speak(c)
  BY <1>1, <1>2, <1>3, <1>4, TalksOpen DEF Session!Speak
<1>6. c \in Session!Sessions
  BY DEF Session!Sessions, Coords
<1> QED
  BY <1>5, <1>6 DEF Session!SessionNext

LEMMA GuestRefines ==
  ASSUME TypeOK, SessionInv, NEW g \in Guests, GuestStep(g)
  PROVE  [Session!SessionNext]_(Session!sessionVars)
<1>1. UNCHANGED <<said, heard, got>>
  BY GuestQuiet
<1>2. CASE ConnectView(g)
  <2>1. UNCHANGED <<stage, launched, result>> /\ started' = TRUE
    BY <1>2 DEF ConnectView, thread
  <2>2. SessionOpen' = SessionOpen
    BY <2>1 DEF SessionOpen
  <2>3. CASE started
    <3>1. started' = started
      BY <2>1, <2>3 DEF TypeOK
    <3> QED
      BY <1>1, <2>1, <2>2, <3>1, SessionStutters
  <2>4. CASE ~started
    <3>1. Session!Reserve
      BY <1>1, <2>1, <2>2, <2>4 DEF Session!Reserve
    <3> QED
      BY <3>1 DEF Session!SessionNext
  <2> QED
    BY <2>3, <2>4
<1>3. CASE Construct(g)
  <2> DEFINE n == launched + 1
  <2>1. guestPc[g] = "construct" /\ n \in Coords /\ launched < MaxCoords
    BY <1>3, NextUnborn DEF Construct, SessionInv
  <2>2. launched' = n /\ stage'[n] = "input" /\ UNCHANGED <<started, result>>
    BY <1>3, <2>1 DEF Construct, TypeOK
  <2>3. started /\ ~SessionOpen
    <3>1. started /\ \A c \in Coords : stage[c] \in Ended
      BY <2>1 DEF SessionInv
    <3>2. launched \in Coords \/ launched = None
      BY LaunchedRange
    <3> QED
      BY <3>1, <3>2 DEF SessionOpen
  <2>4. SessionOpen' = TRUE
    <3>1. n # None
      BY <2>1 DEF Coords, None
    <3> HIDE DEF n
    <3> QED
      BY <2>2, <3>1 DEF SessionOpen, Ended
  <2>5. Session!Begin
    BY <1>1, <2>1, <2>2, <2>3, <2>4 DEF Session!Begin
  <2> QED
    BY <2>5 DEF Session!SessionNext
<1>4. CASE AssignStop(g) \/ AssignJoin(g) \/ AssignMove(g) \/ AssignTerminates(g)
  <2>1. UNCHANGED <<started, launched, stage, result>>
    BY <1>4 DEF AssignStop, AssignJoin, AssignMove, AssignTerminates, launch, thread
  <2>2. SessionOpen' = SessionOpen
    BY <2>1 DEF SessionOpen
  <2> QED
    BY <1>1, <2>1, <2>2, SessionStutters
<1> QED
  BY <1>2, <1>3, <1>4 DEF GuestStep

LEMMA SessionRefines ==
  ASSUME IInv, [Next]_vars
  PROVE  [Session!SessionNext]_(Session!sessionVars)
<1>1. CASE Shutdown \/ Join \/ UNCHANGED vars
  <2>1. UNCHANGED <<started, launched, stage, said, heard, got, result>>
    BY <1>1 DEF Shutdown, Join, vars, launch, thread, wire
  <2>2. SessionOpen' = SessionOpen
    BY <2>1 DEF SessionOpen
  <2> QED
    BY <2>1, <2>2, SessionStutters
<1> QED
  BY <1>1, GuestRefines, ServerRefines, CoordRefines DEF Next, IInv

-----------------------------------------------------------------------------
(* The results.                                                            *)

THEOREM Invariance == Spec => []IInv
<1>1. IInv /\ [Next]_vars => IInv'
  <2> SUFFICES ASSUME IInv, [Next]_vars PROVE IInv'
    OBVIOUS
  <2>1. SizeInv' /\ SessionInv' /\ ReportInv' /\ TalkInv' /\ LateInv'
    BY SizeStep, SessionStep, ReportStep, TalkStep, LateStep DEF IInv
  <2>2. TypeOK'
    BY <2>1, TypeStep DEF IInv
  <2>3. raced' \/ AloneInv'
    BY AloneStep, RaceStays DEF IInv
  <2> QED
    BY <2>1, <2>2, <2>3 DEF IInv
<1> QED
  BY InitIInv, <1>1, PTL DEF Spec

(* The types of the threads, of their tokens and of the data connections.  *)
THEOREM TypeCorrect == Spec => []TypeOK
<1>1. IInv => TypeOK
  BY DEF IInv
<1> QED
  BY Invariance, <1>1, PTL

(* However the guest's threads overlap, one session is open at a time.     *)
THEOREM OneSession == Spec => []SingleSession
<1>1. IInv => SingleSession
  <2> SUFFICES ASSUME IInv PROVE SingleSession
    OBVIOUS
  <2>1. \A c, d \in Live : c = d
    BY DEF IInv, SessionInv, Live
  <2>2. CASE Live = {}
    BY <2>2, FS_EmptySet DEF SingleSession
  <2>3. CASE Live # {}
    <3>1. PICK c \in Live : TRUE
      BY <2>3
    <3>2. Live = {c}
      BY <2>1, <3>1
    <3> QED
      BY <3>2, FS_Singleton DEF SingleSession
  <2> QED
    BY <2>2, <2>3
<1> QED
  BY Invariance, <1>1, PTL

(* The flag is up only while a coordinator is under way or being launched. *)
THEOREM FlagFollowsSession == Spec => []FlagNeverSticks
<1>1. IInv => FlagNeverSticks
  BY DEF IInv, SessionInv, FlagNeverSticks, Live, Unlaunched
<1> QED
  BY Invariance, <1>1, PTL

(* Whatever the server says, the key goes out only after the selection.    *)
THEOREM KeyAfterSelection == Spec => []KeyOnlyAfterSelection
<1>1. IInv => KeyOnlyAfterSelection
  <2> SUFFICES ASSUME IInv, NEW c \in Coords, got[c] = <<"bind", "request", "key">> PROVE HeardAll(c)
    BY DEF KeyOnlyAfterSelection, HeardAll
  <2>1. stage[c] \in Stages
    BY DEF IInv, TypeOK, Stages
  <2>2. /\ <<"bind">> # <<"bind", "request", "key">>
        /\ <<"bind", "request">> # <<"bind", "request", "key">>
        /\ <<>> # <<"bind", "request", "key">>
    OBVIOUS
  <2> QED
    BY <2>1, <2>2 DEF IInv, TalkInv, Stages
<1> QED
  BY Invariance, <1>1, PTL

(* Only the shutdown cancels a selection, unless two launches overlap.     *)
THEOREM CancelledByShutdown == Spec => []CancelledOnlyByShutdown
<1>1. IInv => CancelledOnlyByShutdown
  BY DEF IInv, AloneInv, CancelledOnlyByShutdown
<1> QED
  BY Invariance, <1>1, PTL

(* No coordinator outlives the bridge, unless two launches overlap.        *)
THEOREM NoneLeft == Spec => []NoOrphan
<1>1. IInv => NoOrphan
  BY DEF IInv, AloneInv, NoOrphan
<1> QED
  BY Invariance, <1>1, PTL

(* At most one poll ends after a coordinator was told to stop.             *)
THEOREM StopSeen == Spec => []StopSeenWithinOnePoll
<1>1. IInv => StopSeenWithinOnePoll
  BY DEF IInv, LateInv, StopSeenWithinOnePoll
<1> QED
  BY Invariance, <1>1, PTL

(* With its threads, polls and stop tokens the coordination is one session *)
(* after another, each of which keeps to the conversation.                 *)
THEOREM SessionRefined == Spec => ImplementsSession
<1>1. Init => Session!SessionInit
  BY DEF Init, SessionOpen, None, Session!SessionInit, Session!Sessions, Coords
<1>2. IInv /\ [Next]_vars => [Session!SessionNext]_(Session!sessionVars)
  BY SessionRefines
<1> QED
  BY <1>1, <1>2, Invariance, PTL DEF Spec, ImplementsSession, Session!SessionSpec

=============================================================================
