------------------------ MODULE ViewBootstrapProofs -------------------------
(***************************************************************************)
(* Proofs about ViewBootstrap, for any number of guest threads, view       *)
(* connections and peeks: the one-time packet and what its outcome means.  *)
(***************************************************************************)
EXTENDS ViewBootstrap, FiniteSetTheorems, SequenceTheorems, TLAPS

Messages == {"login", "zeros", "guest login"}

(* The packet has gone out complete.                                       *)
Sent == \E c \in Conns : \E i \in 1..Len(wrote[c]) : wrote[c][i] = "login"

(* Between its claim and the packet's end a thread is alone.               *)
Claimed == {"send", "wipe", "unclaim"}

AttemptInv == \A t \in Threads : pc[t] = "peek" => attempt[t] < MaxAttempts

ClaimInv ==
    /\ \A t, u \in Threads : pc[t] \in Claimed /\ pc[u] \in Claimed => t = u
    /\ \A t \in Threads : pc[t] \in Claimed => requestSent
    /\ \A t \in Threads : pc[t] = "wipe" => Sent
    /\ packet = "zeros" => Sent
    /\ Sent => requestSent /\ \A t \in Threads : pc[t] \notin {"send", "unclaim"}

(* What the server has got: the array never wiped, the login once.         *)
NoZeros == \A c \in Conns : \A i \in 1..Len(wrote[c]) : wrote[c][i] # "zeros"

OneLogin ==
    \A c, d \in Conns : \A i \in 1..Len(wrote[c]), j \in 1..Len(wrote[d]) :
        wrote[c][i] = "login" /\ wrote[d][j] = "login" => c = d /\ i = j

(* The guest's login on the first connection is always swallowed.          *)
FirstInv ==
    /\ open \subseteq {conn}
    /\ guestSent \subseteq 1..conn
    /\ pendingLogin \/ guestSent # {}
    /\ \A i \in 1..Len(wrote[1]) : wrote[1][i] = "login"

Answered == \E c \in Conns : inbox[c] \in {"response", "taken"}

AnswerInv == ready \/ (\E t \in Threads : pc[t] = "set_ready") => Answered

(* A failure is reported, or about to be.                                  *)
Reported == failed \/ \E u \in Threads : pc[u] = "fail"

OutcomeInv ==
    \A t \in Threads :
        /\ pc[t] = "receive" => ready \/ Reported
        /\ pc[t] = "sent?" => requestSent \/ Reported

IInv == TypeOK /\ AttemptInv /\ ClaimInv /\ NoZeros /\ OneLogin /\ FirstInv /\ AnswerInv /\ OutcomeInv

-----------------------------------------------------------------------------
(* The steps by what they leave alone.                                     *)

LEMMA Frames ==
  ASSUME TypeOK, NEW t \in Threads, Enter(t) \/ HookStep(t)
  PROVE  /\ \A u \in Threads : u # t => /\ pc'[u] = pc[u] /\ socket'[u] = socket[u]
                                        /\ attempt'[u] = attempt[u]
         /\ UNCHANGED <<conn, open, guestSent, pendingLogin>>
BY DEF HookStep, Enter, CheckFailed, Claim, Send, SendFails, Wipe, Unclaim, Fail, CheckSent,
   PeekResponse, PeekClosed, PeekNothing, SetReady, GiveUp, Receive, Goto, flags, hook, net, TypeOK

(* A message that goes out is the last one of its connection.              *)
LEMMA Appended ==
  ASSUME TypeOK, NEW c \in Conns, NEW p, wrote' = [wrote EXCEPT ![c] = Append(@, p)]
  PROVE  /\ \A d \in Conns : d # c => wrote'[d] = wrote[d]
         /\ Len(wrote'[c]) = Len(wrote[c]) + 1 /\ Len(wrote[c]) \in Nat
         /\ \A i \in 1..Len(wrote[c]) : wrote'[c][i] = wrote[c][i]
         /\ wrote'[c][Len(wrote[c]) + 1] = p
         /\ \A d \in Conns : \A i \in 1..Len(wrote[d]) :
               i \in 1..Len(wrote'[d]) /\ wrote'[d][i] = wrote[d][i]
         /\ \A d \in Conns : \A i \in 1..Len(wrote'[d]) :
               \/ d = c /\ i = Len(wrote[c]) + 1
               \/ i \in 1..Len(wrote[d]) /\ wrote'[d][i] = wrote[d][i]
<1>1. wrote[c] \in Seq(Messages)
  BY DEF TypeOK, Messages
<1>2. wrote'[c] = Append(wrote[c], p) /\ \A d \in Conns : d # c => wrote'[d] = wrote[d]
  BY DEF TypeOK
<1>3. /\ Len(wrote'[c]) = Len(wrote[c]) + 1 /\ Len(wrote[c]) \in Nat
      /\ \A i \in 1..Len(wrote[c]) : wrote'[c][i] = wrote[c][i]
      /\ wrote'[c][Len(wrote[c]) + 1] = p
  BY <1>1, <1>2
<1>4. ASSUME NEW d \in Conns, NEW i \in 1..Len(wrote[d])
      PROVE  i \in 1..Len(wrote'[d]) /\ wrote'[d][i] = wrote[d][i]
  <2>1. CASE d # c
    BY <1>2, <2>1
  <2>2. CASE d = c
    BY <1>3, <2>2
  <2> QED
    BY <2>1, <2>2
<1>5. ASSUME NEW d \in Conns, NEW i \in 1..Len(wrote'[d])
      PROVE  \/ d = c /\ i = Len(wrote[c]) + 1
             \/ i \in 1..Len(wrote[d]) /\ wrote'[d][i] = wrote[d][i]
  <2>1. CASE d # c
    BY <1>2, <2>1
  <2>2. CASE d = c
    <3>1. i \in 1..(Len(wrote[c]) + 1)
      BY <1>3, <2>2
    <3>2. i = Len(wrote[c]) + 1 \/ i \in 1..Len(wrote[c])
      BY <1>3, <3>1
    <3> QED
      BY <1>3, <2>2, <3>2
  <2> QED
    BY <2>1, <2>2
<1> QED
  BY <1>2, <1>3, <1>4, <1>5

LEMMA AppendType ==
  ASSUME NEW q \in Seq({"login", "zeros", "guest login"}), NEW p \in {"login", "zeros", "guest login"}
  PROVE  Append(q, p) \in Seq({"login", "zeros", "guest login"})
BY AppendProperties

-----------------------------------------------------------------------------
(* The start, and types.                                                   *)

LEMMA InitIInv == Init => IInv
<1> SUFFICES ASSUME Init PROVE IInv
  OBVIOUS
<1>1. 1 \in Conns /\ 0 \in 0..MaxConns /\ 0 \in 0..MaxAttempts
  BY BootstrapAssumption DEF Conns
<1>2. TypeOK
  <2>1. wrote \in [Conns -> Seq({"login", "zeros", "guest login"})]
    BY DEF Init
  <2> QED
    BY <1>1, <2>1 DEF Init, TypeOK, Steps
<1>3. \A c \in Conns : Len(wrote[c]) = 0
  BY DEF Init
<1>4. ~Sent /\ NoZeros /\ OneLogin
  BY <1>3 DEF Sent, NoZeros, OneLogin
<1>5. AttemptInv /\ ClaimInv /\ AnswerInv /\ OutcomeInv
  BY <1>4 DEF Init, AttemptInv, ClaimInv, Claimed, AnswerInv, OutcomeInv
<1>6. FirstInv
  BY <1>1, <1>3 DEF Init, FirstInv
<1> QED
  BY <1>2, <1>4, <1>5, <1>6 DEF IInv

LEMMA TypeStep == TypeOK /\ AttemptInv /\ [Next]_vars => TypeOK' /\ AttemptInv'
<1> SUFFICES ASSUME TypeOK, AttemptInv, [Next]_vars PROVE TypeOK' /\ AttemptInv'
  OBVIOUS
<1>1. CASE Connect
  <2>1. conn \in 0..MaxConns /\ conn < MaxConns /\ MaxConns \in Nat
    BY <1>1, BootstrapAssumption DEF Connect, TypeOK
  <2>0. conn + 1 \in 0..MaxConns /\ conn + 1 \in Conns
    BY <2>1 DEF Conns
  <2>2. conn' \in 0..MaxConns /\ open' \in SUBSET Conns
    BY <1>1, <2>0 DEF Connect
  <2> QED
    BY <1>1, <2>2 DEF Connect, TypeOK, AttemptInv, flags, hook
<1>2. CASE Close
  BY <1>2 DEF Close, TypeOK, AttemptInv, flags, hook
<1>3. ASSUME NEW c \in Conns, ServerAnswers(c) PROVE TypeOK' /\ AttemptInv'
  <2>1. inbox' \in [Conns -> {"empty", "partial", "response", "taken"}]
    BY <1>3 DEF ServerAnswers, TypeOK
  <2> QED
    BY <1>3, <2>1 DEF ServerAnswers, TypeOK, AttemptInv, flags, hook
<1>4. ASSUME NEW c \in Conns, GuestSendsLogin(c) PROVE TypeOK' /\ AttemptInv'
  <2>1. wrote' \in [Conns -> Seq({"login", "zeros", "guest login"})]
    <3>1. Append(wrote[c], "guest login") \in Seq({"login", "zeros", "guest login"})
      BY AppendType DEF TypeOK
    <3> QED
      BY <1>4, <3>1 DEF GuestSendsLogin, TypeOK
  <2>2. guestSent' \in SUBSET Conns
    BY <1>4 DEF GuestSendsLogin, TypeOK
  <2> QED
    BY <1>4, <2>1, <2>2 DEF GuestSendsLogin, TypeOK, AttemptInv, flags, hook
<1>5. ASSUME NEW t \in Threads, Enter(t) \/ HookStep(t) PROVE TypeOK' /\ AttemptInv'
  <2>1. ASSUME NEW next \in Steps, Goto(t, next) PROVE pc' \in [Threads -> Steps] /\ pc'[t] = next
    BY <2>1 DEF Goto, TypeOK
  <2>2. /\ \A u \in Threads : u # t => pc'[u] = pc[u] /\ attempt'[u] = attempt[u]
        /\ UNCHANGED <<conn, open, guestSent, pendingLogin>>
    BY <1>5, Frames
  <2>3. \A u \in Threads : u # t => (pc'[u] = "peek" => attempt'[u] < MaxAttempts)
    BY <2>2 DEF AttemptInv
  <2>4. CASE Enter(t)
    <3>1. socket' \in [Threads -> Conns]
      BY <2>4 DEF Enter, TypeOK
    <3>2. pc' \in [Threads -> Steps] /\ pc'[t] # "peek"
      BY <2>1, <2>4 DEF Enter, Steps
    <3> QED
      BY <2>3, <2>4, <3>1, <3>2 DEF Enter, TypeOK, AttemptInv, flags, net
  <2>5. CASE CheckFailed(t)
    <3>1. pc' \in [Threads -> Steps] /\ pc'[t] # "peek"
      BY <2>1, <2>5 DEF CheckFailed, Steps
    <3> QED
      BY <2>3, <2>5, <3>1 DEF CheckFailed, TypeOK, AttemptInv, flags, net
  <2>6. CASE Claim(t)
    <3>1. pc' \in [Threads -> Steps] /\ pc'[t] # "peek"
      BY <2>1, <2>6 DEF Claim, Steps
    <3> QED
      BY <2>3, <2>6, <3>1 DEF Claim, TypeOK, AttemptInv, net
  <2>7. CASE Send(t)
    <3>1. pc' \in [Threads -> Steps] /\ pc'[t] # "peek"
      BY <2>1, <2>7 DEF Send, Steps
    <3>2. Append(wrote[socket[t]], packet) \in Seq({"login", "zeros", "guest login"})
      BY AppendType DEF TypeOK
    <3>3. wrote' \in [Conns -> Seq({"login", "zeros", "guest login"})]
      BY <2>7, <3>2 DEF Send, TypeOK
    <3> QED
      BY <2>3, <2>7, <3>1, <3>3 DEF Send, TypeOK, AttemptInv, flags
  <2>8. CASE SendFails(t)
    <3>1. pc' \in [Threads -> Steps] /\ pc'[t] # "peek"
      BY <2>1, <2>8 DEF SendFails, Steps
    <3>2. torn' = torn \/ torn' = torn \cup {socket[t]}
      BY <2>8 DEF SendFails
    <3>3. socket[t] \in Conns /\ torn \in SUBSET Conns
      BY DEF TypeOK
    <3>4. torn' \in SUBSET Conns
      BY <3>2, <3>3
    <3> QED
      BY <2>3, <2>8, <3>1, <3>4 DEF SendFails, TypeOK, AttemptInv, flags
  <2>9. CASE Wipe(t)
    <3>1. pc' \in [Threads -> Steps] /\ pc'[t] # "peek"
      BY <2>1, <2>9 DEF Wipe, Steps
    <3> QED
      BY <2>3, <2>9, <3>1 DEF Wipe, TypeOK, AttemptInv, flags, net
  <2>10. CASE Unclaim(t)
    <3>1. pc' \in [Threads -> Steps] /\ pc'[t] # "peek"
      BY <2>1, <2>10 DEF Unclaim, Steps
    <3> QED
      BY <2>3, <2>10, <3>1 DEF Unclaim, TypeOK, AttemptInv, net
  <2>11. CASE Fail(t)
    <3>1. pc' \in [Threads -> Steps] /\ pc'[t] # "peek"
      BY <2>1, <2>11 DEF Fail, Steps
    <3> QED
      BY <2>3, <2>11, <3>1 DEF Fail, TypeOK, AttemptInv, net
  <2>12. CASE CheckSent(t)
    <3>1. pc' \in [Threads -> Steps]
      BY <2>1, <2>12 DEF CheckSent, Steps
    <3>0. 0 \in 0..MaxAttempts /\ 0 < MaxAttempts
      BY BootstrapAssumption
    <3>2. attempt' \in [Threads -> 0..MaxAttempts] /\ attempt'[t] = 0 /\ 0 < MaxAttempts
      BY <2>12, <3>0 DEF CheckSent, TypeOK
    <3> QED
      BY <2>3, <2>12, <3>1, <3>2 DEF CheckSent, TypeOK, AttemptInv, flags, net
  <2>13. CASE PeekResponse(t)
    <3>1. pc' \in [Threads -> Steps] /\ pc'[t] # "peek"
      BY <2>1, <2>13 DEF PeekResponse, Steps
    <3> QED
      BY <2>3, <2>13, <3>1 DEF PeekResponse, TypeOK, AttemptInv, flags, net
  <2>14. CASE PeekClosed(t)
    <3>1. pc' \in [Threads -> Steps] /\ pc'[t] # "peek"
      BY <2>1, <2>14 DEF PeekClosed, Steps
    <3> QED
      BY <2>3, <2>14, <3>1 DEF PeekClosed, TypeOK, AttemptInv, flags, net
  <2>15. CASE PeekNothing(t)
    <3>1. attempt[t] \in 0..MaxAttempts /\ attempt[t] < MaxAttempts /\ MaxAttempts \in Nat
      BY <2>15, BootstrapAssumption DEF PeekNothing, At, TypeOK, AttemptInv
    <3>2. attempt[t] + 1 \in 0..MaxAttempts
      BY <3>1
    <3>3. attempt' \in [Threads -> 0..MaxAttempts] /\ attempt'[t] = attempt[t] + 1
      BY <2>15, <3>2 DEF PeekNothing, TypeOK
    <3>4. CASE attempt[t] + 1 = MaxAttempts
      <4>1. pc' \in [Threads -> Steps] /\ pc'[t] # "peek"
        BY <2>1, <2>15, <3>4 DEF PeekNothing, Steps
      <4> QED
        BY <2>3, <2>15, <3>3, <4>1 DEF PeekNothing, TypeOK, AttemptInv, flags, net
    <3>5. CASE attempt[t] + 1 # MaxAttempts
      <4>1. attempt'[t] < MaxAttempts
        BY <3>1, <3>3, <3>5
      <4> QED
        BY <2>3, <2>15, <3>3, <3>5, <4>1 DEF PeekNothing, TypeOK, AttemptInv, flags, net
    <3> QED
      BY <3>4, <3>5
  <2>16. CASE SetReady(t)
    <3>1. pc' \in [Threads -> Steps] /\ pc'[t] # "peek"
      BY <2>1, <2>16 DEF SetReady, Steps
    <3> QED
      BY <2>3, <2>16, <3>1 DEF SetReady, TypeOK, AttemptInv, net
  <2>17. CASE GiveUp(t)
    <3>1. pc' \in [Threads -> Steps] /\ pc'[t] # "peek"
      BY <2>1, <2>17 DEF GiveUp, Steps
    <3> QED
      BY <2>3, <2>17, <3>1 DEF GiveUp, TypeOK, AttemptInv, net
  <2>18. CASE Receive(t)
    <3>1. pc' \in [Threads -> Steps] /\ pc'[t] # "peek"
      BY <2>1, <2>18 DEF Receive, Steps
    <3>0. 0 \in 0..MaxAttempts
      BY BootstrapAssumption
    <3>2. attempt' \in [Threads -> 0..MaxAttempts]
      BY <2>18, <3>0 DEF Receive, TypeOK
    <3>3. inbox' \in [Conns -> {"empty", "partial", "response", "taken"}]
      BY <2>18 DEF Receive, TypeOK
    <3> QED
      BY <2>3, <2>18, <3>1, <3>2, <3>3 DEF Receive, TypeOK, AttemptInv, flags
  <2> QED
    BY <1>5, <2>4, <2>5, <2>6, <2>7, <2>8, <2>9, <2>10, <2>11, <2>12, <2>13, <2>14, <2>15, <2>16,
       <2>17, <2>18 DEF HookStep
<1>6. CASE UNCHANGED vars
  BY <1>6 DEF vars, flags, hook, net, TypeOK, AttemptInv
<1> QED
  BY <1>1, <1>2, <1>3, <1>4, <1>5, <1>6 DEF Next

-----------------------------------------------------------------------------
(* The claim and the packet.                                               *)

(* Nothing is sent, and nobody gets past a claim or back to one.           *)
LEMMA ClaimKept ==
  ASSUME TypeOK, ClaimInv, NoZeros, OneLogin, NEW t \in Threads,
         \A u \in Threads : u # t => pc'[u] = pc[u],
         wrote' = wrote, requestSent' = requestSent, packet' = packet, pc'[t] \notin Claimed
  PROVE  ClaimInv' /\ NoZeros' /\ OneLogin'
<1>1. Sent' <=> Sent
  BY DEF Sent
<1>2. NoZeros' /\ OneLogin'
  BY DEF NoZeros, OneLogin
<1>3. pc'[t] \notin {"send", "wipe", "unclaim"}
  BY DEF Claimed
<1> QED
  BY <1>1, <1>2, <1>3 DEF ClaimInv, Claimed

LEMMA ClaimStep ==
  ASSUME TypeOK, ClaimInv, NoZeros, OneLogin, [Next]_vars
  PROVE  ClaimInv' /\ NoZeros' /\ OneLogin'
<1>1. ASSUME UNCHANGED <<wrote, requestSent, packet, pc>> PROVE ClaimInv' /\ NoZeros' /\ OneLogin'
  BY <1>1 DEF ClaimInv, NoZeros, OneLogin, Sent
<1>2. CASE Connect \/ Close \/ UNCHANGED vars
  BY <1>1, <1>2 DEF Connect, Close, vars, flags, hook, net
<1>3. ASSUME NEW c \in Conns, ServerAnswers(c) PROVE ClaimInv' /\ NoZeros' /\ OneLogin'
  BY <1>1, <1>3 DEF ServerAnswers, flags, hook
<1>4. ASSUME NEW c \in Conns, GuestSendsLogin(c) PROVE ClaimInv' /\ NoZeros' /\ OneLogin'
  <2>1. UNCHANGED <<requestSent, packet, pc>>
    BY <1>4 DEF GuestSendsLogin, flags, hook
  <2>2. CASE wrote' = wrote
    BY <1>1, <2>1, <2>2
  <2>3. CASE wrote' = [wrote EXCEPT ![c] = Append(@, "guest login")]
    <3>1. /\ \A d \in Conns : \A i \in 1..Len(wrote[d]) :
                i \in 1..Len(wrote'[d]) /\ wrote'[d][i] = wrote[d][i]
          /\ wrote'[c][Len(wrote[c]) + 1] = "guest login"
          /\ \A d \in Conns : \A i \in 1..Len(wrote'[d]) :
                \/ d = c /\ i = Len(wrote[c]) + 1
                \/ i \in 1..Len(wrote[d]) /\ wrote'[d][i] = wrote[d][i]
      BY <2>3, Appended
    <3>2. \A d \in Conns : \A i \in 1..Len(wrote'[d]) :
             \/ wrote'[d][i] = "guest login"
             \/ i \in 1..Len(wrote[d]) /\ wrote'[d][i] = wrote[d][i]
      BY <3>1
    <3>3. NoZeros'
      BY <3>2, Zenon DEF NoZeros
    <3>4. OneLogin'
      <4> SUFFICES ASSUME NEW d \in Conns, NEW e \in Conns,
                          NEW i \in 1..Len(wrote'[d]), NEW j \in 1..Len(wrote'[e]),
                          wrote'[d][i] = "login", wrote'[e][j] = "login"
                   PROVE  d = e /\ i = j
        BY Zenon DEF OneLogin
      <4>1. i \in 1..Len(wrote[d]) /\ wrote[d][i] = "login"
        BY <3>2
      <4>2. j \in 1..Len(wrote[e]) /\ wrote[e][j] = "login"
        BY <3>2
      <4> QED
        BY <4>1, <4>2, Zenon DEF OneLogin
    <3>5. Sent => Sent'
      BY <3>1, Zenon DEF Sent
    <3>6. Sent' => Sent
      BY <3>2 DEF Sent
    <3> QED
      BY <2>1, <3>3, <3>4, <3>5, <3>6 DEF ClaimInv
  <2> QED
    BY <1>4, <2>2, <2>3 DEF GuestSendsLogin
<1>5. ASSUME NEW t \in Threads, Enter(t) \/ HookStep(t) PROVE ClaimInv' /\ NoZeros' /\ OneLogin'
  <2>1. \A u \in Threads : u # t => pc'[u] = pc[u]
    BY <1>5, Frames
  <2>2. CASE \/ Enter(t) \/ CheckFailed(t) \/ Fail(t) \/ CheckSent(t) \/ PeekResponse(t)
             \/ PeekClosed(t) \/ PeekNothing(t) \/ SetReady(t) \/ GiveUp(t) \/ Receive(t)
    <3>1. UNCHANGED <<wrote, requestSent, packet>> /\ pc'[t] \notin Claimed
      BY <2>2 DEF Enter, CheckFailed, Fail, CheckSent, PeekResponse, PeekClosed, PeekNothing,
         SetReady, GiveUp, Receive, Goto, At, Claimed, TypeOK, flags, net
    <3> QED
      BY <2>1, <3>1, ClaimKept
  <2>3. CASE Claim(t)
    <3>1. /\ UNCHANGED <<wrote, packet>> /\ requestSent' = TRUE
          /\ pc'[t] = IF requestSent THEN "sent?" ELSE "send"
      BY <2>3 DEF Claim, Goto, TypeOK, net
    <3>2. CASE requestSent
      <4>1. pc'[t] \notin Claimed
        BY <3>1, <3>2 DEF Claimed
      <4> QED
        BY <2>1, <3>1, <3>2, <4>1, ClaimKept
    <3>3. CASE ~requestSent
      <4>1. /\ \A u \in Threads : pc[u] \notin Claimed
            /\ ~Sent /\ packet # "zeros" /\ pc'[t] = "send"
        BY <3>1, <3>3 DEF ClaimInv
      <4>2. ~Sent' /\ NoZeros' /\ OneLogin'
        BY <3>1, <4>1 DEF Sent, NoZeros, OneLogin
      <4> QED
        BY <2>1, <3>1, <4>1, <4>2 DEF ClaimInv, Claimed
    <3> QED
      BY <3>2, <3>3
  <2>4. CASE Send(t)
    <3>0. /\ socket[t] \in Conns /\ pc[t] = "send" /\ pc'[t] = "wipe"
          /\ UNCHANGED <<requestSent, packet>>
          /\ wrote' = [wrote EXCEPT ![socket[t]] = Append(@, packet)]
      BY <2>4 DEF Send, At, Goto, TypeOK, flags
    <3>1. ~Sent /\ packet = "login" /\ requestSent /\ \A u \in Threads : u # t => pc[u] \notin Claimed
      BY <3>0 DEF ClaimInv, Claimed, TypeOK
    <3> DEFINE c == socket[t]
               n == Len(wrote[c]) + 1
    <3>2. /\ \A d \in Conns : d # c => wrote'[d] = wrote[d]
          /\ Len(wrote'[c]) = n /\ Len(wrote[c]) \in Nat
          /\ \A i \in 1..Len(wrote[c]) : wrote'[c][i] = wrote[c][i]
          /\ wrote'[c][n] = "login"
      BY <3>0, <3>1, Appended
    <3>3. \A d \in Conns : \A i \in 1..Len(wrote'[d]) :
             \/ d = c /\ i = n
             \/ i \in 1..Len(wrote[d]) /\ wrote'[d][i] = wrote[d][i]
      BY <3>2
    <3>4. \A d \in Conns : \A i \in 1..Len(wrote[d]) : wrote[d][i] # "login"
      BY <3>1 DEF Sent
    <3>5. OneLogin'
      BY <3>3, <3>4 DEF OneLogin
    <3>6. NoZeros'
      BY <3>2, <3>3 DEF NoZeros
    <3>7. Sent'
      BY <3>0, <3>2 DEF Sent
    <3> QED
      BY <2>1, <3>0, <3>1, <3>5, <3>6, <3>7 DEF ClaimInv, Claimed
  <2>5. CASE SendFails(t)
    <3>1. /\ UNCHANGED <<wrote, requestSent, packet>> /\ pc[t] = "send" /\ pc'[t] = "unclaim"
      BY <2>5 DEF SendFails, At, Goto, TypeOK, flags
    <3>2. (Sent' <=> Sent) /\ NoZeros' /\ OneLogin'
      BY <3>1 DEF Sent, NoZeros, OneLogin
    <3> QED
      BY <2>1, <3>1, <3>2 DEF ClaimInv, Claimed
  <2>6. CASE Wipe(t)
    <3>1. UNCHANGED <<wrote, requestSent>> /\ pc[t] = "wipe" /\ pc'[t] = "sent?"
      BY <2>6 DEF Wipe, At, Goto, TypeOK, flags, net
    <3>2. (Sent' <=> Sent) /\ NoZeros' /\ OneLogin'
      BY <3>1 DEF Sent, NoZeros, OneLogin
    <3> QED
      BY <2>1, <3>1, <3>2 DEF ClaimInv, Claimed
  <2>7. CASE Unclaim(t)
    <3>1. UNCHANGED <<wrote, packet>> /\ pc[t] = "unclaim" /\ pc'[t] = "fail"
      BY <2>7 DEF Unclaim, At, Goto, TypeOK, net
    <3>2. (Sent' <=> Sent) /\ NoZeros' /\ OneLogin'
      BY <3>1 DEF Sent, NoZeros, OneLogin
    <3>3. ~Sent /\ \A u \in Threads : u # t => pc[u] \notin Claimed
      BY <3>1 DEF ClaimInv, Claimed
    <3> QED
      BY <2>1, <3>1, <3>2, <3>3 DEF ClaimInv, Claimed
  <2> QED
    BY <1>5, <2>2, <2>3, <2>4, <2>5, <2>6, <2>7 DEF HookStep
<1> QED
  BY <1>2, <1>3, <1>4, <1>5 DEF Next

-----------------------------------------------------------------------------
(* The first connection, the answer and the outcome.                       *)

LEMMA FirstStep ==
  ASSUME TypeOK, ClaimInv, FirstInv, [Next]_vars
  PROVE  FirstInv'
<1>0. conn \in Nat /\ 1 \in Conns /\ MaxConns \in Nat
  <2>1. conn \in 0..MaxConns /\ MaxConns \in Nat \ {0}
    BY BootstrapAssumption DEF TypeOK
  <2> QED
    BY <2>1 DEF Conns
<1>1. ASSUME UNCHANGED <<conn, open, guestSent, pendingLogin, wrote>> PROVE FirstInv'
  BY <1>1 DEF FirstInv
<1>2. CASE Connect
  <2>1. /\ conn' = conn + 1 /\ open' = {conn + 1}
        /\ UNCHANGED <<guestSent, pendingLogin, wrote>>
    BY <1>2 DEF Connect
  <2>2. open' \subseteq {conn'} /\ guestSent' \subseteq 1..conn'
    BY <1>0, <2>1 DEF FirstInv
  <2> QED
    BY <2>1, <2>2 DEF FirstInv
<1>3. CASE Close
  BY <1>3 DEF Close, FirstInv
<1>4. ASSUME NEW c \in Conns, ServerAnswers(c) PROVE FirstInv'
  BY <1>1, <1>4 DEF ServerAnswers
<1>5. ASSUME NEW c \in Conns, GuestSendsLogin(c) PROVE FirstInv'
  <2>1. c \in open /\ c \notin guestSent /\ guestSent' = guestSent \cup {c} /\ UNCHANGED <<conn, open>>
    BY <1>5 DEF GuestSendsLogin
  <2>2. c = conn /\ c \in 1..conn
    BY <1>0, <2>1 DEF FirstInv, Conns
  <2>3. guestSent' \subseteq 1..conn' /\ guestSent' # {}
    BY <2>1, <2>2 DEF FirstInv
  <2>4. \A i \in 1..Len(wrote'[1]) : wrote'[1][i] = "login"
    <3>1. CASE wrote' = wrote
      BY <3>1 DEF FirstInv
    <3>2. CASE ~pendingLogin /\ wrote' = [wrote EXCEPT ![c] = Append(@, "guest login")]
      <4>1. c # 1
        <5>1. PICK e \in guestSent : TRUE
          BY <3>2 DEF FirstInv
        <5>2. e \in 1..conn /\ e # c
          BY <2>1, <5>1 DEF FirstInv
        <5> QED
          BY <1>0, <2>2, <5>2
      <4>2. wrote'[1] = wrote[1]
        BY <1>0, <3>2, <4>1 DEF TypeOK
      <4> QED
        BY <4>2 DEF FirstInv
    <3> QED
      BY <1>5, <3>1, <3>2 DEF GuestSendsLogin
  <2> QED
    BY <2>1, <2>3, <2>4 DEF FirstInv
<1>6. ASSUME NEW t \in Threads, Enter(t) \/ HookStep(t) PROVE FirstInv'
  <2>1. UNCHANGED <<conn, open, guestSent, pendingLogin>>
    BY <1>6, Frames
  <2>2. CASE Send(t)
    <3>1. /\ socket[t] \in Conns /\ packet = "login"
          /\ wrote' = [wrote EXCEPT ![socket[t]] = Append(@, packet)]
      BY <2>2 DEF Send, At, ClaimInv, TypeOK
    <3>2. \A i \in 1..Len(wrote'[1]) : wrote'[1][i] = "login"
      <4>1. /\ wrote'[socket[t]][Len(wrote[socket[t]]) + 1] = "login"
            /\ \A d \in Conns : \A i \in 1..Len(wrote'[d]) :
                  \/ d = socket[t] /\ i = Len(wrote[socket[t]]) + 1
                  \/ i \in 1..Len(wrote[d]) /\ wrote'[d][i] = wrote[d][i]
        BY <3>1, Appended
      <4> QED
        BY <1>0, <4>1 DEF FirstInv
    <3> QED
      BY <2>1, <3>2 DEF FirstInv
  <2>3. CASE ~Send(t)
    <3>1. wrote' = wrote
      BY <1>6, <2>3 DEF HookStep, Enter, CheckFailed, Claim, SendFails, Wipe, Unclaim, Fail,
         CheckSent, PeekResponse, PeekClosed, PeekNothing, SetReady, GiveUp, Receive, net
    <3> QED
      BY <1>1, <2>1, <3>1
  <2> QED
    BY <2>2, <2>3
<1>7. CASE UNCHANGED vars
  BY <1>1, <1>7 DEF vars, net
<1> QED
  BY <1>2, <1>3, <1>4, <1>5, <1>6, <1>7 DEF Next

LEMMA AnswerStep ==
  ASSUME TypeOK, AnswerInv, [Next]_vars
  PROVE  AnswerInv'
<1>1. ASSUME NEW c \in Conns, inbox'[c] \in {"response", "taken"} \/ inbox[c] \notin {"response", "taken"},
             \A d \in Conns : d # c => inbox'[d] = inbox[d]
      PROVE  Answered => Answered'
  BY <1>1 DEF Answered
<1>2. ASSUME UNCHANGED <<ready, pc, inbox>> PROVE AnswerInv'
  BY <1>2 DEF AnswerInv, Answered
<1>3. CASE Connect \/ Close \/ UNCHANGED vars
  BY <1>2, <1>3 DEF Connect, Close, vars, flags, hook, net
<1>4. ASSUME NEW c \in Conns, ServerAnswers(c) PROVE AnswerInv'
  <2>1. /\ UNCHANGED <<ready, pc>> /\ inbox[c] \notin {"response", "taken"}
        /\ \A d \in Conns : d # c => inbox'[d] = inbox[d]
    BY <1>4 DEF ServerAnswers, TypeOK, flags, hook
  <2>2. Answered => Answered'
    BY <1>1, <2>1
  <2> QED
    BY <2>1, <2>2 DEF AnswerInv
<1>5. ASSUME NEW c \in Conns, GuestSendsLogin(c) PROVE AnswerInv'
  BY <1>2, <1>5 DEF GuestSendsLogin, flags, hook
<1>6. ASSUME NEW t \in Threads, Enter(t) \/ HookStep(t) PROVE AnswerInv'
  <2>0. \A u \in Threads : u # t => pc'[u] = pc[u]
    BY <1>6, Frames
  <2>1. CASE PeekResponse(t)
    <3>1. inbox' = inbox /\ inbox[socket[t]] = "response" /\ socket[t] \in Conns
      BY <2>1 DEF PeekResponse, net, TypeOK
    <3> QED
      BY <3>1 DEF AnswerInv, Answered
  <2>2. CASE SetReady(t)
    <3>1. inbox' = inbox /\ pc[t] = "set_ready"
      BY <2>2 DEF SetReady, At, net
    <3> QED
      BY <3>1 DEF AnswerInv, Answered
  <2>3. CASE Receive(t)
    <3>1. /\ ready' = ready /\ pc'[t] = "idle" /\ socket[t] \in Conns
          /\ inbox'[socket[t]] \in {"response", "taken"} \/ inbox[socket[t]] \notin {"response", "taken"}
          /\ \A d \in Conns : d # socket[t] => inbox'[d] = inbox[d]
      BY <2>3 DEF Receive, Goto, flags, TypeOK
    <3>2. Answered => Answered'
      BY <1>1, <3>1
    <3> QED
      BY <2>0, <3>1, <3>2 DEF AnswerInv
  <2>4. CASE \/ Enter(t) \/ CheckFailed(t) \/ Claim(t) \/ Send(t) \/ SendFails(t) \/ Wipe(t)
             \/ Unclaim(t) \/ Fail(t) \/ CheckSent(t) \/ PeekClosed(t) \/ PeekNothing(t) \/ GiveUp(t)
    <3>1. inbox' = inbox /\ ready' = ready /\ (pc'[t] = "set_ready" => pc[t] = "set_ready")
      BY <2>4 DEF Enter, CheckFailed, Claim, Send, SendFails, Wipe, Unclaim, Fail, CheckSent,
         PeekClosed, PeekNothing, GiveUp, Goto, TypeOK, flags, net
    <3>2. Answered' <=> Answered
      BY <3>1 DEF Answered
    <3> QED
      BY <2>0, <3>1, <3>2 DEF AnswerInv
  <2> QED
    BY <1>6, <2>1, <2>2, <2>3, <2>4 DEF HookStep
<1> QED
  BY <1>3, <1>4, <1>5, <1>6 DEF Next

LEMMA OutcomeStep ==
  ASSUME TypeOK, ClaimInv, OutcomeInv, [Next]_vars
  PROVE  OutcomeInv'
<1>1. ASSUME UNCHANGED <<flags, pc>> PROVE OutcomeInv'
  BY <1>1 DEF OutcomeInv, Reported, flags
<1>2. CASE Connect \/ Close \/ UNCHANGED vars
  BY <1>1, <1>2 DEF Connect, Close, vars, flags, hook, net
<1>3. ASSUME NEW c \in Conns, ServerAnswers(c) \/ GuestSendsLogin(c) PROVE OutcomeInv'
  BY <1>1, <1>3 DEF ServerAnswers, GuestSendsLogin, hook
<1>4. ASSUME NEW t \in Threads, Enter(t) \/ HookStep(t) PROVE OutcomeInv'
  <2>0. \A u \in Threads : u # t => pc'[u] = pc[u]
    BY <1>4, Frames
  <2>1. CASE Unclaim(t)
    <3>1. pc'[t] = "fail"
      BY <2>1 DEF Unclaim, Goto, TypeOK
    <3> QED
      BY <3>1 DEF OutcomeInv, Reported
  <2>2. CASE Fail(t) \/ GiveUp(t)
    <3>1. failed' = TRUE
      BY <2>2 DEF Fail, GiveUp
    <3> QED
      BY <3>1 DEF OutcomeInv, Reported
  <2>3. CASE \/ Enter(t) \/ CheckFailed(t) \/ Claim(t) \/ Send(t) \/ SendFails(t) \/ Wipe(t)
             \/ CheckSent(t) \/ PeekResponse(t) \/ PeekClosed(t) \/ PeekNothing(t) \/ SetReady(t)
             \/ Receive(t)
    <3>1. /\ failed => failed'
          /\ ready => ready'
          /\ requestSent => requestSent'
          /\ pc[t] # "fail"
      BY <2>3 DEF Enter, CheckFailed, Claim, Send, SendFails, Wipe, CheckSent, PeekResponse,
         PeekClosed, PeekNothing, SetReady, Receive, At, flags
    <3>2. Reported => Reported'
      BY <2>0, <3>1 DEF Reported
    <3>3. /\ pc'[t] = "receive" => ready' \/ Reported'
          /\ pc'[t] = "sent?" => requestSent' \/ Reported'
      <4>1. CASE Enter(t)
        BY <4>1 DEF Enter, Goto, TypeOK, flags
      <4>2. CASE CheckFailed(t)
        BY <4>2 DEF CheckFailed, Goto, TypeOK, flags, Reported
      <4>3. CASE Claim(t)
        BY <4>3 DEF Claim, Goto, TypeOK
      <4>4. CASE CheckSent(t)
        <5>1. /\ pc[t] = "sent?" /\ pc'[t] # "sent?"
              /\ pc'[t] = "receive" => ~requestSent
          BY <4>4 DEF CheckSent, At, Goto, TypeOK
        <5>2. requestSent \/ Reported
          BY <5>1 DEF OutcomeInv
        <5> QED
          BY <3>2, <5>1, <5>2
      <4>5. CASE Wipe(t)
        <5>1. pc[t] = "wipe" /\ pc'[t] = "sent?" /\ requestSent' = requestSent
          BY <4>5 DEF Wipe, At, Goto, TypeOK, flags
        <5>2. requestSent
          BY <5>1 DEF ClaimInv, Claimed
        <5> QED
          BY <5>1, <5>2
      <4>6. CASE SetReady(t)
        BY <4>6 DEF SetReady, Goto, TypeOK
      <4>7. CASE Send(t) \/ SendFails(t) \/ PeekResponse(t) \/ PeekClosed(t) \/ PeekNothing(t) \/ Receive(t)
        BY <4>7 DEF Send, SendFails, PeekResponse, PeekClosed, PeekNothing, Receive, At, Goto, TypeOK
      <4> QED
        BY <2>3, <4>1, <4>2, <4>3, <4>4, <4>5, <4>6, <4>7
    <3> QED
      BY <2>0, <3>1, <3>2, <3>3 DEF OutcomeInv
  <2> QED
    BY <1>4, <2>1, <2>2, <2>3 DEF HookStep
<1> QED
  BY <1>2, <1>3, <1>4 DEF Next

-----------------------------------------------------------------------------
(* The results.                                                            *)

THEOREM Invariance == Spec => []IInv
<1>1. IInv /\ [Next]_vars => IInv'
  BY TypeStep, ClaimStep, FirstStep, AnswerStep, OutcomeStep DEF IInv
<1> QED
  BY InitIInv, <1>1, PTL DEF Spec

(* The types of the flags, the packet, the hook and the connections.       *)
THEOREM TypeCorrect == Spec => []TypeOK
<1>1. IInv => TypeOK
  BY DEF IInv
<1> QED
  BY Invariance, <1>1, PTL

(* The one-time packet is sent complete at most once, never after its wipe. *)
THEOREM SentOnce == Spec => []BootstrapSentOnce
<1>1. IInv => BootstrapSentOnce
  <2> SUFFICES ASSUME IInv PROVE BootstrapSentOnce
    OBVIOUS
  <2>0. \A c \in Conns : wrote[c] \in Seq(Messages)
    BY DEF IInv, TypeOK, Messages
  <2>1. \A s \in Conns \X (1..(MaxConns + Cardinality(Threads))) :
           s[2] \in DOMAIN wrote[s[1]] => s[1] \in Conns /\ s[2] \in 1..Len(wrote[s[1]])
    BY <2>0
  <2>2. Sends("zeros") = {}
    BY <2>1 DEF IInv, NoZeros, Sends
  <2>3. \A r, s \in Sends("login") : r = s
    <3> SUFFICES ASSUME NEW r \in Sends("login"), NEW s \in Sends("login") PROVE r = s
      OBVIOUS
    <3>1. /\ r \in Conns \X (1..(MaxConns + Cardinality(Threads)))
          /\ s \in Conns \X (1..(MaxConns + Cardinality(Threads)))
      BY DEF Sends
    <3>2. /\ r[1] \in Conns /\ r[2] \in 1..Len(wrote[r[1]]) /\ wrote[r[1]][r[2]] = "login"
          /\ s[1] \in Conns /\ s[2] \in 1..Len(wrote[s[1]]) /\ wrote[s[1]][s[2]] = "login"
      BY <2>1 DEF Sends
    <3>3. \A c, d \in Conns : \A i \in 1..Len(wrote[c]), j \in 1..Len(wrote[d]) :
             wrote[c][i] = "login" /\ wrote[d][j] = "login" => c = d /\ i = j
      BY DEF IInv, OneLogin
    <3>4. r[1] = s[1] /\ r[2] = s[2]
      BY <3>2, <3>3
    <3> QED
      BY <3>1, <3>4
  <2>4. Cardinality(Sends("login")) <= 1
    <3>1. CASE Sends("login") = {}
      BY <3>1, FS_EmptySet
    <3>2. CASE Sends("login") # {}
      <4>1. PICK s \in Sends("login") : TRUE
        BY <3>2
      <4>2. Sends("login") = {s}
        BY <2>3, <4>1
      <4> QED
        BY <4>2, FS_Singleton
    <3> QED
      BY <3>1, <3>2
  <2> QED
    BY <2>2, <2>4 DEF BootstrapSentOnce
<1> QED
  BY Invariance, <1>1, PTL

(* The first connection never gets the host's login and the guest's.       *)
THEOREM FirstLogsInOnce == Spec => []FirstConnectionLogsInOnce
<1>1. IInv => FirstConnectionLogsInOnce
  <2> SUFFICES ASSUME IInv PROVE FirstConnectionLogsInOnce
    OBVIOUS
  <2>0. 1 \in Conns
    BY BootstrapAssumption DEF Conns
  <2>1. 1 \in Conns /\ wrote[1] \in Seq(Messages)
    BY <2>0 DEF IInv, TypeOK, Messages
  <2>2. \A i \in 1..Len(wrote[1]), j \in 1..Len(wrote[1]) : i = j
    BY <2>1 DEF IInv, FirstInv, OneLogin
  <2>3. Len(wrote[1]) \in Nat
    BY <2>1
  <2>4. CASE Len(wrote[1]) > 1
    <3>1. 1 \in 1..Len(wrote[1]) /\ 2 \in 1..Len(wrote[1])
      BY <2>3, <2>4
    <3> QED
      BY <2>2, <3>1
  <2> QED
    BY <2>3, <2>4 DEF FirstConnectionLogsInOnce
<1> QED
  BY Invariance, <1>1, PTL

(* "Ready" is announced only after a whole key response was seen.          *)
THEOREM ReadyAnswered == Spec => []ReadyMeansAnswered
<1>1. IInv => ReadyMeansAnswered
  BY DEF IInv, AnswerInv, Answered, ReadyMeansAnswered
<1> QED
  BY Invariance, <1>1, PTL

(* A receive goes on with an outcome, or past a failure about to be        *)
(* reported.                                                               *)
THEOREM ReleasedReported == Spec => []ReleasedAfterOutcome
<1>1. IInv => ReleasedAfterOutcome
  BY DEF IInv, OutcomeInv, Reported, ReleasedAfterOutcome, At
<1> QED
  BY Invariance, <1>1, PTL

=============================================================================
