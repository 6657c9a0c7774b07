-------------------------- MODULE AuthClientProofs --------------------------
(***************************************************************************)
(* Proofs about AuthClient, for any sizes, any servers and any way recv    *)
(* cuts the stream: no ciphertext is lost, repeated or reordered on its    *)
(* way through the loops, the buffers stay small, and the credentials wait *)
(* for the handshake and the pin.                                          *)
(***************************************************************************)
EXTENDS AuthClient, SequenceTheorems, FiniteSetTheorems, TLAPS

-----------------------------------------------------------------------------
(* Lemmas on stretches of the stream.                                      *)

(* A stretch of the stream is a sequence of its positions.                 *)
LEMMA PositionsAreSeq ==
  ASSUME NEW f \in Nat, NEW l \in Nat, f <= l + 1
  PROVE  /\ Positions(f, l) \in Seq(Nat)
         /\ Len(Positions(f, l)) = l - f + 1
         /\ \A i \in 1..(l - f + 1) : Positions(f, l)[i] = f + i - 1
<1> DEFINE n == l - f + 1
<1>1. n \in Nat
  OBVIOUS
<1>2. \A i \in 1..n : f + i - 1 \in Nat
  OBVIOUS
<1>3. Positions(f, l) \in [1..n -> Nat]
  BY <1>2 DEF Positions
<1>4. Positions(f, l) \in Seq(Nat)
  BY <1>1, <1>3, SeqDef
<1>5. Len(Positions(f, l)) = n
  BY <1>1, <1>3, <1>4, LenProperties
<1>6. \A i \in 1..n : Positions(f, l)[i] = f + i - 1
  BY DEF Positions
<1> QED
  BY <1>4, <1>5, <1>6

(* Two stretches that meet make one.                                       *)
LEMMA PositionsMeet ==
  ASSUME NEW f \in Nat, NEW m \in Nat, NEW l \in Nat, f <= m + 1, m <= l
  PROVE  Positions(f, m) \o Positions(m + 1, l) = Positions(f, l)
<1> DEFINE a == Positions(f, m)
           b == Positions(m + 1, l)
           c == Positions(f, l)
<1>0. f <= l + 1
  OBVIOUS
<1>1. /\ a \in Seq(Nat) /\ Len(a) = m - f + 1
      /\ \A i \in 1..(m - f + 1) : a[i] = f + i - 1
  BY PositionsAreSeq
<1>2. /\ b \in Seq(Nat) /\ Len(b) = l - m
      /\ \A i \in 1..(l - m) : b[i] = m + i
  <2>1. m + 1 \in Nat /\ m + 1 <= l + 1 /\ l - (m + 1) + 1 = l - m
    OBVIOUS
  <2>2. /\ b \in Seq(Nat) /\ Len(b) = l - (m + 1) + 1
        /\ \A i \in 1..(l - (m + 1) + 1) : b[i] = (m + 1) + i - 1
    BY <2>1, PositionsAreSeq
  <2> QED
    BY <2>1, <2>2
<1>3. /\ c \in Seq(Nat) /\ Len(c) = l - f + 1
      /\ \A i \in 1..(l - f + 1) : c[i] = f + i - 1
  BY <1>0, PositionsAreSeq
<1>4. /\ a \o b \in Seq(Nat) /\ Len(a \o b) = Len(a) + Len(b)
      /\ \A i \in 1..(Len(a) + Len(b)) :
           (a \o b)[i] = IF i <= Len(a) THEN a[i] ELSE b[i - Len(a)]
  BY <1>1, <1>2, ConcatProperties
<1> HIDE DEF a, b, c
<1>5. Len(a \o b) = Len(c)
  BY <1>1, <1>2, <1>3, <1>4
<1>6. ASSUME NEW i \in 1..Len(a \o b) PROVE (a \o b)[i] = c[i]
  <2>1. CASE i <= Len(a)
    BY <2>1, <1>1, <1>2, <1>3, <1>4
  <2>2. CASE i > Len(a)
    <3>1. i - Len(a) \in 1..(l - m)
      <4>1. i \in 1..(Len(a) + (l - m)) /\ Len(a) \in Nat
        BY <1>1, <1>2, <1>4
      <4> QED
        BY <2>2, <4>1
    <3>2. b[i - Len(a)] = m + (i - Len(a))
      BY <3>1, <1>2
    <3>3. (a \o b)[i] = b[i - Len(a)]
      <4>1. i \in 1..(Len(a) + Len(b)) /\ ~(i <= Len(a))
        BY <2>2, <1>1, <1>4
      <4> QED
        BY <4>1, <1>4
    <3>4. c[i] = f + i - 1
      BY <1>3, <1>5
    <3>5. m + (i - Len(a)) = f + i - 1
      BY <1>1
    <3> QED
      BY <3>2, <3>3, <3>4, <3>5
  <2> QED
    BY <2>1, <2>2, <1>1
<1>7. a \o b = c
  BY <1>3, <1>4, <1>5, <1>6, SeqEqual
<1> QED
  BY <1>7 DEF a, b, c

(* What is left of a stretch when its first k units have been taken.       *)
LEMMA PositionsSuffix ==
  ASSUME NEW f \in Nat, NEW l \in Nat, NEW k \in Nat, f + k <= l + 1
  PROVE  SubSeq(Positions(f, l), k + 1, Len(Positions(f, l))) = Positions(f + k, l)
<1> DEFINE a == Positions(f, l)
           c == Positions(f + k, l)
           n == l - f + 1
<1>0. f <= l + 1
  OBVIOUS
<1>1. /\ a \in Seq(Nat) /\ Len(a) = n
      /\ \A i \in 1..n : a[i] = f + i - 1
  BY <1>0, PositionsAreSeq
<1>2. /\ c \in Seq(Nat) /\ Len(c) = n - k
      /\ \A i \in 1..(n - k) : c[i] = f + k + i - 1
  <2>1. f + k \in Nat /\ l - (f + k) + 1 = n - k
    OBVIOUS
  <2>2. /\ c \in Seq(Nat) /\ Len(c) = l - (f + k) + 1
        /\ \A i \in 1..(l - (f + k) + 1) : c[i] = (f + k) + i - 1
    BY <2>1, PositionsAreSeq
  <2> QED
    BY <2>1, <2>2
<1> HIDE DEF a, c
<1>3. \A i \in (k + 1)..n : a[i] \in Nat
  BY <1>1
<1> DEFINE s == SubSeq(a, k + 1, n)
<1>4. /\ s \in Seq(Nat)
      /\ Len(s) = IF k + 1 <= n THEN n - (k + 1) + 1 ELSE 0
      /\ \A i \in 1..(n - (k + 1) + 1) : s[i] = a[(k + 1) + i - 1]
  <2>1. k + 1 \in Int /\ n \in Int
    OBVIOUS
  <2> HIDE DEF n
  <2> QED
    BY <1>3, <2>1, SubSeqProperties
<1> HIDE DEF s
<1>5. Len(s) = Len(c)
  BY <1>2, <1>4
<1>6. ASSUME NEW i \in 1..Len(s) PROVE s[i] = c[i]
  <2>1. i \in 1..(n - k) /\ i \in 1..(n - (k + 1) + 1) /\ (k + 1) + i - 1 \in 1..n
    BY <1>2, <1>5
  <2>2. s[i] = a[(k + 1) + i - 1]
    BY <2>1, <1>4
  <2>3. a[(k + 1) + i - 1] = f + ((k + 1) + i - 1) - 1
    BY <2>1, <1>1
  <2>4. c[i] = f + k + i - 1
    BY <2>1, <1>2
  <2> QED
    BY <2>2, <2>3, <2>4
<1>7. s = c
  BY <1>2, <1>4, <1>5, <1>6, SeqEqual
<1> QED
  BY <1>7, <1>1 DEF s, a, c

(* One more record is RecordUnits more units.                              *)
LEMMA NextRecord ==
  ASSUME NEW k \in Nat
  PROVE  /\ k * RecordUnits \in Nat
         /\ (k + 1) * RecordUnits = k * RecordUnits + RecordUnits
BY SizesAssumption

-----------------------------------------------------------------------------
(* The inductive invariant.                                                *)

Used == opened * RecordUnits

(* The ciphertext that was received and not yet taken.                     *)
Rest == Positions(Used + 1, taken)

NumbersInv ==
    /\ taken \in Nat /\ opened \in Nat
    /\ Used <= taken
    /\ taken - Used < RecordUnits + ChunkUnits

(* It is in `encrypted`, or, from the end of the handshake until the       *)
(* request is sent, in pending_encrypted_, and then less than a chunk.     *)
Handing == {"pin", "send"}
BuffersInv ==
    /\ \/ encrypted = Rest /\ pending = <<>>
       \/ encrypted = <<>> /\ pending = Rest /\ taken - Used < ChunkUnits
    /\ pc \in Handing => encrypted = <<>> /\ pending = Rest
    /\ pc \notin Handing \cup {"done"} => encrypted = Rest /\ pending = <<>>

(* What the way to each step has established.                              *)
PinInv ==
    /\ pc \in {"pin", "send", "rx", "rehs", "decode"} \/ sent =>
         \E i \in 1..opened : server.stream[i] = "finish"
    /\ pc \in {"send", "rx", "rehs", "decode"} \/ sent => server.pin # "other"

IInv == NumbersInv /\ BuffersInv /\ PinInv

(* An empty stretch is the empty sequence.                                 *)
LEMMA EmptyRest ==
  ASSUME NEW f \in Nat
  PROVE  Positions(f + 1, f) = <<>>
<1>1. /\ Positions(f + 1, f) \in Seq(Nat)
      /\ Len(Positions(f + 1, f)) = f - (f + 1) + 1
  <2>1. f + 1 \in Nat /\ f + 1 <= f + 1
    OBVIOUS
  <2> QED
    BY <2>1, PositionsAreSeq
<1>2. Len(Positions(f + 1, f)) = 0
  BY <1>1
<1> QED
  BY <1>1, <1>2, EmptySeq

LEMMA InitIInv == Init => IInv
<1> SUFFICES ASSUME Init PROVE IInv
  OBVIOUS
<1> USE DEF Init
<1>1. Used = 0
  BY SizesAssumption DEF Used
<1>2. NumbersInv
  BY <1>1, SizesAssumption DEF NumbersInv
<1>3. Rest = <<>>
  <2>1. Rest = Positions(0 + 1, 0)
    BY <1>1 DEF Rest
  <2> QED
    BY <2>1, EmptyRest
<1>4. BuffersInv
  BY <1>3 DEF BuffersInv, Handing
<1>5. PinInv
  BY DEF PinInv
<1> QED
  BY <1>2, <1>4, <1>5 DEF IInv

(* The rest is a sequence of as many units as are left.                    *)
LEMMA RestLength ==
  ASSUME NumbersInv
  PROVE  /\ Rest \in Seq(Nat) /\ Len(Rest) = taken - Used
         /\ Used \in Nat
<1>1. Used \in Nat
  BY NextRecord DEF NumbersInv, Used
<1>2. Used + 1 \in Nat /\ taken \in Nat /\ Used + 1 <= taken + 1
  BY <1>1 DEF NumbersInv
<1>3. Rest \in Seq(Nat) /\ Len(Rest) = taken - (Used + 1) + 1
  BY <1>2, PositionsAreSeq DEF Rest
<1> QED
  BY <1>1, <1>2, <1>3

(* A step that leaves the buffers alone and hands nothing over.            *)
LEMMA BuffersStay ==
  ASSUME IInv, UNCHANGED buffers,
         pc' = "done" \/ (pc # "done" /\ (pc' \in Handing <=> pc \in Handing))
  PROVE  NumbersInv' /\ BuffersInv'
<1>1. UNCHANGED <<Used, Rest>>
  BY DEF buffers, Used, Rest, Positions
<1>2. NumbersInv'
  BY <1>1 DEF IInv, NumbersInv, buffers
<1>3. BuffersInv'
  BY <1>1 DEF IInv, BuffersInv, buffers, Handing
<1> QED
  BY <1>2, <1>3

(* A step that takes the record at the head of the buffer leaves Extra.    *)
LEMMA TakeRecord ==
  ASSUME IInv, Looping, HasRecord, Take
  PROVE  /\ NumbersInv'
         /\ Extra = Rest'
         /\ taken' - Used' < ChunkUnits
<1> USE SizesAssumption
<1>1. NumbersInv /\ encrypted = Rest
  BY DEF IInv, BuffersInv, Looping, Handing
<1>2. Rest \in Seq(Nat) /\ Len(Rest) = taken - Used /\ Used \in Nat
  BY <1>1, RestLength
<1>3. Used' = Used + RecordUnits
  BY <1>1, NextRecord DEF NumbersInv, Used, Take
<1>4. taken' = taken /\ opened' = opened + 1
  BY DEF Take
<1>5. RecordUnits <= taken - Used
  BY <1>1, <1>2 DEF HasRecord
<1>6. NumbersInv' /\ taken' - Used' < ChunkUnits
  BY <1>1, <1>2, <1>3, <1>4, <1>5 DEF NumbersInv
<1>7. Extra = Positions((Used + 1) + RecordUnits, taken)
  <2>1. (Used + 1) \in Nat /\ taken \in Nat /\ RecordUnits \in Nat
        /\ (Used + 1) + RecordUnits <= taken + 1
    BY <1>1, <1>2, <1>5 DEF NumbersInv
  <2>2. SubSeq(Positions(Used + 1, taken), RecordUnits + 1, Len(Positions(Used + 1, taken)))
          = Positions((Used + 1) + RecordUnits, taken)
    BY <2>1, PositionsSuffix
  <2> QED
    BY <1>1, <2>2 DEF Extra, Rest
<1>8. Rest' = Positions((Used + 1) + RecordUnits, taken)
  <2>1. Used' + 1 = (Used + 1) + RecordUnits
    BY <1>2, <1>3
  <2>2. Rest' = Positions(Used' + 1, taken')
    BY DEF Rest, Positions
  <2> QED
    BY <2>1, <2>2, <1>4
<1> QED
  BY <1>6, <1>7, <1>8

-----------------------------------------------------------------------------
(* The steps.                                                              *)

(* PinInv holds after a step that opens no record the other way round,     *)
(* keeps the server, and neither sends nor enters a step past the pin.     *)
Proven == {"pin", "send", "rx", "rehs", "decode"}
Pinned == {"send", "rx", "rehs", "decode"}

LEMMA PinStays ==
  ASSUME IInv, server' = server, sent' = sent,
         opened' \in {opened, opened + 1},
         pc' \in Proven => pc \in Proven,
         pc' \in Pinned => pc \in Pinned
  PROVE  PinInv'
<1>1. opened \in Nat /\ PinInv
  BY DEF IInv, NumbersInv
<1>2. \A i \in 1..opened : i \in 1..opened'
  BY <1>1
<1>3. (pc' \in Proven \/ sent') => \E i \in 1..opened' : server'.stream[i] = "finish"
  <2> SUFFICES ASSUME pc' \in Proven \/ sent'
               PROVE  \E i \in 1..opened' : server'.stream[i] = "finish"
    OBVIOUS
  <2>1. PICK i \in 1..opened : server.stream[i] = "finish"
    BY <1>1 DEF PinInv, Proven
  <2> QED
    BY <2>1, <1>2
<1>4. (pc' \in Pinned \/ sent') => server'.pin # "other"
  BY <1>1 DEF PinInv, Pinned
<1> QED
  BY <1>3, <1>4 DEF PinInv, Proven, Pinned

(* A step that ends the login or goes on without touching the buffers.     *)
LEMMA QuietStep ==
  ASSUME IInv, UNCHANGED <<server, buffers, sent>>,
         pc' = "done" \/ (pc # "done" /\ (pc' \in Handing <=> pc \in Handing)),
         pc' \in Proven => pc \in Proven,
         pc' \in Pinned => pc \in Pinned
  PROVE  IInv'
<1>1. NumbersInv' /\ BuffersInv'
  BY BuffersStay
<1>2. opened' = opened
  BY DEF buffers
<1>3. PinInv'
  BY <1>2, PinStays
<1> QED
  BY <1>1, <1>3 DEF IInv

(* Authenticate returns.                                                   *)
LEMMA EndStep ==
  ASSUME IInv, UNCHANGED <<server, buffers, sent>>, pc' = "done"
  PROVE  IInv'
<1>1. pc' \notin Proven /\ pc' \notin Pinned
  BY DEF Proven, Pinned
<1> QED
  BY <1>1, QuietStep

LEMMA StepIInv == IInv /\ [Next]_vars => IInv'
<1> SUFFICES ASSUME IInv, [Next]_vars PROVE IInv'
  OBVIOUS
<1> USE DEF Handing, Proven, Pinned
<1>1. CASE Prepare
  BY <1>1, QuietStep DEF Prepare, Goto
<1>2. CASE Resolve
  BY <1>2, QuietStep DEF Resolve, Goto
<1>3. CASE Connect
  BY <1>3, QuietStep DEF Connect, Goto
<1>4. CASE ConnectFails
  BY <1>4, QuietStep DEF ConnectFails, Return
<1>5. CASE ConvertName
  BY <1>5, QuietStep DEF ConvertName, Goto
<1>6. CASE StartHandshake
  BY <1>6, QuietStep DEF StartHandshake, Goto
<1>7. CASE HandshakeMessage
  <2>1. Looping /\ HasRecord
    BY <1>7 DEF HandshakeMessage, Looping, IsNext, IsExpected
  <2>2. NumbersInv' /\ Extra = Rest'
    BY <1>7, <2>1, TakeRecord DEF HandshakeMessage
  <2>3. pending = <<>>
    BY <1>7 DEF HandshakeMessage, IInv, BuffersInv
  <2>4. BuffersInv'
    BY <1>7, <2>2, <2>3 DEF HandshakeMessage, BuffersInv
  <2>5. PinInv'
    BY <1>7, PinStays DEF HandshakeMessage, Take
  <2> QED
    BY <2>2, <2>4, <2>5 DEF IInv
<1>8. CASE FinishHandshake
  <2>1. Looping /\ HasRecord /\ Kind = "finish"
    BY <1>8 DEF FinishHandshake, Looping, IsNext, IsExpected
  <2>2. NumbersInv' /\ Extra = Rest' /\ taken' - Used' < ChunkUnits
    BY <1>8, <2>1, TakeRecord DEF FinishHandshake
  <2>3. BuffersInv'
    BY <1>8, <2>2 DEF FinishHandshake, BuffersInv
  <2>4. PinInv'
    <3>1. opened + 1 \in 1..opened' /\ server'.stream[opened + 1] = "finish"
      BY <1>8, <2>1 DEF FinishHandshake, Take, Kind, IInv, NumbersInv
    <3>2. sent' => server'.pin # "other"
      BY <1>8 DEF FinishHandshake, Take, IInv, PinInv
    <3>3. pc' = "pin"
      BY <1>8 DEF FinishHandshake
    <3> QED
      BY <3>1, <3>2, <3>3 DEF PinInv
  <2> QED
    BY <2>2, <2>3, <2>4 DEF IInv
<1>9. CASE ValidateCertificatePin
  <2>1. CASE server.pin = "other"
    BY <1>9, <2>1, QuietStep DEF ValidateCertificatePin, Return
  <2>2. CASE server.pin # "other"
    <3>1. pc = "pin" /\ pc' = "send" /\ UNCHANGED <<server, buffers, sent>>
      BY <1>9, <2>2 DEF ValidateCertificatePin
    <3>2. NumbersInv' /\ BuffersInv'
      BY <3>1, BuffersStay
    <3>3. PinInv'
      BY <3>1, <2>2 DEF buffers, IInv, PinInv
    <3> QED
      BY <3>2, <3>3 DEF IInv
  <2> QED
    BY <2>1, <2>2
<1>10. CASE Send
  <2>1. UNCHANGED <<Used, Rest>>
    BY <1>10 DEF Send, Used, Rest, Positions
  <2>2. NumbersInv'
    BY <1>10, <2>1 DEF Send, IInv, NumbersInv
  <2>3. BuffersInv'
    BY <1>10, <2>1 DEF Send, IInv, BuffersInv
  <2>4. PinInv'
    BY <1>10 DEF Send, IInv, PinInv
  <2> QED
    BY <2>2, <2>3, <2>4 DEF IInv
<1>11. CASE Receive
  <2>1. PICK n \in 1..ChunkUnits :
          /\ taken' = taken + n
          /\ encrypted' = encrypted \o Positions(taken + 1, taken + n)
    BY <1>11 DEF Receive
  <2>2. /\ Looping /\ ~HasRecord /\ UNCHANGED <<server, pc, pending, opened, sent>>
        /\ encrypted = Rest /\ pending = <<>> /\ NumbersInv
    BY <1>11 DEF Receive, Needs, Looping, IInv, BuffersInv
  <2>3. Rest \in Seq(Nat) /\ Len(Rest) = taken - Used /\ Used \in Nat
    BY <2>2, RestLength
  <2>4. Used' = Used /\ n \in Nat
    BY <2>1, <2>2, SizesAssumption DEF Used
  <2>5. NumbersInv'
    <3>1. taken - Used < RecordUnits
      BY <2>2, <2>3, SizesAssumption DEF HasRecord, NumbersInv
    <3> QED
      BY <3>1, <2>1, <2>2, <2>3, <2>4, SizesAssumption DEF NumbersInv
  <2>6. encrypted' = Rest'
    <3>1. /\ Used + 1 \in Nat /\ taken \in Nat /\ taken + n \in Nat
          /\ Used + 1 <= taken + 1 /\ taken <= taken + n
      BY <2>2, <2>3, <2>4 DEF NumbersInv
    <3>2. Positions(Used + 1, taken) \o Positions(taken + 1, taken + n)
            = Positions(Used + 1, taken + n)
      BY <3>1, PositionsMeet
    <3>3. Rest' = Positions(Used' + 1, taken')
      BY DEF Rest, Positions
    <3> QED
      BY <2>1, <2>2, <2>4, <3>2, <3>3 DEF Rest
  <2>7. BuffersInv'
    BY <2>2, <2>6 DEF BuffersInv, Looping
  <2>8. PinInv'
    BY <2>2, PinStays
  <2> QED
    BY <2>5, <2>7, <2>8 DEF IInv
<1>12. CASE ReceiveFails
  <2>1. pc' = "done" /\ UNCHANGED <<server, buffers, sent>>
    BY <1>12 DEF ReceiveFails, Return
  <2> QED
    BY <2>1, EndStep
<1>13. CASE DecryptData
  <2>1. Looping /\ HasRecord
    BY <1>13 DEF DecryptData, Looping, IsNext, IsExpected
  <2>2. NumbersInv' /\ Extra = Rest'
    BY <1>13, <2>1, TakeRecord DEF DecryptData
  <2>3. pending = <<>>
    BY <1>13 DEF DecryptData, IInv, BuffersInv
  <2>4. pc = "rx" /\ pc' \in {"rx", "decode", "done"}
    BY <1>13 DEF DecryptData, Return
  <2>5. BuffersInv'
    BY <1>13, <2>2, <2>3, <2>4 DEF DecryptData, BuffersInv
  <2>6. PinInv'
    BY <1>13, <2>4, PinStays DEF DecryptData, Take
  <2> QED
    BY <2>2, <2>5, <2>6 DEF IInv
<1>14. CASE DecryptTicket
  BY <1>14, QuietStep DEF DecryptTicket
<1>15. CASE TakeTicket
  <2>1. Looping /\ HasRecord
    BY <1>15 DEF TakeTicket, Looping, IsNext, IsExpected
  <2>2. NumbersInv' /\ Extra = Rest'
    BY <1>15, <2>1, TakeRecord DEF TakeTicket
  <2>3. pending = <<>>
    BY <1>15 DEF TakeTicket, IInv, BuffersInv
  <2>4. BuffersInv'
    BY <1>15, <2>2, <2>3 DEF TakeTicket, BuffersInv
  <2>5. PinInv'
    BY <1>15, PinStays DEF TakeTicket, Take
  <2> QED
    BY <2>2, <2>4, <2>5 DEF IInv
<1>16. CASE RefuseRecord
  <2>1. pc' = "done" /\ UNCHANGED <<server, buffers, sent>>
    BY <1>16 DEF RefuseRecord, Return
  <2> QED
    BY <2>1, EndStep
<1>17. CASE DecodeLoginResponse
  BY <1>17, QuietStep DEF DecodeLoginResponse, Return
<1>18. CASE CallFails
  <2>1. pc' = "done" /\ UNCHANGED <<server, buffers, sent>>
    BY <1>18 DEF CallFails, Return
  <2> QED
    BY <2>1, EndStep
<1>19. CASE UNCHANGED vars
  <2>1. UNCHANGED <<server, buffers, sent, pc>>
    BY <1>19 DEF vars
  <2>2. UNCHANGED <<Used, Rest>>
    BY <2>1 DEF buffers, Used, Rest, Positions
  <2>3. NumbersInv' /\ BuffersInv'
    BY <2>1, <2>2 DEF IInv, NumbersInv, BuffersInv, buffers
  <2>4. PinInv'
    BY <2>1 DEF IInv, PinInv, buffers
  <2> QED
    BY <2>3, <2>4 DEF IInv
<1> QED
  BY <1>1, <1>2, <1>3, <1>4, <1>5, <1>6, <1>7, <1>8, <1>9, <1>10, <1>11, <1>12,
     <1>13, <1>14, <1>15, <1>16, <1>17, <1>18, <1>19 DEF Next, Step

(* What has happened by the time Authenticate decodes.                     *)
EarnInv ==
    /\ pc \in {"rx", "rehs", "decode"} => sent
    /\ pc = "decode" => IsCompleteJson(server, plaintext)
    /\ pc # "done" => result = "none"
    /\ AnswerEarned

(* An error is no answer.                                                  *)
LEMMA ErrorsAreNoAnswers ==
  \A p \in DOMAIN FaultErrors, e \in {"session", "server_rejected"} : e \notin FaultErrors[p]
BY DEF FaultErrors

(* A step that ends with an error or goes on with the same text.           *)
LEMMA EarnStays ==
  ASSUME EarnInv, UNCHANGED <<server, plaintext, sent>>, pc # "done",
         pc' \in {"rx", "rehs"} => pc \in {"rx", "rehs", "decode"},
         pc' # "decode",
         \/ UNCHANGED result
         \/ pc' = "done" /\ result' \notin {"session", "server_rejected"}
  PROVE  EarnInv'
BY DEF EarnInv, AnswerEarned

LEMMA StepEarnInv == EarnInv /\ [Next]_vars => EarnInv'
<1> SUFFICES ASSUME EarnInv, [Next]_vars PROVE EarnInv'
  OBVIOUS
<1>1. CASE Prepare
  BY <1>1, EarnStays DEF Prepare, Goto
<1>2. CASE Resolve
  BY <1>2, EarnStays DEF Resolve, Goto
<1>3. CASE Connect
  BY <1>3, EarnStays DEF Connect, Goto
<1>4. CASE ConnectFails
  BY <1>4, EarnStays DEF ConnectFails, Return
<1>5. CASE ConvertName
  BY <1>5, EarnStays DEF ConvertName, Goto
<1>6. CASE StartHandshake
  BY <1>6, EarnStays DEF StartHandshake, Goto
<1>7. CASE HandshakeMessage
  BY <1>7, EarnStays DEF HandshakeMessage, Take
<1>8. CASE FinishHandshake
  BY <1>8, EarnStays DEF FinishHandshake, Take
<1>9. CASE ValidateCertificatePin
  BY <1>9, EarnStays DEF ValidateCertificatePin, Return
<1>10. CASE Send
  BY <1>10 DEF Send, EarnInv, AnswerEarned
<1>11. CASE Receive
  BY <1>11, EarnStays DEF Receive, Needs, Looping
<1>12. CASE ReceiveFails
  <2>1. pc # "done" /\ pc' = "done" /\ result' \in {"tls_failed", "malformed_response", "io_failed"}
    BY <1>12 DEF ReceiveFails, Return, Needs, Looping
  <2> QED
    BY <1>12, <2>1, EarnStays DEF ReceiveFails
<1>13. CASE DecryptData
  <2>1. pc = "rx" /\ UNCHANGED <<server, sent>> /\ plaintext' = Text
    BY <1>13 DEF DecryptData, Take
  <2>2. CASE TooLarge(Text)
    BY <1>13, <2>1, <2>2 DEF DecryptData, Return, EarnInv, AnswerEarned
  <2>3. CASE ~TooLarge(Text) /\ IsCompleteJson(server, Text)
    <3>1. pc' = "decode" /\ result' = "none"
      BY <1>13, <2>1, <2>3 DEF DecryptData, EarnInv
    <3>2. IsCompleteJson(server, plaintext)'
      BY <2>1, <2>3
    <3> QED
      BY <2>1, <3>1, <3>2 DEF EarnInv, AnswerEarned
  <2>4. CASE ~TooLarge(Text) /\ ~IsCompleteJson(server, Text)
    BY <1>13, <2>1, <2>4 DEF DecryptData, EarnInv, AnswerEarned
  <2> QED
    BY <2>2, <2>3, <2>4
<1>14. CASE DecryptTicket
  BY <1>14, EarnStays DEF DecryptTicket
<1>15. CASE TakeTicket
  BY <1>15, EarnStays DEF TakeTicket, Take
<1>16. CASE RefuseRecord
  BY <1>16, EarnStays DEF RefuseRecord, Return, Looping
<1>17. CASE DecodeLoginResponse
  BY <1>17 DEF DecodeLoginResponse, Return, EarnInv, AnswerEarned
<1>18. CASE CallFails
  <2>1. /\ pc \in DOMAIN FaultErrors /\ pc' = "done" /\ result' \in FaultErrors[pc]
        /\ UNCHANGED <<server, plaintext, sent>>
    BY <1>18 DEF CallFails, Return
  <2>2. pc # "done"
    BY <2>1 DEF FaultErrors
  <2> QED
    BY <2>1, <2>2, ErrorsAreNoAnswers, EarnStays
<1>19. CASE UNCHANGED vars
  BY <1>19 DEF vars, EarnInv, AnswerEarned
<1> QED
  BY <1>1, <1>2, <1>3, <1>4, <1>5, <1>6, <1>7, <1>8, <1>9, <1>10, <1>11, <1>12,
     <1>13, <1>14, <1>15, <1>16, <1>17, <1>18, <1>19 DEF Next, Step

-----------------------------------------------------------------------------
(* The text and the stream: what makes the outcome right.                  *)

Connecting == {"start", "resolve", "connect", "name", "handshake", "hs"}
Ended == {"decode", "done"}

(* The variables that no buffer is involved in.                            *)
CourseInv ==
    /\ server \in Servers
    /\ pc \in DOMAIN FaultErrors \cup {"connect", "decode", "done"}
    /\ address \in Nat \ {0} /\ address <= Addresses + 1
    /\ pc # "done" => address <= Addresses /\ result = "none"
    /\ sent \in BOOLEAN /\ fault \in BOOLEAN
    /\ result \in Answers \cup Errors \cup {"none"}

(* The client is never ahead of the server.                                *)
StreamInv ==
    /\ taken <= Units
    /\ opened <= Len(server.stream)

(* The text is that of the records opened, and until the login ends it is  *)
(* neither whole nor over the limit.                                       *)
TextInv ==
    /\ plaintext \in Seq(Nat)
    /\ Lists(plaintext, DataBy(server.stream, opened))
    /\ Len(plaintext) = Cardinality(DataBy(server.stream, opened))
    /\ Len(plaintext) <= MaxResponse + 1
    /\ pc \notin Ended =>
         Len(plaintext) <= MaxResponse /\ server.json \notin 1..Len(plaintext)

(* The handshake is over with the first record that is no hello; a ticket  *)
(* that was recognized is still at the head of the buffer.                 *)
ShakeInv ==
    /\ pc \in Connecting => \A i \in 1..opened : server.stream[i] = "hello"
    /\ pc \in Proven => \E f \in 1..opened :
         server.stream[f] = "finish" /\ \A i \in 1..(f - 1) : server.stream[i] = "hello"
    /\ pc = "rehs" => HasRecord /\ Kind = "ticket"

FullInv == IInv /\ EarnInv /\ CourseInv /\ StreamInv /\ TextInv /\ ShakeInv

(* The data records among one more record.                                 *)
LEMMA DataByStep ==
  ASSUME NEW stream, NEW n \in Nat
  PROVE  /\ DataBy(stream, n) \subseteq 1..n
         /\ IsFiniteSet(DataBy(stream, n))
         /\ Cardinality(DataBy(stream, n)) \in Nat
         /\ DataBy(stream, n + 1) = IF stream[n + 1] = "data"
                                    THEN DataBy(stream, n) \cup {n + 1}
                                    ELSE DataBy(stream, n)
<1>1. DataBy(stream, n) \subseteq 1..n
  BY DEF DataBy
<1>2. IsFiniteSet(1..n)
  BY FS_Interval
<1>3. IsFiniteSet(DataBy(stream, n))
  BY <1>1, <1>2, FS_Subset
<1>4. Cardinality(DataBy(stream, n)) \in Nat
  BY <1>3, FS_CardinalityType
<1>5. 1..(n + 1) = (1..n) \cup {n + 1}
  OBVIOUS
<1>6. DataBy(stream, n + 1) = IF stream[n + 1] = "data"
                              THEN DataBy(stream, n) \cup {n + 1}
                              ELSE DataBy(stream, n)
  BY <1>5 DEF DataBy
<1> QED
  BY <1>1, <1>3, <1>4, <1>6

(* More records have no fewer data records among them.                     *)
LEMMA DataByGrows ==
  ASSUME NEW stream, NEW m \in Nat, NEW n \in Nat, m <= n
  PROVE  Cardinality(DataBy(stream, m)) <= Cardinality(DataBy(stream, n))
<1>1. DataBy(stream, m) \in SUBSET DataBy(stream, n)
  BY DEF DataBy
<1>2. IsFiniteSet(DataBy(stream, n))
  BY DataByStep
<1> QED
  BY <1>1, <1>2, FS_Subset

(* The text that lists some records lists one more when it is appended.    *)
LEMMA ListsAppend ==
  ASSUME NEW text \in Seq(Nat), NEW n \in Nat,
         NEW records \in SUBSET (1..n), IsFiniteSet(records),
         Lists(text, records), Len(text) = Cardinality(records)
  PROVE  /\ Append(text, n + 1) \in Seq(Nat)
         /\ Len(Append(text, n + 1)) = Len(text) + 1
         /\ Lists(Append(text, n + 1), records \cup {n + 1})
         /\ Len(Append(text, n + 1)) = Cardinality(records \cup {n + 1})
<1> DEFINE longer == Append(text, n + 1)
           k == Len(text)
<1>1. /\ longer \in Seq(Nat) /\ Len(longer) = k + 1
      /\ \A i \in 1..k : longer[i] = text[i]
      /\ longer[k + 1] = n + 1
  BY AppendProperties
<1>2. k \in Nat
  BY LenProperties
<1> HIDE DEF longer, k
<1>3. /\ k = Cardinality(records)
      /\ records = {text[i] : i \in 1..k}
      /\ \A i, j \in 1..k : i < j => text[i] < text[j]
  BY DEF Lists, k
<1>4. n + 1 \notin records
  OBVIOUS
<1>5. Cardinality(records \cup {n + 1}) = k + 1
  BY <1>3, <1>4, FS_AddElement
<1>6. 1..(k + 1) = (1..k) \cup {k + 1}
  BY <1>2
<1>7. {longer[i] : i \in 1..(k + 1)} = records \cup {n + 1}
  <2>1. ASSUME NEW i \in 1..(k + 1) PROVE longer[i] \in records \cup {n + 1}
    BY <1>1, <1>3, <1>6
  <2>2. ASSUME NEW x \in records PROVE \E i \in 1..(k + 1) : longer[i] = x
    <3>1. PICK i \in 1..k : x = text[i]
      BY <1>3
    <3> QED
      BY <3>1, <1>1, <1>6
  <2>3. k + 1 \in 1..(k + 1)
    BY <1>2
  <2> QED
    BY <2>1, <2>2, <2>3, <1>1
<1>8. ASSUME NEW i \in 1..(k + 1), NEW j \in 1..(k + 1), i < j
      PROVE  longer[i] < longer[j]
  <2>1. i \in 1..k
    BY <1>2, <1>8
  <2>2. CASE j = k + 1
    <3>1. text[i] \in 1..n
      BY <2>1, <1>3
    <3> QED
      BY <2>1, <2>2, <3>1, <1>1
  <2>3. CASE j # k + 1
    <3>1. j \in 1..k
      BY <1>2, <2>3
    <3> QED
      BY <2>1, <3>1, <1>1, <1>3, <1>8
  <2> QED
    BY <2>2, <2>3
<1>9. Lists(longer, records \cup {n + 1})
  BY <1>1, <1>7, <1>8 DEF Lists
<1> QED
  BY <1>1, <1>5, <1>9 DEF longer, k

(* The text after a record is the text of one record more.                 *)
LEMMA TextStep ==
  ASSUME NumbersInv, plaintext \in Seq(Nat),
         Lists(plaintext, DataBy(server.stream, opened)),
         Len(plaintext) = Cardinality(DataBy(server.stream, opened))
  PROVE  /\ Text \in Seq(Nat)
         /\ Lists(Text, DataBy(server.stream, opened + 1))
         /\ Len(Text) = Cardinality(DataBy(server.stream, opened + 1))
         /\ Len(plaintext) \in Nat
         /\ Len(Text) = IF Kind = "data" THEN Len(plaintext) + 1 ELSE Len(plaintext)
<1>1. opened \in Nat /\ Len(plaintext) \in Nat
  BY LenProperties DEF NumbersInv
<1>2. /\ DataBy(server.stream, opened) \in SUBSET (1..opened)
      /\ IsFiniteSet(DataBy(server.stream, opened))
      /\ DataBy(server.stream, opened + 1) =
           IF Kind = "data" THEN DataBy(server.stream, opened) \cup {opened + 1}
           ELSE DataBy(server.stream, opened)
  BY <1>1, DataByStep DEF Kind
<1>3. CASE Kind = "data"
  <2>1. /\ Append(plaintext, opened + 1) \in Seq(Nat)
        /\ Len(Append(plaintext, opened + 1)) = Len(plaintext) + 1
        /\ Lists(Append(plaintext, opened + 1), DataBy(server.stream, opened) \cup {opened + 1})
        /\ Len(Append(plaintext, opened + 1))
             = Cardinality(DataBy(server.stream, opened) \cup {opened + 1})
    BY <1>1, <1>2, ListsAppend
  <2> QED
    BY <1>1, <1>2, <1>3, <2>1 DEF Text
<1>4. CASE Kind # "data"
  BY <1>1, <1>2, <1>4 DEF Text
<1> QED
  BY <1>3, <1>4

(* The beginning of a stretch.                                             *)
LEMMA PositionsPrefix ==
  ASSUME NEW f \in Nat, NEW l \in Nat, NEW k \in Nat \ {0}, f + k <= l + 1
  PROVE  SubSeq(Positions(f, l), 1, k) = Positions(f, f + k - 1)
<1> DEFINE a == Positions(f, l)
           c == Positions(f, f + k - 1)
           s == SubSeq(a, 1, k)
<1>1. /\ a \in Seq(Nat)
      /\ \A i \in 1..(l - f + 1) : a[i] = f + i - 1
  BY PositionsAreSeq
<1>2. /\ c \in Seq(Nat) /\ Len(c) = k
      /\ \A i \in 1..k : c[i] = f + i - 1
  <2>1. f + k - 1 \in Nat /\ f <= (f + k - 1) + 1 /\ (f + k - 1) - f + 1 = k
    OBVIOUS
  <2>2. /\ c \in Seq(Nat) /\ Len(c) = (f + k - 1) - f + 1
        /\ \A i \in 1..((f + k - 1) - f + 1) : c[i] = f + i - 1
    BY <2>1, PositionsAreSeq
  <2> QED
    BY <2>1, <2>2
<1> HIDE DEF a, c
<1>3. \A i \in 1..k : i \in 1..(l - f + 1)
  OBVIOUS
<1>4. \A i \in 1..k : a[i] \in Nat
  BY <1>1, <1>3
<1>5. /\ s \in Seq(Nat)
      /\ Len(s) = IF 1 <= k THEN k - 1 + 1 ELSE 0
      /\ \A i \in 1..(k - 1 + 1) : s[i] = a[1 + i - 1]
  BY <1>4, SubSeqProperties
<1> HIDE DEF s
<1>6. Len(s) = Len(c)
  BY <1>2, <1>5
<1>7. ASSUME NEW i \in 1..Len(s) PROVE s[i] = c[i]
  <2>1. i \in 1..k /\ i \in 1..(k - 1 + 1) /\ 1 + i - 1 = i
    BY <1>2, <1>6
  <2> QED
    BY <2>1, <1>1, <1>2, <1>3, <1>5
<1>8. s = c
  BY <1>2, <1>5, <1>6, <1>7, SeqEqual
<1> QED
  BY <1>8 DEF s, a, c

(* No more records are a product no greater.                               *)
LEMMA RecordsOfUnits ==
  ASSUME NEW a \in Nat, NEW b \in Nat, NEW u \in Nat \ {0}
  PROVE  /\ a <= b => a * u <= b * u
         /\ a * u < b * u => a < b
         /\ a * u = b * u => a = b
<1>1. ASSUME NEW x \in Nat, NEW y \in Nat, x < y PROVE x * u + u <= y * u
  <2>1. PICK d \in Nat : y = (x + 1) + d
    <3>1. y - (x + 1) \in Nat /\ y = (x + 1) + (y - (x + 1))
      BY <1>1
    <3> QED
      BY <3>1
  <2>2. y * u = x * u + u + d * u /\ d * u \in Nat /\ x * u \in Nat
    BY <2>1
  <2> QED
    BY <2>2
<1>2. a * u \in Nat /\ b * u \in Nat
  OBVIOUS
<1>3. a < b \/ a = b \/ b < a
  OBVIOUS
<1>4. CASE a < b
  BY <1>4, <1>1, <1>2
<1>5. CASE a = b
  BY <1>5, <1>2
<1>6. CASE b < a
  BY <1>6, <1>1, <1>2
<1> QED
  BY <1>3, <1>4, <1>5, <1>6

(* The stream of a server, and its length in units.                        *)
LEMMA StreamType ==
  ASSUME CourseInv
  PROVE  /\ server \in ServerTypes
         /\ server.stream \in Seq(Records)
         /\ Len(server.stream) \in Nat
         /\ \A i \in 1..Len(server.stream) : server.stream[i] \in Records
         /\ server.json \in Nat /\ server.answer \in Answers
         /\ Units = Len(server.stream) * RecordUnits
<1>1. server \in ServerTypes
  BY ServersAssumption DEF CourseInv
<1>2. server.stream \in Seq(Records) /\ server.json \in Nat /\ server.answer \in Answers
  BY <1>1 DEF ServerTypes
<1>3. Len(server.stream) \in Nat
  BY <1>2, LenProperties
<1>4. \A i \in 1..Len(server.stream) : server.stream[i] \in Records
  BY <1>2, ElementOfSeq
<1>5. Units = Len(server.stream) * RecordUnits
  BY <1>3, SizesAssumption DEF Units
<1> QED
  BY <1>1, <1>2, <1>3, <1>4, <1>5

(* A whole record at the head of the buffer is the next of the stream.     *)
LEMMA HeadIsNext ==
  ASSUME IInv, CourseInv, StreamInv, Looping, HasRecord
  PROVE  /\ IsExpected
         /\ opened < Len(server.stream)
         /\ Kind \in Records
<1> USE SizesAssumption
<1>1. NumbersInv /\ encrypted = Rest
  BY DEF IInv, BuffersInv, Looping, Handing
<1>2. Rest \in Seq(Nat) /\ Len(Rest) = taken - Used /\ Used \in Nat
  BY <1>1, RestLength
<1>3. Used + RecordUnits <= taken
  BY <1>1, <1>2 DEF HasRecord, NumbersInv
<1>4. (opened + 1) * RecordUnits = Used + RecordUnits
  BY <1>1, NextRecord DEF NumbersInv, Used
<1>5. opened < Len(server.stream)
  <2>1. opened * RecordUnits < Len(server.stream) * RecordUnits
    BY <1>1, <1>2, <1>3, StreamType DEF StreamInv, NumbersInv, Used
  <2>2. opened \in Nat /\ Len(server.stream) \in Nat /\ RecordUnits \in Nat \ {0}
    BY <1>1, StreamType DEF NumbersInv
  <2> QED
    BY <2>1, <2>2, RecordsOfUnits
<1>6. SubSeq(encrypted, 1, RecordUnits) = Expected
  <2>1. /\ Used + 1 \in Nat /\ taken \in Nat /\ RecordUnits \in Nat \ {0}
        /\ (Used + 1) + RecordUnits <= taken + 1
    BY <1>1, <1>2, <1>3 DEF NumbersInv
  <2>2. SubSeq(Positions(Used + 1, taken), 1, RecordUnits)
          = Positions(Used + 1, (Used + 1) + RecordUnits - 1)
    BY <2>1, PositionsPrefix
  <2>3. (Used + 1) + RecordUnits - 1 = (opened + 1) * RecordUnits
    BY <1>2, <1>4
  <2> QED
    BY <1>1, <2>2, <2>3 DEF Rest, Expected, Used
<1>7. Kind \in Records
  <2>1. opened + 1 \in 1..Len(server.stream)
    BY <1>1, <1>5, StreamType DEF NumbersInv
  <2> QED
    BY <2>1, StreamType DEF Kind
<1> QED
  BY <1>5, <1>6, <1>7 DEF IsExpected

(* Where the server has no more to send and no record is whole, all its    *)
(* records have been opened and nothing is left over.                      *)
LEMMA Exhausted ==
  ASSUME IInv, CourseInv, StreamInv, Looping, ~HasRecord, ~(taken < Units)
  PROVE  opened = Len(server.stream) /\ encrypted = <<>>
<1> USE SizesAssumption
<1>1. NumbersInv /\ encrypted = Rest
  BY DEF IInv, BuffersInv, Looping, Handing
<1>2. Rest \in Seq(Nat) /\ Len(Rest) = taken - Used /\ Used \in Nat
  BY <1>1, RestLength
<1>3. taken < Used + RecordUnits
  BY <1>1, <1>2 DEF HasRecord, NumbersInv
<1>4. (opened + 1) * RecordUnits = Used + RecordUnits
  BY <1>1, NextRecord DEF NumbersInv, Used
<1>5. Len(server.stream) \in Nat /\ Units = Len(server.stream) * RecordUnits /\ Units \in Nat
  BY StreamType
<1>6. taken = Units
  BY <1>1, <1>5 DEF NumbersInv, StreamInv
<1>7. opened = Len(server.stream)
  <2>1. opened \in Nat /\ opened + 1 \in Nat /\ RecordUnits \in Nat \ {0}
    BY <1>1 DEF NumbersInv
  <2>2. Len(server.stream) * RecordUnits < (opened + 1) * RecordUnits
    BY <1>3, <1>4, <1>5, <1>6
  <2>3. Len(server.stream) < opened + 1
    BY <1>5, <2>1, <2>2, RecordsOfUnits
  <2> QED
    BY <1>5, <2>1, <2>3 DEF StreamInv
<1>8. Used = taken
  BY <1>5, <1>6, <1>7 DEF Used
<1>9. encrypted = Positions(Used + 1, Used)
  BY <1>1, <1>8 DEF Rest
<1> QED
  BY <1>2, <1>7, <1>9, EmptyRest

-----------------------------------------------------------------------------
(* The text invariants are inductive.                                      *)

(* The steps a fault can meet.                                             *)
LEMMA FaultSteps ==
  DOMAIN FaultErrors = {"start", "resolve", "name", "handshake", "hs", "pin",
                        "send", "rx", "rehs"}
BY DEF FaultErrors

LEMMA InitFullInv == Init => FullInv
<1> SUFFICES ASSUME Init PROVE FullInv
  OBVIOUS
<1>1. IInv
  BY InitIInv
<1>2. EarnInv
  BY DEF Init, EarnInv, AnswerEarned
<1>3. CourseInv
  <2>1. Addresses \in Nat /\ 1 <= Addresses
    BY SizesAssumption
  <2>2. /\ address = 1 /\ pc = "start" /\ server \in Servers
        /\ sent = FALSE /\ fault = FALSE /\ result = "none"
    BY DEF Init
  <2>3. pc \in DOMAIN FaultErrors
    BY <2>2, FaultSteps
  <2>4. sent \in BOOLEAN /\ fault \in BOOLEAN
    BY <2>2
  <2>5. address \in Nat \ {0} /\ address <= Addresses + 1 /\ address <= Addresses
    BY <2>1, <2>2
  <2> QED
    BY <2>2, <2>3, <2>4, <2>5 DEF CourseInv
<1>4. StreamInv
  BY <1>3, StreamType, SizesAssumption DEF Init, StreamInv
<1>5. TextInv
  <2>1. <<>> \in Seq(Nat) /\ Len(<<>>) = 0
    BY EmptySeq
  <2>2. DataBy(server.stream, 0) = {} /\ Cardinality({}) = 0
    BY FS_EmptySet DEF DataBy
  <2>3. 1..0 = {}
    OBVIOUS
  <2>4. Lists(<<>>, {})
    BY <2>1, <2>2, <2>3 DEF Lists
  <2>5. MaxResponse \in Nat
    BY LimitAssumption
  <2>6. plaintext = <<>> /\ opened = 0
    BY DEF Init
  <2>7. DataBy(server.stream, opened) = {} /\ Len(plaintext) = 0
    BY <2>1, <2>2, <2>6
  <2> QED
    BY <2>1, <2>2, <2>3, <2>4, <2>5, <2>6, <2>7 DEF TextInv
<1>6. ShakeInv
  <2>1. 1..0 = {}
    OBVIOUS
  <2> QED
    BY <2>1 DEF Init, ShakeInv, Connecting, Proven
<1> QED
  BY <1>1, <1>2, <1>3, <1>4, <1>5, <1>6 DEF FullInv

(* The outcomes of a fault are errors.                                     *)
LEMMA FaultIsError ==
  \A p \in DOMAIN FaultErrors : FaultErrors[p] \subseteq Errors
BY DEF Errors

LEMMA ErrorTypes ==
  {"tls_failed", "io_failed", "connection_failed", "response_too_large"} \subseteq Errors
<1>1. /\ "tls_failed" \in FaultErrors["hs"] /\ "io_failed" \in FaultErrors["send"]
      /\ "connection_failed" \in FaultErrors["start"]
      /\ {"hs", "send", "start"} \subseteq DOMAIN FaultErrors
  BY DEF FaultErrors
<1>2. "response_too_large" \in Errors
  BY DEF Errors
<1> QED
  BY <1>1, <1>2, FaultIsError

(* No step is taken from the end.                                          *)
LEMMA NotDone == Next => pc # "done"
BY DEF Next, Step, Prepare, Resolve, Connect, ConnectFails, ConvertName,
   StartHandshake, HandshakeMessage, FinishHandshake, ValidateCertificatePin,
   Send, Receive, ReceiveFails, DecryptData, DecryptTicket, TakeTicket,
   RefuseRecord, DecodeLoginResponse, CallFails, Goto, Needs, Looping, FaultErrors

LEMMA StepCourseInv == CourseInv /\ [Next]_vars => CourseInv'
<1> SUFFICES ASSUME CourseInv, [Next]_vars PROVE CourseInv'
  OBVIOUS
<1> USE DEF CourseInv
<1>0. DOMAIN FaultErrors = {"start", "resolve", "name", "handshake", "hs", "pin",
                            "send", "rx", "rehs"}
  BY FaultSteps
<1>1. CASE Prepare
  BY <1>0, <1>1 DEF Prepare, Goto
<1>2. CASE Resolve
  BY <1>0, <1>2 DEF Resolve, Goto
<1>3. CASE Connect
  BY <1>0, <1>3 DEF Connect, Goto
<1>4. CASE ConnectFails
  BY <1>0, <1>4, ErrorTypes, SizesAssumption DEF ConnectFails, Return
<1>5. CASE ConvertName
  BY <1>0, <1>5 DEF ConvertName, Goto
<1>6. CASE StartHandshake
  BY <1>0, <1>6 DEF StartHandshake, Goto
<1>7. CASE HandshakeMessage
  BY <1>7 DEF HandshakeMessage, Take
<1>8. CASE FinishHandshake
  BY <1>0, <1>8 DEF FinishHandshake, Take
<1>9. CASE ValidateCertificatePin
  BY <1>0, <1>9, ErrorTypes DEF ValidateCertificatePin, Return
<1>10. CASE Send
  BY <1>0, <1>10 DEF Send
<1>11. CASE Receive
  BY <1>11 DEF Receive
<1>12. CASE ReceiveFails
  <2>1. pc' = "done" /\ result' \in {"tls_failed", "malformed_response", "io_failed"}
    BY <1>12 DEF ReceiveFails, Return
  <2>2. UNCHANGED <<server, address, sent>> /\ fault' \in BOOLEAN
    BY <1>12 DEF ReceiveFails
  <2> QED
    BY <2>1, <2>2, ErrorTypes DEF Answers
<1>13. CASE DecryptData
  BY <1>0, <1>13, ErrorTypes DEF DecryptData, Take, Return
<1>14. CASE DecryptTicket
  BY <1>0, <1>14 DEF DecryptTicket
<1>15. CASE TakeTicket
  BY <1>0, <1>15 DEF TakeTicket, Take
<1>16. CASE RefuseRecord
  BY <1>16, ErrorTypes DEF RefuseRecord, Return
<1>17. CASE DecodeLoginResponse
  BY <1>17, StreamType DEF DecodeLoginResponse, Return
<1>18. CASE CallFails
  <2>1. pc' = "done" /\ result' \in Errors
    BY <1>18, FaultIsError DEF CallFails, Return
  <2>2. UNCHANGED <<server, address, sent>> /\ fault' \in BOOLEAN
    BY <1>18 DEF CallFails
  <2> QED
    BY <2>1, <2>2
<1>19. CASE UNCHANGED vars
  BY <1>19 DEF vars
<1> QED
  BY <1>1, <1>2, <1>3, <1>4, <1>5, <1>6, <1>7, <1>8, <1>9, <1>10, <1>11, <1>12,
     <1>13, <1>14, <1>15, <1>16, <1>17, <1>18, <1>19 DEF Next, Step

(* A step that opens nothing, receives nothing and does not go back.       *)
LEMMA TextStays ==
  ASSUME StreamInv, TextInv, ShakeInv, UNCHANGED <<server, buffers, plaintext>>,
         pc' \notin Ended => pc \notin Ended,
         pc' \in Connecting => pc \in Connecting,
         pc' \in Proven => pc \in Proven,
         pc' = "rehs" => pc = "rehs" \/ (HasRecord /\ Kind = "ticket")
  PROVE  StreamInv' /\ TextInv' /\ ShakeInv'
<1>1. /\ server' = server /\ opened' = opened /\ taken' = taken /\ encrypted' = encrypted
      /\ plaintext' = plaintext
  BY DEF buffers
<1>2. StreamInv'
  BY <1>1 DEF StreamInv, Units
<1>3. TextInv'
  BY <1>1 DEF TextInv
<1>4. ShakeInv'
  <2>1. (pc' \in Connecting) => \A i \in 1..opened' : server'.stream[i] = "hello"
    BY <1>1 DEF ShakeInv
  <2>2. pc' \in Proven => \E f \in 1..opened' :
          server'.stream[f] = "finish" /\ \A i \in 1..(f - 1) : server'.stream[i] = "hello"
    BY <1>1 DEF ShakeInv
  <2>3. pc' = "rehs" => HasRecord' /\ Kind' = "ticket"
    BY <1>1 DEF ShakeInv, HasRecord, Kind
  <2> QED
    BY <2>1, <2>2, <2>3 DEF ShakeInv
<1> QED
  BY <1>2, <1>3, <1>4

(* Authenticate returns with the text it has.                              *)
LEMMA TextAtEnd ==
  ASSUME StreamInv, TextInv, ShakeInv, UNCHANGED <<server, buffers, plaintext>>,
         pc' = "done"
  PROVE  StreamInv' /\ TextInv' /\ ShakeInv'
BY TextStays DEF Ended, Connecting, Proven

(* A step that takes a record stays within the stream.                     *)
LEMMA StreamTake ==
  ASSUME IInv, CourseInv, StreamInv, Looping, HasRecord, Take
  PROVE  /\ opened' = opened + 1 /\ opened \in Nat /\ server' = server
         /\ StreamInv'
<1>1. opened < Len(server.stream)
  BY HeadIsNext
<1>2. opened' = opened + 1 /\ server' = server /\ taken' = taken
  BY DEF Take
<1>3. opened \in Nat /\ Len(server.stream) \in Nat
  BY StreamType DEF IInv, NumbersInv
<1> QED
  BY <1>1, <1>2, <1>3 DEF StreamInv, Units

(* A record without data leaves the text alone.                            *)
LEMMA TextTake ==
  ASSUME IInv, TextInv, server' = server, plaintext' = plaintext,
         opened' = opened + 1, Kind # "data",
         pc' \notin Ended => pc \notin Ended
  PROVE  TextInv'
<1>1. opened \in Nat
  BY DEF IInv, NumbersInv
<1>2. DataBy(server.stream, opened + 1) = DataBy(server.stream, opened)
  BY <1>1, DataByStep DEF Kind
<1>3. Lists(plaintext', DataBy(server'.stream, opened'))
  BY <1>2 DEF TextInv
<1>4. Len(plaintext') = Cardinality(DataBy(server'.stream, opened'))
  BY <1>2 DEF TextInv
<1> QED
  BY <1>3, <1>4 DEF TextInv

(* The records of the handshake stay what they were.                       *)
LEMMA ShakeTake ==
  ASSUME IInv, ShakeInv, server' = server, opened' = opened + 1,
         pc \in Proven, pc' \notin Connecting, pc' # "rehs"
  PROVE  ShakeInv'
<1>1. PICK f \in 1..opened :
        server.stream[f] = "finish" /\ \A i \in 1..(f - 1) : server.stream[i] = "hello"
  BY DEF ShakeInv
<1>2. f \in 1..opened'
  BY <1>1 DEF IInv, NumbersInv
<1>3. server'.stream[f] = "finish" /\ \A i \in 1..(f - 1) : server'.stream[i] = "hello"
  BY <1>1
<1> QED
  BY <1>2, <1>3 DEF ShakeInv

LEMMA StepTextInv ==
  ASSUME IInv, CourseInv, StreamInv, TextInv, ShakeInv, [Next]_vars
  PROVE  StreamInv' /\ TextInv' /\ ShakeInv'
<1>1. CASE Prepare
  BY <1>1, TextStays DEF Prepare, Goto, Ended, Connecting, Proven
<1>2. CASE Resolve
  BY <1>2, TextStays DEF Resolve, Goto, Ended, Connecting, Proven
<1>3. CASE Connect
  BY <1>3, TextStays DEF Connect, Goto, Ended, Connecting, Proven
<1>4. CASE ConnectFails
  BY <1>4, TextStays DEF ConnectFails, Return, Ended, Connecting, Proven
<1>5. CASE ConvertName
  BY <1>5, TextStays DEF ConvertName, Goto, Ended, Connecting, Proven
<1>6. CASE StartHandshake
  BY <1>6, TextStays DEF StartHandshake, Goto, Ended, Connecting, Proven
<1>7. CASE HandshakeMessage
  <2>1. Looping /\ HasRecord /\ Kind = "hello" /\ Take /\ pc' = pc /\ plaintext' = plaintext
    BY <1>7 DEF HandshakeMessage, Looping, IsNext, IsExpected
  <2>2. opened' = opened + 1 /\ opened \in Nat /\ server' = server /\ StreamInv'
    BY <2>1, StreamTake
  <2>3. TextInv'
    BY <2>1, <2>2, TextTake
  <2>4. pc = "hs"
    BY <1>7, <2>1 DEF HandshakeMessage, ShakeInv
  <2>5. \A i \in 1..opened' : server'.stream[i] = "hello"
    <3>1. \A i \in 1..opened' : i \in 1..opened \/ i = opened + 1
      BY <2>2
    <3> QED
      BY <2>1, <2>2, <2>4, <3>1 DEF ShakeInv, Connecting, Kind
  <2>6. ShakeInv'
    BY <2>1, <2>4, <2>5 DEF ShakeInv, Proven
  <2> QED
    BY <2>2, <2>3, <2>6
<1>8. CASE FinishHandshake
  <2>1. /\ Looping /\ HasRecord /\ Kind = "finish" /\ Take /\ plaintext' = plaintext
        /\ pc = "hs" /\ pc' = "pin"
    BY <1>8 DEF FinishHandshake, Looping, IsNext, IsExpected
  <2>2. opened' = opened + 1 /\ opened \in Nat /\ server' = server /\ StreamInv'
    BY <2>1, StreamTake
  <2>3. TextInv'
    BY <2>1, <2>2, TextTake DEF Ended
  <2>4. /\ opened + 1 \in 1..opened' /\ server'.stream[opened + 1] = "finish"
        /\ \A i \in 1..((opened + 1) - 1) : server'.stream[i] = "hello"
    BY <2>1, <2>2 DEF ShakeInv, Connecting, Kind
  <2>5. ShakeInv'
    BY <2>1, <2>4 DEF ShakeInv, Connecting
  <2> QED
    BY <2>2, <2>3, <2>5
<1>9. CASE ValidateCertificatePin
  BY <1>9, TextStays DEF ValidateCertificatePin, Return, Ended, Connecting, Proven
<1>10. CASE Send
  <2>1. /\ UNCHANGED <<server, taken, opened, plaintext>> /\ pc = "send" /\ pc' = "rx"
    BY <1>10 DEF Send
  <2>2. StreamInv'
    BY <2>1 DEF StreamInv, Units
  <2>3. TextInv'
    BY <2>1 DEF TextInv, Ended
  <2>4. ShakeInv'
    BY <2>1 DEF ShakeInv, Connecting, Proven
  <2> QED
    BY <2>2, <2>3, <2>4
<1>11. CASE Receive
  <2>1. /\ UNCHANGED <<server, opened, plaintext, pc>> /\ Looping /\ ~HasRecord
        /\ taken' <= Units
    BY <1>11 DEF Receive, Needs
  <2>2. StreamInv'
    BY <2>1 DEF StreamInv, Units
  <2>3. TextInv'
    BY <2>1 DEF TextInv
  <2>4. ShakeInv'
    BY <2>1 DEF ShakeInv
  <2> QED
    BY <2>2, <2>3, <2>4
<1>12. CASE ReceiveFails
  BY <1>12, TextAtEnd DEF ReceiveFails, Return
<1>13. CASE DecryptData
  <2>1. /\ Looping /\ HasRecord /\ Take /\ plaintext' = Text
        /\ pc = "rx" /\ pc' \in {"rx", "decode", "done"}
        /\ pc' \notin Ended => ~TooLarge(Text) /\ ~IsCompleteJson(server, Text)
    BY <1>13 DEF DecryptData, Looping, IsNext, IsExpected, Return, Ended
  <2>2. opened' = opened + 1 /\ opened \in Nat /\ server' = server /\ StreamInv'
    BY <2>1, StreamTake
  <2>3. /\ Text \in Seq(Nat) /\ Len(plaintext) \in Nat
        /\ Lists(Text, DataBy(server.stream, opened + 1))
        /\ Len(Text) = Cardinality(DataBy(server.stream, opened + 1))
        /\ Len(Text) = IF Kind = "data" THEN Len(plaintext) + 1 ELSE Len(plaintext)
    BY TextStep DEF IInv, TextInv
  <2>4. Len(plaintext) <= MaxResponse /\ server.json \notin 1..Len(plaintext)
    BY <2>1 DEF TextInv, Ended
  <2>5. Len(Text) <= MaxResponse + 1 /\ MaxResponse \in Nat
    BY <2>3, <2>4, LimitAssumption
  <2>6. ASSUME pc' \notin Ended
        PROVE  Len(Text) <= MaxResponse /\ server.json \notin 1..Len(Text)
    <3>1. Len(Text) <= MaxResponse
      BY <2>1, <2>3, <2>5, <2>6 DEF TooLarge
    <3>2. opened + 1 \in 0..Len(server.stream)
      BY <2>2, StreamType DEF StreamInv
    <3>3. ~(server.json > 0 /\ Len(Text) = server.json)
      BY <2>1, <2>3, <2>6, <3>2 DEF IsCompleteJson
    <3> QED
      BY <2>3, <2>4, <3>1, <3>3, StreamType
  <2>7. TextInv'
    BY <2>1, <2>2, <2>3, <2>5, <2>6 DEF TextInv
  <2>8. ShakeInv'
    BY <2>1, <2>2, ShakeTake DEF Proven, Connecting
  <2> QED
    BY <2>2, <2>7, <2>8
<1>14. CASE DecryptTicket
  BY <1>14, TextStays DEF DecryptTicket, IsNext, IsExpected, Ended, Connecting, Proven
<1>15. CASE TakeTicket
  <2>1. /\ Looping /\ HasRecord /\ Kind = "ticket" /\ Take /\ plaintext' = plaintext
        /\ pc = "rehs" /\ pc' = "rx"
    BY <1>15 DEF TakeTicket, Looping, IsNext, IsExpected
  <2>2. opened' = opened + 1 /\ opened \in Nat /\ server' = server /\ StreamInv'
    BY <2>1, StreamTake
  <2>3. TextInv'
    BY <2>1, <2>2, TextTake DEF Ended
  <2>4. ShakeInv'
    BY <2>1, <2>2, ShakeTake DEF Proven, Connecting
  <2> QED
    BY <2>2, <2>3, <2>4
<1>16. CASE RefuseRecord
  BY <1>16, TextAtEnd DEF RefuseRecord, Return
<1>17. CASE DecodeLoginResponse
  BY <1>17, TextAtEnd DEF DecodeLoginResponse, Return
<1>18. CASE CallFails
  BY <1>18, TextAtEnd DEF CallFails, Return
<1>19. CASE UNCHANGED vars
  BY <1>19, TextStays DEF vars, buffers, Ended
<1> QED
  BY <1>1, <1>2, <1>3, <1>4, <1>5, <1>6, <1>7, <1>8, <1>9, <1>10, <1>11, <1>12,
     <1>13, <1>14, <1>15, <1>16, <1>17, <1>18, <1>19 DEF Next, Step

LEMMA StepFullInv == FullInv /\ [Next]_vars => FullInv'
BY StepIInv, StepEarnInv, StepCourseInv, StepTextInv DEF FullInv

-----------------------------------------------------------------------------
(* The outcome.                                                            *)

(* A server that answers has its next record ready, and one that the step  *)
(* accepts, until the text is whole.                                       *)
LEMMA AnswerGoesOn ==
  ASSUME FullInv, Answerable(server), pc \in Connecting \cup {"rx", "rehs"}
  PROVE  /\ opened < Len(server.stream)
         /\ pc = "hs" => Kind \in {"hello", "finish"}
         /\ pc \in {"rx", "rehs"} => Kind \in {"data", "empty", "ticket"}
         /\ Len(plaintext) < server.json /\ server.json <= MaxResponse
<1> USE DEF FullInv
<1>0. PICK last \in 1..Len(server.stream) : \E f \in 1..last : AnswersAt(server, f, last)
  BY DEF Answerable
<1>1. PICK f \in 1..last : AnswersAt(server, f, last)
  BY <1>0
<1>2. /\ \A i \in 1..(f - 1) : server.stream[i] = "hello"
      /\ server.stream[f] = "finish"
      /\ \A i \in (f + 1)..last : server.stream[i] \in {"data", "empty", "ticket"}
      /\ Cardinality(DataBy(server.stream, last)) = server.json
  BY <1>1 DEF AnswersAt
<1>3. opened \in Nat /\ Len(server.stream) \in Nat /\ opened <= Len(server.stream)
  BY StreamType DEF IInv, NumbersInv, StreamInv
<1>4. Len(plaintext) \in Nat /\ Len(plaintext) = Cardinality(DataBy(server.stream, opened))
  BY LenProperties DEF TextInv
<1>5. server.json \in 1..MaxResponse /\ MaxResponse \in Nat
  BY LimitAssumption DEF Answerable
<1>6. server.json \notin 1..Len(plaintext)
  BY DEF TextInv, Ended, Connecting
<1>7. Len(plaintext) < server.json
  BY <1>4, <1>5, <1>6
<1>8. opened < last
  <2>1. SUFFICES ASSUME last <= opened PROVE FALSE
    BY <1>3
  <2>2. Cardinality(DataBy(server.stream, last)) <= Cardinality(DataBy(server.stream, opened))
    BY <2>1, <1>3, DataByGrows
  <2> QED
    BY <2>2, <1>2, <1>4, <1>5, <1>7
<1>9. ASSUME pc = "hs" PROVE Kind \in {"hello", "finish"}
  <2>1. \A i \in 1..opened : server.stream[i] = "hello"
    BY <1>9 DEF ShakeInv, Connecting
  <2>2. opened < f
    BY <2>1, <1>2, <1>3
  <2>3. opened + 1 \in 1..(f - 1) \/ opened + 1 = f
    BY <2>2, <1>3
  <2> QED
    BY <2>3, <1>2 DEF Kind
<1>10. ASSUME pc \in {"rx", "rehs"} PROVE Kind \in {"data", "empty", "ticket"}
  <2>1. PICK g \in 1..opened :
          server.stream[g] = "finish" /\ \A i \in 1..(g - 1) : server.stream[i] = "hello"
    BY <1>10 DEF ShakeInv, Proven
  <2>2. f <= g
    <3>1. SUFFICES ASSUME g < f PROVE FALSE
      BY <1>3
    <3>2. g \in 1..(f - 1)
      BY <3>1, <1>3
    <3> QED
      BY <3>2, <2>1, <1>2
  <2>3. opened + 1 \in (f + 1)..last
    BY <2>2, <1>3, <1>8
  <2> QED
    BY <2>3, <1>2 DEF Kind
<1> QED
  BY <1>3, <1>5, <1>7, <1>8, <1>9, <1>10

(* A recv that fails without a fault of the network has nothing to get:    *)
(* the server has sent all it sends.                                       *)
LEMMA ReceiveFailsAtEnd ==
  ASSUME FullInv, ReceiveFails, ~fault'
  PROVE  opened = Len(server.stream) /\ encrypted = <<>> /\ Looping /\ pc \in {"hs", "rx"}
<1> USE DEF FullInv
<1>1. Looping /\ ~HasRecord
  BY DEF ReceiveFails, Needs
<1>2. ~(HasRoom /\ taken < Units)
  BY DEF ReceiveFails
<1>3. NumbersInv /\ encrypted = Rest
  BY <1>1 DEF IInv, BuffersInv, Looping, Handing
<1>4. Rest \in Seq(Nat) /\ Len(Rest) = taken - Used /\ Used \in Nat
  BY <1>3, RestLength
<1>5. HasRoom
  BY <1>1, <1>3, <1>4, SizesAssumption DEF HasRecord, HasRoom, NumbersInv
<1>6. ~(taken < Units)
  BY <1>2, <1>5
<1>7. pc \in {"hs", "rx"}
  BY <1>1 DEF Looping, ShakeInv
<1> QED
  BY <1>1, <1>6, <1>7, Exhausted

OutcomeInv == AnswerIsFound /\ ResultExplained

(* A step that goes on has no outcome to explain.                          *)
LEMMA NoOutcome ==
  ASSUME CourseInv', EarnInv', pc' # "done"
  PROVE  OutcomeInv'
BY DEF CourseInv, EarnInv, OutcomeInv, AnswerIsFound, ResultExplained

(* Every step that ends the login ends it right.                           *)
LEMMA StepOutcome == FullInv /\ FullInv' /\ Next /\ pc' = "done" => OutcomeInv'
<1> SUFFICES ASSUME FullInv, FullInv', Next, pc' = "done" PROVE OutcomeInv'
  OBVIOUS
<1>0. pc # "done" /\ AnswerEarned'
  BY NotDone DEF FullInv, EarnInv
<1>1. CASE ConnectFails
  <2>1. address' > Addresses /\ result' = "connection_failed"
    BY <1>1, SizesAssumption DEF ConnectFails, Return, FullInv, CourseInv
  <2>2. ~(address' <= Addresses)
    BY <2>1, SizesAssumption DEF FullInv, CourseInv
  <2> QED
    BY <1>0, <2>1, <2>2 DEF OutcomeInv, AnswerIsFound, ResultExplained
<1>2. CASE ValidateCertificatePin
  <2>1. server'.pin = "other" /\ result' = "tls_failed"
    BY <1>2 DEF ValidateCertificatePin, Return
  <2>2. ~Answerable(server')
    BY <2>1 DEF Answerable
  <2> QED
    BY <1>0, <2>1, <2>2 DEF OutcomeInv, AnswerIsFound, ResultExplained
<1>3. CASE ReceiveFails
  <2>1. UNCHANGED <<server, opened, plaintext>> /\ Looping
    BY <1>3 DEF ReceiveFails, buffers, Needs
  <2>2. result' \in {"tls_failed", "malformed_response", "io_failed"}
    BY <1>3 DEF ReceiveFails, Return
  <2>3. ASSUME ~fault' PROVE ~Answerable(server')
    <3>1. opened = Len(server.stream)
      BY <1>3, <2>3, ReceiveFailsAtEnd
    <3>2. opened \in Nat
      BY DEF FullInv, IInv, NumbersInv
    <3>3. pc \in Connecting \cup {"rx", "rehs"}
      BY <2>1 DEF Looping, Connecting
    <3> QED
      BY <2>1, <3>1, <3>2, <3>3, AnswerGoesOn
  <2>4. ASSUME ~fault' PROVE Lists(plaintext, AllData)'
    <3>1. opened = Len(server.stream)
      BY <1>3, <2>4, ReceiveFailsAtEnd
    <3>2. Lists(plaintext, AllData)
      BY <3>1 DEF FullInv, TextInv, AllData
    <3> QED
      BY <2>1, <3>2 DEF AllData
  <2> QED
    BY <1>0, <2>2, <2>3, <2>4 DEF OutcomeInv, AnswerIsFound, ResultExplained
<1>4. CASE RefuseRecord
  <2>1. UNCHANGED <<server, opened, plaintext>> /\ Looping /\ result' = "tls_failed"
    BY <1>4 DEF RefuseRecord, buffers, Return
  <2>2. ~Answerable(server')
    <3>1. SUFFICES ASSUME Answerable(server) PROVE FALSE
      BY <2>1
    <3>2. /\ pc = "hs" => Kind \in {"hello", "finish"}
          /\ pc = "rx" => Kind \in {"data", "empty", "ticket"}
          /\ pc = "rehs" => Kind = "ticket"
      <4>1. pc \in Connecting \cup {"rx", "rehs"}
        BY <2>1 DEF Looping, Connecting
      <4> QED
        BY <3>1, <4>1, AnswerGoesOn DEF FullInv, ShakeInv
    <3>3. Kind \in Accepted[pc]
      BY <2>1, <3>2 DEF Looping, Accepted
    <3> QED
      BY <1>4, <3>3 DEF RefuseRecord
  <2> QED
    BY <1>0, <2>1, <2>2 DEF OutcomeInv, AnswerIsFound, ResultExplained
<1>5. CASE DecryptData
  <2>1. /\ Looping /\ HasRecord /\ Take /\ plaintext' = Text /\ pc = "rx"
        /\ result' = "response_too_large" /\ TooLarge(Text)
    BY <1>5 DEF DecryptData, Looping, IsNext, IsExpected, Return
  <2>2. opened' = opened + 1 /\ opened \in Nat /\ server' = server
    BY <2>1, StreamTake DEF FullInv
  <2>3. /\ Len(plaintext) \in Nat
        /\ Len(Text) = IF Kind = "data" THEN Len(plaintext) + 1 ELSE Len(plaintext)
        /\ Len(Text) > MaxResponse
    BY <2>1, TextStep DEF FullInv, IInv, TextInv, TooLarge
  <2>4. Len(plaintext) <= MaxResponse /\ server.json \notin 1..Len(plaintext)
        /\ MaxResponse \in Nat
    BY <2>1, LimitAssumption DEF FullInv, TextInv, Ended
  <2>5. server.json \notin 1..MaxResponse
    BY <2>3, <2>4
  <2>6. ~Answerable(server')
    BY <2>2, <2>5 DEF Answerable
  <2>7. Cardinality(AllData)' > MaxResponse
    <3>1. /\ Len(plaintext') = Cardinality(DataBy(server'.stream, opened'))
          /\ opened' <= Len(server'.stream) /\ Len(server'.stream) \in Nat
      BY <2>2, StreamType DEF FullInv, TextInv, StreamInv
    <3>2. Cardinality(DataBy(server'.stream, opened'))
            <= Cardinality(DataBy(server'.stream, Len(server'.stream)))
      BY <2>2, <3>1, DataByGrows
    <3>3. Cardinality(DataBy(server'.stream, Len(server'.stream))) \in Nat
      BY <3>1, DataByStep
    <3> QED
      BY <2>1, <2>3, <2>4, <3>1, <3>2, <3>3 DEF AllData
  <2> QED
    BY <1>0, <2>1, <2>2, <2>5, <2>6, <2>7 DEF OutcomeInv, AnswerIsFound, ResultExplained
<1>6. CASE DecodeLoginResponse
  <2>1. result' = server'.answer /\ UNCHANGED <<server, plaintext>> /\ pc = "decode"
    BY <1>6 DEF DecodeLoginResponse, Return
  <2>2. IsCompleteJson(server', plaintext')
    BY <2>1 DEF FullInv, EarnInv
  <2>3. result' \in Answers
    BY <2>1, StreamType DEF FullInv
  <2> QED
    BY <1>0, <2>1, <2>2, <2>3 DEF OutcomeInv, AnswerIsFound, ResultExplained, Answers
<1>7. CASE CallFails
  <2>1. pc \in DOMAIN FaultErrors /\ result' \in FaultErrors[pc]
    BY <1>7 DEF CallFails, Return
  <2>2. result' # "malformed_response" /\ result' # "response_too_large"
    BY <2>1, FaultSteps DEF FaultErrors
  <2>3. fault'
    <3>1. Looping => IsExpected
      BY <1>7, HeadIsNext DEF CallFails, FullInv
    <3> QED
      BY <1>7, <3>1 DEF CallFails
  <2> QED
    BY <1>0, <2>2, <2>3 DEF OutcomeInv, AnswerIsFound, ResultExplained
<1>8. CASE \/ Prepare \/ Resolve \/ Connect \/ ConvertName \/ StartHandshake
           \/ HandshakeMessage \/ FinishHandshake \/ Send \/ Receive
           \/ DecryptTicket \/ TakeTicket
  BY <1>0, <1>8 DEF Prepare, Resolve, Connect, ConvertName, StartHandshake,
     HandshakeMessage, FinishHandshake, Send, Receive, DecryptTicket, TakeTicket, Goto
<1> QED
  BY <1>1, <1>2, <1>3, <1>4, <1>5, <1>6, <1>7, <1>8 DEF Next, Step

LEMMA StepOutcomeInv == FullInv /\ OutcomeInv /\ [Next]_vars => OutcomeInv'
<1> SUFFICES ASSUME FullInv, OutcomeInv, [Next]_vars PROVE OutcomeInv'
  OBVIOUS
<1>1. FullInv'
  BY StepFullInv
<1>2. CASE Next
  BY <1>1, <1>2, StepOutcome, NoOutcome DEF FullInv
<1>3. CASE UNCHANGED vars
  BY <1>3 DEF vars, OutcomeInv, AnswerIsFound, ResultExplained, AnswerEarned, AllData
<1> QED
  BY <1>2, <1>3

-----------------------------------------------------------------------------
(* The theorems.                                                           *)

(* The inductive invariant holds in every behaviour of Authenticate.       *)
THEOREM Invariance == Spec => []IInv
BY InitIInv, StepIInv, PTL DEF Spec

(* No ciphertext is lost, repeated or reordered between the loops.         *)
THEOREM Conservation == Spec => []Conserved
<1>1. IInv => Conserved
  <2> SUFFICES ASSUME IInv PROVE encrypted \o pending = Rest
    BY DEF Conserved, Rest, Used
  <2>1. Rest \in Seq(Nat)
    BY RestLength DEF IInv
  <2>2. Rest \o <<>> = Rest /\ <<>> \o Rest = Rest
    BY <2>1, ConcatEmptySeq
  <2> QED
    BY <2>2 DEF IInv, BuffersInv
<1> QED
  BY <1>1, Invariance, PTL

(* A well-formed stream never meets kMaximumEncryptedSize.                 *)
THEOREM RoomForEveryRecord == Spec => []BuffersBounded
<1>1. IInv => BuffersBounded
  <2> SUFFICES ASSUME IInv PROVE BuffersBounded
    OBVIOUS
  <2>1. NumbersInv /\ Rest \in Seq(Nat) /\ Len(Rest) = taken - Used /\ Used \in Nat
    BY RestLength DEF IInv
  <2>2. Len(<<>>) = 0
    BY EmptySeq
  <2>3. Len(encrypted) < RecordUnits + ChunkUnits /\ Len(pending) < ChunkUnits
    BY <2>1, <2>2, SizesAssumption DEF IInv, BuffersInv, NumbersInv
  <2>4. Needs => HasRoom
    <3> SUFFICES ASSUME Looping, ~HasRecord PROVE HasRoom
      BY DEF Needs
    <3>1. Len(encrypted) = taken - Used
      BY <2>1 DEF Looping, IInv, BuffersInv, Handing
    <3> QED
      BY <3>1, <2>1, SizesAssumption DEF HasRecord, HasRoom, NumbersInv
  <2> QED
    BY <2>3, <2>4 DEF BuffersBounded
<1> QED
  BY <1>1, Invariance, PTL

(* The credentials wait for the handshake and for the pin.                 *)
THEOREM PinBeforeCredentials == Spec => []CredentialsAfterPin
<1>1. IInv => CredentialsAfterPin
  BY DEF IInv, PinInv, CredentialsAfterPin
<1> QED
  BY <1>1, Invariance, PTL

(* An answer is returned only when it was decoded from the whole text, on  *)
(* a connection that had the credentials (DecodeLoginResponse).            *)
THEOREM AnswersAreEarned == Spec => []AnswerEarned
<1>1. Init => EarnInv
  BY DEF Init, EarnInv, AnswerEarned
<1>2. EarnInv => AnswerEarned
  BY DEF EarnInv
<1> QED
  BY <1>1, <1>2, StepEarnInv, PTL DEF Spec

(* The text, the stream and the outcome are right in every behaviour.      *)
THEOREM FullInvariance == Spec => []FullInv
BY InitFullInv, StepFullInv, PTL DEF Spec

THEOREM OutcomeInvariance == Spec => []OutcomeInv
<1>1. Init => OutcomeInv
  BY DEF Init, OutcomeInv, AnswerIsFound, ResultExplained, AnswerEarned
<1> QED
  BY <1>1, StepOutcomeInv, FullInvariance, PTL DEF Spec

(* A sequence of naturals that are all in a set is a sequence of the set.  *)
LEMMA SeqOf ==
  ASSUME NEW S, NEW s \in Seq(Nat), \A i \in 1..Len(s) : s[i] \in S
  PROVE  s \in Seq(S)
<1>1. s \in [1..Len(s) -> Nat] /\ Len(s) \in Nat
  BY LenProperties
<1>2. s \in [1..Len(s) -> S]
  BY <1>1
<1> QED
  BY <1>1, <1>2, SeqDef

(* Every variable has its type: what the buffers hold are positions of the *)
(* stream, the text numbers of its records, and the result one of those    *)
(* that auth_client.cpp and auth_protocol.cpp can return.                  *)
THEOREM TypeCorrect == Spec => []TypeOK
<1>1. FullInv => TypeOK
  <2> SUFFICES ASSUME FullInv PROVE TypeOK
    OBVIOUS
  <2> USE DEF FullInv
  <2>1. NumbersInv /\ Rest \in Seq(Nat) /\ Len(Rest) = taken - Used /\ Used \in Nat
    BY RestLength DEF IInv
  <2>2. Units \in Nat
    BY StreamType, SizesAssumption
  <2>3. taken \in 0..Units
    BY <2>1, <2>2 DEF NumbersInv, StreamInv
  <2>4. opened \in 0..Len(server.stream) /\ opened \in Nat /\ Len(server.stream) \in Nat
    BY <2>1, StreamType DEF NumbersInv, StreamInv
  <2>5. Rest \in Seq(1..Units)
    <3>1. Used + 1 \in Nat /\ Used + 1 <= taken + 1 /\ taken \in Nat
      BY <2>1 DEF NumbersInv
    <3>2. \A i \in 1..(taken - (Used + 1) + 1) : Rest[i] = (Used + 1) + i - 1
      BY <3>1, PositionsAreSeq DEF Rest
    <3>3. \A i \in 1..Len(Rest) : Rest[i] \in 1..Units
      BY <2>1, <2>2, <2>3, <3>1, <3>2
    <3> QED
      BY <2>1, <3>3, SeqOf
  <2>6. encrypted \in Seq(1..Units) /\ pending \in Seq(1..Units)
    BY <2>5, EmptySeq DEF IInv, BuffersInv
  <2>7. plaintext \in Seq(1..Len(server.stream))
    <3>1. \A i \in 1..Len(plaintext) : plaintext[i] \in DataBy(server.stream, opened)
      BY DEF TextInv, Lists
    <3>2. DataBy(server.stream, opened) \subseteq 1..Len(server.stream)
      BY <2>4 DEF DataBy
    <3> QED
      BY <3>1, <3>2, SeqOf DEF TextInv
  <2>8. address \in 1..(Addresses + 1)
    BY SizesAssumption DEF CourseInv
  <2>9. server \in ServerTypes
    BY StreamType
  <2> QED
    BY <2>3, <2>4, <2>6, <2>7, <2>8, <2>9 DEF TypeOK, CourseInv, TextInv
<1> QED
  BY <1>1, FullInvariance, PTL

(* Whenever nothing fails and the server answers within the limits, its    *)
(* answer is what Authenticate returns: for every server, every number of  *)
(* tickets and empty records in between, and every way recv cuts them.     *)
THEOREM AnswerFound == Spec => []AnswerIsFound
<1>1. OutcomeInv => AnswerIsFound
  BY DEF OutcomeInv
<1> QED
  BY <1>1, OutcomeInvariance, PTL

(* A response is too large or malformed only because of what the server    *)
(* sent (ReceiveJson, DecodeLoginResponse).                                *)
THEOREM OutcomeExplained == Spec => []ResultExplained
<1>1. OutcomeInv => ResultExplained
  BY DEF OutcomeInv
<1> QED
  BY <1>1, OutcomeInvariance, PTL

-----------------------------------------------------------------------------
(* Authenticate implements RecordLogin.                                    *)

(* Both modules read the server in the same way.                           *)
LEMMA LoginShares ==
  /\ Login!Records = Records
  /\ \A s, t : Login!IsCompleteJson(s, t) = IsCompleteJson(s, t)
  /\ \A t : Login!TooLarge(t) = TooLarge(t)
BY DEF Login!Records, Records, Login!IsCompleteJson, IsCompleteJson,
   Login!Lists, Lists, Login!DataBy, DataBy, Login!TooLarge, TooLarge

(* What is left alone here is left alone there.                            *)
LEMMA LoginStutters ==
  ASSUME UNCHANGED <<server, opened, plaintext, sent, fault, result>>,
         LoginStep' = LoginStep
  PROVE  [Login!LoginNext]_(Login!loginVars)
BY DEF Login!loginVars

LEMMA LoginRefines ==
  ASSUME FullInv, [Next]_vars
  PROVE  [Login!LoginNext]_(Login!loginVars)
<1>1. CASE Prepare
  BY <1>1, LoginStutters DEF Prepare, Goto, buffers, LoginStep
<1>2. CASE Resolve
  BY <1>2, LoginStutters DEF Resolve, Goto, buffers, LoginStep
<1>3. CASE Connect
  BY <1>3, LoginStutters DEF Connect, Goto, buffers, LoginStep
<1>4. CASE ConnectFails
  <2>1. CASE pc' = "done"
    <3>1. Login!Unreachable
      BY <1>4, <2>1 DEF ConnectFails, Return, buffers, LoginStep, Login!Unreachable, Login!End
    <3> QED
      BY <3>1 DEF Login!LoginNext
  <2>2. CASE pc' # "done"
    BY <1>4, <2>2, LoginStutters DEF ConnectFails, Return, buffers, LoginStep
  <2> QED
    BY <2>1, <2>2
<1>5. CASE ConvertName
  BY <1>5, LoginStutters DEF ConvertName, Goto, buffers, LoginStep
<1>6. CASE StartHandshake
  <2>1. Login!Connected
    BY <1>6 DEF StartHandshake, Goto, buffers, LoginStep, Login!Connected, Login!Goto
  <2> QED
    BY <2>1 DEF Login!LoginNext
<1>7. CASE HandshakeMessage
  <2>1. Looping /\ HasRecord /\ Kind = "hello"
    BY <1>7 DEF HandshakeMessage, Looping, IsNext, IsExpected
  <2>2. pc = "hs" /\ opened < Len(server.stream)
    BY <1>7, <2>1, HeadIsNext DEF HandshakeMessage, FullInv, ShakeInv
  <2>3. Login!OpenHello
    BY <1>7, <2>1, <2>2 DEF HandshakeMessage, Take, Kind, LoginStep,
       Login!OpenHello, Login!OpenRecord, Login!Comes, Login!Goto
  <2> QED
    BY <2>3 DEF Login!LoginNext
<1>8. CASE FinishHandshake
  <2>1. Looping /\ HasRecord /\ Kind = "finish"
    BY <1>8 DEF FinishHandshake, Looping, IsNext, IsExpected
  <2>2. opened < Len(server.stream)
    BY <2>1, HeadIsNext DEF FullInv
  <2>3. Login!OpenFinish
    BY <1>8, <2>1, <2>2 DEF FinishHandshake, Take, Kind, LoginStep,
       Login!OpenFinish, Login!OpenRecord, Login!Comes, Login!Goto
  <2> QED
    BY <2>3 DEF Login!LoginNext
<1>9. CASE ValidateCertificatePin
  <2>1. Login!CheckPin
    BY <1>9 DEF ValidateCertificatePin, Return, buffers, LoginStep,
       Login!CheckPin, Login!End, Login!Goto
  <2> QED
    BY <2>1 DEF Login!LoginNext
<1>10. CASE Send
  <2>1. Login!SendRequest
    BY <1>10 DEF Send, LoginStep, Login!SendRequest, Login!Goto
  <2> QED
    BY <2>1 DEF Login!LoginNext
<1>11. CASE Receive
  BY <1>11, LoginStutters DEF Receive, LoginStep
<1>12. CASE ReceiveFails
  <2>1. /\ UNCHANGED <<server, opened, plaintext, sent>> /\ Looping /\ ~HasRecord
        /\ pc' = "done" /\ pc \in {"hs", "rx"}
        /\ result' = IF pc # "rx" THEN "tls_failed"
                     ELSE IF encrypted = <<>> /\ plaintext # <<>> THEN "malformed_response"
                     ELSE "io_failed"
    BY <1>12 DEF ReceiveFails, buffers, Needs, Looping, Return, FullInv, ShakeInv
  <2>2. fault' \in BOOLEAN /\ (~fault' => fault' = fault)
    BY <1>12, StepFullInv DEF ReceiveFails, FullInv, CourseInv
  <2>3. CASE fault'
    <3>1. Login!Fault
      BY <2>1, <2>2, <2>3 DEF LoginStep, Login!Fault, Login!FaultsAt, Login!Truncated, Login!End
    <3> QED
      BY <3>1 DEF Login!LoginNext
  <2>4. CASE ~fault'
    <3>1. opened = Len(server.stream) /\ encrypted = <<>>
      BY <1>12, <2>4, ReceiveFailsAtEnd
    <3>2. Login!StreamEnds
      BY <2>1, <2>2, <2>4, <3>1 DEF LoginStep, Login!StreamEnds, Login!Truncated, Login!End
    <3> QED
      BY <3>2 DEF Login!LoginNext
  <2> QED
    BY <2>3, <2>4
<1>13. CASE DecryptData
  <2>1. Looping /\ HasRecord /\ Kind \in {"data", "empty"}
    BY <1>13 DEF DecryptData, Looping, IsNext, IsExpected
  <2>2. opened < Len(server.stream)
    BY <2>1, HeadIsNext DEF FullInv
  <2>3. Text = Login!Longer
    BY DEF Text, Kind, Login!Longer
  <2>4. Login!OpenData
    BY <1>13, <2>1, <2>2, <2>3, LoginShares DEF DecryptData, Take, Kind, Return, LoginStep,
       Login!OpenData, Login!Comes, Login!Goto, Login!End
  <2> QED
    BY <2>4 DEF Login!LoginNext
<1>14. CASE DecryptTicket
  BY <1>14, LoginStutters DEF DecryptTicket, buffers, LoginStep
<1>15. CASE TakeTicket
  <2>1. Looping /\ HasRecord /\ Kind = "ticket"
    BY <1>15 DEF TakeTicket, Looping, IsNext, IsExpected
  <2>2. opened < Len(server.stream)
    BY <2>1, HeadIsNext DEF FullInv
  <2>3. Login!OpenTicket
    BY <1>15, <2>1, <2>2 DEF TakeTicket, Take, Kind, LoginStep,
       Login!OpenTicket, Login!OpenRecord, Login!Comes, Login!Goto
  <2> QED
    BY <2>3 DEF Login!LoginNext
<1>16. CASE RefuseRecord
  <2>1. Looping /\ HasRecord /\ Kind \notin Accepted[pc]
    BY <1>16 DEF RefuseRecord, IsExpected
  <2>2. opened < Len(server.stream) /\ Kind \in Records
    BY <2>1, HeadIsNext DEF FullInv
  <2>3. pc # "rehs"
    BY <2>1 DEF FullInv, ShakeInv, Accepted
  <2>4. \/ pc = "hs" /\ Kind \notin {"hello", "finish"}
        \/ pc = "rx" /\ Kind \notin {"data", "empty", "ticket"}
    BY <2>1, <2>3 DEF Looping, Accepted
  <2>5. Login!Refuse
    BY <1>16, <2>2, <2>4, LoginShares DEF RefuseRecord, Return, Kind, buffers, LoginStep,
       Login!Refuse, Login!Comes, Login!End
  <2> QED
    BY <2>5 DEF Login!LoginNext
<1>17. CASE DecodeLoginResponse
  <2>1. Login!Decode
    BY <1>17 DEF DecodeLoginResponse, Return, buffers, LoginStep, Login!Decode, Login!End
  <2> QED
    BY <2>1 DEF Login!LoginNext
<1>18. CASE CallFails
  <2>1. /\ UNCHANGED <<server, opened, plaintext, sent>> /\ pc' = "done"
        /\ pc \in DOMAIN FaultErrors /\ result' \in FaultErrors[pc]
    BY <1>18 DEF CallFails, buffers, Return
  <2>2. fault' = TRUE
    <3>1. Looping => IsExpected
      BY <1>18, HeadIsNext DEF CallFails, FullInv
    <3> QED
      BY <1>18, <3>1 DEF CallFails
  <2>3. result' \in Login!FaultsAt(LoginStep)
    BY <2>1, FaultSteps DEF FaultErrors, LoginStep, Login!FaultsAt
  <2>4. Login!Fault
    BY <2>1, <2>2, <2>3 DEF LoginStep, Login!Fault, Login!End
  <2> QED
    BY <2>4 DEF Login!LoginNext
<1>19. CASE UNCHANGED vars
  BY <1>19, LoginStutters DEF vars, buffers, LoginStep
<1> QED
  BY <1>1, <1>2, <1>3, <1>4, <1>5, <1>6, <1>7, <1>8, <1>9, <1>10, <1>11, <1>12,
     <1>13, <1>14, <1>15, <1>16, <1>17, <1>18, <1>19 DEF Next, Step

(* Every behaviour of Authenticate, with its buffers, chunks and loops, is *)
(* one of RecordLogin, which takes whole records in order.                 *)
THEOREM RecordsRefined == Spec => ImplementsLogin
<1>1. Init => Login!LoginInit
  BY DEF Init, Login!LoginInit, LoginStep
<1>2. FullInv /\ [Next]_vars => [Login!LoginNext]_(Login!loginVars)
  BY LoginRefines
<1> QED
  BY <1>1, <1>2, FullInvariance, PTL DEF Spec, ImplementsLogin, Login!LoginSpec

=============================================================================
