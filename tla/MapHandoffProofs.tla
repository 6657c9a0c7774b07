-------------------------- MODULE MapHandoffProofs ---------------------------
(***************************************************************************)
(* Proofs about MapHandoff, for any word width and any number of zone      *)
(* changes: with a single character selection the guest, the hooks and the *)
(* map server agree on the key.  MapRelogin.cfg shows that a second        *)
(* selection breaks this.                                                  *)
(***************************************************************************)
EXTENDS MapHandoff, SequenceTheorems, TLAPS

Last == sent[Len(sent)]

(* The five states of a handoff.  What the server sent last tells which    *)
(* datagrams may still be received: an unread one is always the last, and  *)
(* a 0x00B comes again only while its rollover is owed.                    *)
Quiet == read = Len(sent)
AskedBack == Len(sent) > 0 => Last.kind = "zone" /\ owed

Selected ==
    /\ stage = "handoff" /\ srvStage = "await_login"
    /\ key = Derive(srvKey)
    /\ Quiet /\ AskedBack

Entering ==
    /\ stage = "entering" /\ srvStage = "await_login"
    /\ key = Derive(srvKey)
    /\ installed[Guest] = key
    /\ Quiet /\ AskedBack

Admitted ==
    /\ stage = "entering" /\ srvStage = "inzone"
    /\ key = Derive(srvKey)
    /\ installed[Guest] = key
    /\ Last = Datagram("login", srvKey)
    /\ read = Len(sent) - 1
    /\ read > 0 => sent[read].kind = "zone" /\ owed

InZone ==
    /\ stage = "inzone" /\ srvStage = "inzone"
    /\ key = Derive(srvKey)
    /\ installed[Guest] = key
    /\ Len(sent) > 0 /\ Last.kind = "login"
    /\ Quiet /\ ~owed

SentOn ==
    /\ stage = "inzone" /\ srvStage = "await_login"
    /\ \E w \in Words : key = Derive(w) /\ srvKey = NextWord(w) /\ Last = Datagram("zone", w)
    /\ installed[Guest] = key
    /\ read = Len(sent) - 1
    /\ read > 0 /\ sent[read].kind = "login"
    /\ ~owed

Before ==
    /\ stage = "lobby" /\ srvStage = "none" /\ logins = 0
    /\ key = Derive(mapSessionKey)
    /\ sent = <<>> /\ read = 0

\* The guest has left; with no selection to come nothing depends on the key.
After == stage = "lobby" /\ srvStage = "none" /\ logins = MaxLogins

HandoffInv ==
    \/ Before
    \/ After
    \/ logins = MaxLogins /\ (Selected \/ Entering \/ Admitted \/ InZone \/ SentOn)

Kinds == {"login", "zone"}
Datagrams == [kind : Kinds, cipher : Ciphers]

(* The hooks' key is never the wiped one, and once a character is selected *)
(* the map server has a key too.                                           *)
KeyInv ==
    /\ key \in {Derive(w) : w \in Words}
    /\ srvStage # "none" => srvKey \in Words

IInv == TypeOK /\ KeyInv /\ HandoffInv

(* The rollover word keeps its width.                                      *)
LEMMA NextWordType == \A w \in Words : NextWord(w) \in Words
  BY KeyAssumption, SMT DEF Words, NextWord

(* A datagram appended goes to the end and moves nothing.                  *)
LEMMA AppendDatagram ==
  ASSUME NEW s \in Seq(Datagrams), NEW d \in Datagrams
  PROVE  /\ Append(s, d) \in Seq(Datagrams)
         /\ Len(Append(s, d)) = Len(s) + 1
         /\ Append(s, d)[Len(s) + 1] = d
         /\ \A i \in 1..Len(s) : Append(s, d)[i] = s[i]
  OBVIOUS

LEMMA TypeStep == TypeOK /\ KeyInv /\ [Next]_vars => TypeOK' /\ KeyInv'
<1> SUFFICES ASSUME TypeOK, KeyInv, [Next]_vars PROVE TypeOK' /\ KeyInv'
  OBVIOUS
<1> USE NextWordType, KeyAssumption, BoundsAssumption DEF TypeOK, KeyInv
<1>0. sent \in Seq(Datagrams)
  BY DEF Datagrams, Kinds
<1>1. CASE Select
  BY <1>1 DEF Select, cell, Sessions
<1>2. CASE TakeKey
  BY <1>2 DEF TakeKey, server, counters, Cell!Install
<1>3. CASE ServerAdmits
  <2>1. Datagram("login", srvKey) \in Datagrams
    BY <1>3 DEF ServerAdmits, Datagram, Datagrams, Kinds, Ciphers
  <2> QED
    BY <1>0, <1>3, <2>1, AppendDatagram DEF ServerAdmits, cell, counters, Datagrams, Kinds
<1>4. CASE ServerZones
  <2>1. Datagram("zone", srvKey) \in Datagrams
    BY <1>4 DEF ServerZones, Datagram, Datagrams, Kinds, Ciphers
  <2> QED
    BY <1>0, <1>4, <2>1, AppendDatagram DEF ServerZones, cell, Datagrams, Kinds, Sessions
<1>5. CASE Logout
  BY <1>5 DEF Logout, cell, counters
<1>6. ASSUME NEW i \in 1..Len(sent), DeliverZone(i) PROVE TypeOK' /\ KeyInv'
  <2>1. key' \in {Derive(w) : w \in Words} /\ owed' \in BOOLEAN /\ phase' = "open" /\ installed' = installed
    <3>1. PICK w \in Words : key = Derive(w)
      OBVIOUS
    <3>2. Derive(w).md5 = w
      BY DEF Derive
    <3> QED
      BY <1>6, <3>1, <3>2 DEF DeliverZone, Cell!Rollover, cell, Cell!Derive, Derive, Cell!NextWord, NextWord
  <2>2. key' \in Ciphers
    BY <2>1 DEF Ciphers
  <2> QED
    BY <1>6, <2>1, <2>2 DEF DeliverZone, Deliver, server, counters
<1>7. ASSUME NEW i \in 1..Len(sent), DeliverLogin(i) PROVE TypeOK' /\ KeyInv'
  <2>1. UNCHANGED <<phase, key, installed>> /\ owed' = FALSE
    BY <1>7 DEF DeliverLogin, Cell!Login
  <2> QED
    <3>1. /\ stage' \in {"lobby", "handoff", "entering", "inzone"}
          /\ UNCHANGED <<mapSessionKey, srvStage, srvKey, sent, zones, logins>>
          /\ read' = i
      BY <1>7 DEF DeliverLogin, Deliver, server, counters
    <3>2. KeyInv'
      BY <2>1, <3>1
    <3>3. read' \in 0..Len(sent)
      BY <1>0, <3>1
    <3> QED
      BY <2>1, <3>1, <3>2, <3>3
<1>8. CASE UNCHANGED vars
  BY <1>8 DEF vars, cell, server, counters
<1> QED
  BY <1>1, <1>2, <1>3, <1>4, <1>5, <1>6, <1>7, <1>8 DEF Next
(* What a delivery can be in each of the five states.                      *)
LEMMA DeliverCases ==
  ASSUME IInv, logins = MaxLogins, NEW i \in 1..Len(sent), NEW kind \in Kinds, Deliver(i, kind)
  PROVE  /\ Selected \/ Entering => i = read /\ kind = "zone" /\ owed
         /\ Admitted => \/ i = read /\ kind = "zone" /\ owed
                        \/ i = Len(sent) /\ kind = "login"
         /\ InZone => i = read /\ kind = "login"
         /\ SentOn => \/ i = read /\ kind = "login"
                      \/ i = Len(sent) /\ kind = "zone"
<1>1. /\ Len(sent) \in Nat /\ read \in 0..Len(sent) /\ i \in read..Len(sent) /\ i > 0
      /\ sent[i].kind = kind
  BY DEF IInv, TypeOK, Deliver
<1>2. "login" # "zone"
  OBVIOUS
<1>3. Selected \/ Entering => i = read /\ kind = "zone" /\ owed
  BY <1>1 DEF Selected, Entering, Quiet, AskedBack, Last
<1>4. Admitted => \/ i = read /\ kind = "zone" /\ owed
                  \/ i = Len(sent) /\ kind = "login"
  BY <1>1 DEF Admitted, Last, Datagram
<1>5. InZone => i = read /\ kind = "login"
  BY <1>1 DEF InZone, Quiet, Last
<1>6. SentOn => \/ i = read /\ kind = "login"
                \/ i = Len(sent) /\ kind = "zone"
  BY <1>1 DEF SentOn, Last, Datagram
<1> QED
  BY <1>3, <1>4, <1>5, <1>6

LEMMA HandoffStep ==
  ASSUME MaxLogins <= 1, IInv, [Next]_vars
  PROVE  HandoffInv'
<1> USE BoundsAssumption
<1>t. /\ sent \in Seq(Datagrams) /\ Len(sent) \in Nat /\ read \in 0..Len(sent)
      /\ logins \in 0..MaxLogins /\ owed \in BOOLEAN
      /\ installed \in [{Guest} -> Ciphers]
  BY DEF IInv, TypeOK, Datagrams, Kinds
<1>1. CASE Select
  <2>1. Before /\ MaxLogins = 1
    BY <1>1, <1>t DEF Select, IInv, HandoffInv, Before, After, Selected, Entering, Admitted, InZone, SentOn
  <2> QED
    BY <1>1, <1>t, <2>1 DEF Select, HandoffInv, Before, Selected, Quiet, AskedBack, cell
<1>2. CASE TakeKey
  <2>1. Selected /\ logins = MaxLogins
    BY <1>2 DEF TakeKey, IInv, HandoffInv, Before, After, Selected, Entering, Admitted, InZone, SentOn
  <2>2. installed'[Guest] = key /\ UNCHANGED <<phase, key, owed>>
    BY <1>2, <1>t DEF TakeKey, Cell!Install
  <2>3. Entering'
    BY <1>2, <2>1, <2>2 DEF TakeKey, Selected, Entering, Quiet, AskedBack, Last, server
  <2> QED
    BY <1>2, <2>1, <2>3 DEF TakeKey, HandoffInv, counters
<1>3. CASE ServerAdmits
  <2>1. Entering /\ logins = MaxLogins
    BY <1>3 DEF ServerAdmits, IInv, HandoffInv, Before, After, Selected, Entering, Admitted, InZone, SentOn
  <2>2. Datagram("login", srvKey) \in Datagrams
    BY <1>3 DEF ServerAdmits, IInv, KeyInv, Datagram, Datagrams, Kinds, Ciphers
  <2>3. /\ sent' = Append(sent, Datagram("login", srvKey))
        /\ UNCHANGED <<phase, key, owed, installed, stage, srvKey, read, logins>>
        /\ srvStage' = "inzone"
    BY <1>3 DEF ServerAdmits, cell, counters
  <2>4. /\ Len(sent') = Len(sent) + 1
        /\ sent'[Len(sent')] = Datagram("login", srvKey)
        /\ \A i \in 1..Len(sent) : sent'[i] = sent[i]
    BY <1>t, <2>2, <2>3, AppendDatagram
  <2>5. Admitted'
    BY <1>t, <2>1, <2>3, <2>4 DEF Entering, Admitted, Quiet, AskedBack, Last, Derive, Datagram
  <2> QED
    BY <2>1, <2>3, <2>5 DEF HandoffInv
<1>4. CASE ServerZones
  <2>1. InZone /\ logins = MaxLogins
    BY <1>4 DEF ServerZones, IInv, HandoffInv, Before, After, Selected, Entering, Admitted, InZone, SentOn
  <2>2. srvKey \in Words /\ Datagram("zone", srvKey) \in Datagrams
    BY <1>4 DEF ServerZones, IInv, KeyInv, Datagram, Datagrams, Kinds, Ciphers
  <2>3. /\ sent' = Append(sent, Datagram("zone", srvKey))
        /\ UNCHANGED <<phase, key, owed, installed, stage, read, logins>>
        /\ srvStage' = "await_login"
        /\ srvKey' = NextWord(srvKey)
    BY <1>4 DEF ServerZones, cell
  <2>4. /\ Len(sent') = Len(sent) + 1
        /\ sent'[Len(sent')] = Datagram("zone", srvKey)
        /\ \A i \in 1..Len(sent) : sent'[i] = sent[i]
    BY <1>t, <2>2, <2>3, AppendDatagram
  <2>5. SentOn'
    <3>1. /\ stage' = "inzone" /\ srvStage' = "await_login"
          /\ installed'[Guest] = key' /\ ~owed'
      BY <2>1, <2>3 DEF InZone
    <3>2. read' = Len(sent') - 1 /\ read' > 0 /\ sent'[read'].kind = "login"
      BY <1>t, <2>1, <2>3, <2>4 DEF InZone, Quiet, Last
    <3>3. key' = Derive(srvKey) /\ srvKey' = NextWord(srvKey) /\ Last' = Datagram("zone", srvKey)
      BY <2>1, <2>3, <2>4 DEF InZone, Last
    <3>4. \E w \in Words : key' = Derive(w) /\ srvKey' = NextWord(w) /\ Last' = Datagram("zone", w)
      BY <2>2, <3>3
    <3> QED
      BY <3>1, <3>2, <3>4 DEF SentOn
  <2> QED
    BY <2>1, <2>3, <2>5 DEF HandoffInv
<1>5. CASE Logout
  <2>1. logins = MaxLogins
    BY <1>5 DEF Logout, IInv, HandoffInv, Before, After
  <2> QED
    BY <1>5, <2>1 DEF Logout, HandoffInv, After, counters
<1>6. ASSUME NEW i \in 1..Len(sent), DeliverZone(i) PROVE HandoffInv'
  <2>0. Len(sent) > 0 /\ ~Before
    BY <1>t DEF Before
  <2>1. logins = MaxLogins
    BY <2>0 DEF IInv, HandoffInv, After
  <2>2. Deliver(i, "zone") /\ "zone" \in Kinds /\ read' = i /\ logins' = logins
        /\ UNCHANGED <<srvStage, srvKey, sent>>
    BY <1>6 DEF DeliverZone, Deliver, Kinds, server, counters
  <2>3. CASE After
    BY <1>6, <2>2, <2>3 DEF DeliverZone, After, HandoffInv
  <2>4. CASE Selected
    <3>1. i = read /\ owed
      BY <2>1, <2>2, <2>4, DeliverCases
    <3> QED
      BY <1>6, <2>1, <2>2, <2>4, <3>1 DEF DeliverZone, cell, Selected, Quiet, AskedBack, Last, HandoffInv
  <2>5. CASE Entering
    <3>1. i = read /\ owed
      BY <2>1, <2>2, <2>5, DeliverCases
    <3> QED
      BY <1>6, <2>1, <2>2, <2>5, <3>1 DEF DeliverZone, cell, Entering, Quiet, AskedBack, Last, HandoffInv
  <2>6. CASE Admitted
    <3>1. i = read /\ owed
      BY <2>1, <2>2, <2>6, DeliverCases
    <3> QED
      BY <1>6, <2>1, <2>2, <2>6, <3>1 DEF DeliverZone, cell, Admitted, Last, HandoffInv
  <2>7. CASE InZone
    BY <2>1, <2>2, <2>7, DeliverCases
  <2>8. CASE SentOn
    <3>1. i = Len(sent)
      BY <2>1, <2>2, <2>8, DeliverCases
    <3>2. PICK w \in Words : key = Derive(w) /\ srvKey = NextWord(w) /\ Last = Datagram("zone", w)
      BY <2>8 DEF SentOn
    <3>3. key' = Derive(NextWord(w)) /\ owed' = TRUE
      BY <1>6, <2>8, <3>2 DEF DeliverZone, SentOn, Cell!Rollover, Cell!Derive, Cell!NextWord, Derive, NextWord
    <3>4. Last.kind = "zone" /\ stage' = "handoff"
      BY <1>6, <2>8, <3>2 DEF SentOn, DeliverZone, Datagram
    <3>5. Selected'
      BY <2>2, <2>8, <3>1, <3>2, <3>3, <3>4 DEF SentOn, Selected, Quiet, AskedBack, Last
    <3> QED
      BY <2>1, <2>2, <3>5 DEF HandoffInv
  <2> QED
    BY <2>0, <2>3, <2>4, <2>5, <2>6, <2>7, <2>8 DEF IInv, HandoffInv
<1>7. ASSUME NEW i \in 1..Len(sent), DeliverLogin(i) PROVE HandoffInv'
  <2>0. Len(sent) > 0 /\ ~Before
    BY <1>t DEF Before
  <2>1. logins = MaxLogins
    BY <2>0 DEF IInv, HandoffInv, After
  <2>2. Deliver(i, "login") /\ "login" \in Kinds /\ read' = i /\ logins' = logins
        /\ UNCHANGED <<srvStage, srvKey, sent>>
    BY <1>7 DEF DeliverLogin, Deliver, Kinds, server, counters
  <2>3. UNCHANGED <<phase, key, installed>> /\ owed' = FALSE
    BY <1>7 DEF DeliverLogin, Cell!Login
  <2>4. CASE After
    BY <1>7, <2>2, <2>4 DEF DeliverLogin, After, HandoffInv
  <2>5. CASE Selected \/ Entering
    BY <2>1, <2>2, <2>5, DeliverCases
  <2>6. CASE Admitted
    <3>1. i = Len(sent)
      BY <2>1, <2>2, <2>6, DeliverCases
    <3>2. InZone'
      BY <1>7, <2>0, <2>2, <2>3, <2>6, <3>1 DEF DeliverLogin, Admitted, InZone, Quiet, Last, Datagram
    <3> QED
      BY <2>1, <2>2, <3>2 DEF HandoffInv
  <2>7. CASE InZone
    <3>1. i = read
      BY <2>1, <2>2, <2>7, DeliverCases
    <3>2. InZone'
      BY <1>7, <2>2, <2>3, <2>7, <3>1 DEF DeliverLogin, InZone, Quiet, Last
    <3> QED
      BY <2>1, <2>2, <3>2 DEF HandoffInv
  <2>8. CASE SentOn
    <3>1. i = read
      BY <2>1, <2>2, <2>8, DeliverCases
    <3>2. SentOn'
      BY <1>7, <2>2, <2>3, <2>8, <3>1 DEF DeliverLogin, SentOn, Last
    <3> QED
      BY <2>1, <2>2, <3>2 DEF HandoffInv
  <2> QED
    BY <2>0, <2>4, <2>5, <2>6, <2>7, <2>8 DEF IInv, HandoffInv
<1>8. CASE UNCHANGED vars
  BY <1>8 DEF vars, cell, server, counters, IInv, HandoffInv, Before, After, Selected, Entering,
              Admitted, InZone, SentOn, Quiet, AskedBack, Last
<1> QED
  BY <1>1, <1>2, <1>3, <1>4, <1>5, <1>6, <1>7, <1>8 DEF Next

(* With at most one character selection IInv is an invariant.              *)
THEOREM Invariance == ASSUME MaxLogins <= 1 PROVE Spec => []IInv
<1>1. Init => IInv
  <2> SUFFICES ASSUME Init PROVE IInv
    OBVIOUS
  <2>1. TypeOK
    <3>1. /\ sent \in Seq([kind : {"login", "zone"}, cipher : Ciphers])
          /\ read \in 0..Len(sent)
      BY EmptySeq DEF Init
    <3>2. installed \in [{Guest} -> Ciphers] /\ key \in Ciphers
      BY DEF Init, Ciphers
    <3>3. /\ srvKey \in Sessions /\ zones \in 0..MaxZones /\ logins \in 0..MaxLogins
          /\ phase = "open" /\ owed = FALSE /\ mapSessionKey \in Words
          /\ stage = "lobby" /\ srvStage = "none"
      BY BoundsAssumption DEF Init, Sessions
    <3> QED
      BY <3>1, <3>2, <3>3 DEF TypeOK
  <2> QED
    BY <2>1 DEF Init, IInv, KeyInv, HandoffInv, Before
<1>2. IInv /\ [Next]_vars => IInv'
  BY TypeStep, HandoffStep DEF IInv
<1> QED
  BY <1>1, <1>2, PTL DEF Spec

(* The key lifecycle, end to end: a guest that asks to be let in has the   *)
(* cipher the map server expects, and in a zone the next rollover starts   *)
(* from the same key on both sides, through any number of zone changes,    *)
(* lost and repeated datagrams (ServerZones, DeliverZone, DeliverLogin).   *)
THEOREM KeyShared == ASSUME MaxLogins <= 1 PROVE Spec => []SharedKeyLifecycle
<1>1. IInv => SharedKeyLifecycle
  BY DEF IInv, HandoffInv, SharedKeyLifecycle, Before, After, Selected, Entering, Admitted, InZone, SentOn
<1> QED
  BY Invariance, <1>1, PTL
=============================================================================
