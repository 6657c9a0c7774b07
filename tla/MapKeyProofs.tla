---------------------------- MODULE MapKeyProofs -----------------------------
(***************************************************************************)
(* Proofs about MapKey for every number of threads, every width of the     *)
(* rollover word and every datagram.  IInv, at the end of MapKey, is the   *)
(* inductive invariant; everything else follows from it.                   *)
(***************************************************************************)
EXTENDS MapKey, TLAPS

-----------------------------------------------------------------------------
(* AdvanceMapSessionKey stays inside the width of the rollover word.        *)
LEMMA NextWordType == \A w \in Words : NextWord(w) \in Words
<1> SUFFICES ASSUME NEW w \in Words PROVE NextWord(w) \in Words
  OBVIOUS
<1>1. WordMod \in Nat \ {0} /\ w \in Int
  BY KeyAssumption DEF Words
<1>2. (w + 2) % WordMod \in 0..(WordMod - 1)
  BY <1>1
<1> QED
  BY <1>2 DEF NextWord, Words

(* A digest is never the all-zero array, and its origin can be told.        *)
LEMMA DeriveType ==
    \A w \in Words : /\ Derive(w) \in Ciphers
                     /\ Derive(w) # Wiped
                     /\ Derive(w).md5 = w
  BY KeyAssumption DEF Derive, Ciphers, Words

LEMMA DatagramType == \A d \in Datagrams : d \in Seq(PacketKinds)
<1> SUFFICES ASSUME NEW n \in Nat, NEW d \in [1..n -> PacketKinds]
             PROVE  d \in Seq(PacketKinds)
  BY PacketsAssumption DEF Datagrams
<1> QED
  OBVIOUS

(* A receiver walks its own packets only, and the tail of a list of packets *)
(* is one.                                                                  *)
LEMMA NextPacketType ==
    ASSUME TypeOK, NEW r \in Receivers, NEW kind, NextPacket(r, kind)
    PROVE  packets' \in [Receivers -> Seq(PacketKinds)]
<1>1. packets[r] \in Seq(PacketKinds) /\ packets[r] # <<>>
  BY DEF TypeOK, NextPacket
<1>2. Tail(packets[r]) \in Seq(PacketKinds)
  BY <1>1
<1>3. <<>> \in Seq(PacketKinds)
  OBVIOUS
<1> QED
  BY <1>2, <1>3 DEF TypeOK, NextPacket

-----------------------------------------------------------------------------
(* Types.  A rollover advances a key that is there and derives from the key *)
(* it has just written, hence ReceiverInv.                                  *)
LEMMA TypeStep ==
    ASSUME TypeOK, ReceiverInv, [Next]_vars
    PROVE  TypeOK'
<1>1. ASSUME NEW w \in Words, Configure(w) PROVE TypeOK'
  BY <1>1, ThreadsAssumption, DeriveType DEF Configure, ReceiverInv, Sessions, TypeOK, Threads, Goto, At, Lock, Unlock,
     flags, keys, guest, OwnerSteps, ReceiverSteps, HandoffSteps
<1>2. ASSUME ConfigureFails PROVE TypeOK'
  BY <1>2, ThreadsAssumption DEF ConfigureFails, TypeOK, Threads, Goto, At, Lock, Unlock,
     flags, keys, guest, OwnerSteps, ReceiverSteps, HandoffSteps
<1>3. ASSUME StartClear PROVE TypeOK'
  BY <1>3, ThreadsAssumption DEF StartClear, TypeOK, Threads, Goto, At, Lock, Unlock,
     flags, keys, guest, OwnerSteps, ReceiverSteps, HandoffSteps
<1>4. ASSUME ClearDisable PROVE TypeOK'
  BY <1>4, ThreadsAssumption DEF ClearDisable, TypeOK, Threads, Goto, At, Lock, Unlock,
     flags, keys, guest, OwnerSteps, ReceiverSteps, HandoffSteps
<1>5. ASSUME ClearLock PROVE TypeOK'
  BY <1>5, ThreadsAssumption DEF ClearLock, TypeOK, Threads, Goto, At, Lock, Unlock,
     flags, keys, guest, OwnerSteps, ReceiverSteps, HandoffSteps
<1>6. ASSUME ClearSession PROVE TypeOK'
  BY <1>6, ThreadsAssumption DEF ClearSession, Sessions, TypeOK, Threads, Goto, At, Lock, Unlock,
     flags, keys, guest, OwnerSteps, ReceiverSteps, HandoffSteps
<1>7. ASSUME ClearCipher PROVE TypeOK'
  BY <1>7, ThreadsAssumption DEF ClearCipher, Ciphers, TypeOK, Threads, Goto, At, Lock, Unlock,
     flags, keys, guest, OwnerSteps, ReceiverSteps, HandoffSteps
<1>8. ASSUME ClearPending PROVE TypeOK'
  BY <1>8, ThreadsAssumption DEF ClearPending, TypeOK, Threads, Goto, At, Lock, Unlock,
     flags, keys, guest, OwnerSteps, ReceiverSteps, HandoffSteps
<1>9. ASSUME NEW r \in Receivers, NEW d \in Datagrams, NEW traced \in BOOLEAN,
             ReceiveDatagram(r, d, traced)
      PROVE  TypeOK'
  BY <1>9, ThreadsAssumption, DatagramType DEF ReceiveDatagram, TypeOK, Threads, Goto, At, Lock, Unlock,
     flags, keys, guest, OwnerSteps, ReceiverSteps, HandoffSteps
<1>10. ASSUME NEW r \in Receivers, WalkZone(r) PROVE TypeOK'
  BY <1>10, ThreadsAssumption, NextPacketType DEF WalkZone, NextPacket, TypeOK, Threads, Goto, At, Lock, Unlock,
     flags, keys, guest, OwnerSteps, ReceiverSteps, HandoffSteps
<1>11. ASSUME NEW r \in Receivers, WalkLogin(r) PROVE TypeOK'
  BY <1>11, ThreadsAssumption, NextPacketType DEF WalkLogin, NextPacket, TypeOK, Threads, Goto, At, Lock, Unlock,
     flags, keys, guest, OwnerSteps, ReceiverSteps, HandoffSteps
<1>12. ASSUME NEW r \in Receivers, WalkOther(r) PROVE TypeOK'
  BY <1>12, ThreadsAssumption, NextPacketType DEF WalkOther, NextPacket, TypeOK, Threads, Goto, At, Lock, Unlock,
     flags, keys, guest, OwnerSteps, ReceiverSteps, HandoffSteps
<1>13. ASSUME NEW r \in Receivers, WalkDone(r) PROVE TypeOK'
  BY <1>13, ThreadsAssumption DEF WalkDone, TypeOK, Threads, Goto, At, Lock, Unlock,
     flags, keys, guest, OwnerSteps, ReceiverSteps, HandoffSteps
<1>14. ASSUME NEW r \in Receivers, AdvanceLock(r) PROVE TypeOK'
  BY <1>14, ThreadsAssumption DEF AdvanceLock, TypeOK, Threads, Goto, At, Lock, Unlock,
     flags, keys, guest, OwnerSteps, ReceiverSteps, HandoffSteps
<1>15. ASSUME NEW r \in Receivers, AdvanceCheckEnabled(r) PROVE TypeOK'
  BY <1>15, ThreadsAssumption DEF AdvanceCheckEnabled, AdvanceReturn, TypeOK, Threads, Goto, At, Lock, Unlock,
     flags, keys, guest, OwnerSteps, ReceiverSteps, HandoffSteps
<1>16. ASSUME NEW r \in Receivers, AdvanceCheckPending(r) PROVE TypeOK'
  BY <1>16, ThreadsAssumption DEF AdvanceCheckPending, AdvanceReturn, TypeOK, Threads, Goto, At, Lock, Unlock,
     flags, keys, guest, OwnerSteps, ReceiverSteps, HandoffSteps
<1>17. ASSUME NEW r \in Receivers, AdvanceFails(r) PROVE TypeOK'
  BY <1>17, ThreadsAssumption DEF AdvanceFails, AdvanceReturn, TypeOK, Threads, Goto, At, Lock, Unlock,
     flags, keys, guest, OwnerSteps, ReceiverSteps, HandoffSteps
<1>18. ASSUME NEW r \in Receivers, AdvanceSession(r) PROVE TypeOK'
  BY <1>18, ThreadsAssumption, NextWordType DEF AdvanceSession, ReceiverInv, Sessions, TypeOK, Threads, Goto, At, Lock, Unlock,
     flags, keys, guest, OwnerSteps, ReceiverSteps, HandoffSteps
<1>19. ASSUME NEW r \in Receivers, AdvanceCipher(r) PROVE TypeOK'
  BY <1>19, ThreadsAssumption, DeriveType, NextWordType DEF AdvanceCipher, ReceiverInv, Sessions, TypeOK, Threads, Goto, At, Lock, Unlock,
     flags, keys, guest, OwnerSteps, ReceiverSteps, HandoffSteps
<1>20. ASSUME NEW r \in Receivers, AdvancePending(r) PROVE TypeOK'
  BY <1>20, ThreadsAssumption DEF AdvancePending, TypeOK, Threads, Goto, At, Lock, Unlock,
     flags, keys, guest, OwnerSteps, ReceiverSteps, HandoffSteps
<1>21. ASSUME NEW h \in Handoffs, ApplyEnter(h) PROVE TypeOK'
  BY <1>21, ThreadsAssumption DEF ApplyEnter, TypeOK, Threads, Goto, At, Lock, Unlock,
     flags, keys, guest, OwnerSteps, ReceiverSteps, HandoffSteps
<1>22. ASSUME NEW h \in Handoffs, ApplyLock(h) PROVE TypeOK'
  BY <1>22, ThreadsAssumption DEF ApplyLock, TypeOK, Threads, Goto, At, Lock, Unlock,
     flags, keys, guest, OwnerSteps, ReceiverSteps, HandoffSteps
<1>23. ASSUME NEW h \in Handoffs, ApplyCheckEnabled(h) PROVE TypeOK'
  BY <1>23, ThreadsAssumption DEF ApplyCheckEnabled, TypeOK, Threads, Goto, At, Lock, Unlock,
     flags, keys, guest, OwnerSteps, ReceiverSteps, HandoffSteps
<1>24. ASSUME NEW h \in Handoffs, ApplyCopy(h) PROVE TypeOK'
  BY <1>24, ThreadsAssumption DEF ApplyCopy, TypeOK, Threads, Goto, At, Lock, Unlock,
     flags, keys, guest, OwnerSteps, ReceiverSteps, HandoffSteps
<1>25. CASE UNCHANGED vars
  BY <1>25 DEF TypeOK, vars
<1> QED
  BY <1>1, <1>2, <1>3, <1>4, <1>5, <1>6, <1>7, <1>8, <1>9, <1>10, <1>11,
     <1>12, <1>13, <1>14, <1>15, <1>16, <1>17, <1>18, <1>19, <1>20, <1>21,
     <1>22, <1>23, <1>24, <1>25
  DEF Next, Clear, Walk, Advance, Apply

-----------------------------------------------------------------------------
(* The mutex.  Lock and unlock are the only steps that enter and leave.      *)
LEMMA MutexStep ==
    ASSUME TypeOK, MutexInv, [Next]_vars
    PROVE  MutexInv'
<1>1. ASSUME NEW w \in Words, Configure(w) PROVE MutexInv'
  BY <1>1, ThreadsAssumption DEF MutexInv, InMutex,
     Configure, TypeOK, Threads, Goto, At, Lock, Unlock, flags, keys, guest
<1>2. ASSUME ConfigureFails PROVE MutexInv'
  BY <1>2, ThreadsAssumption DEF MutexInv, InMutex,
     ConfigureFails, TypeOK, Threads, Goto, At, Lock, Unlock, flags, keys, guest
<1>3. ASSUME StartClear PROVE MutexInv'
  BY <1>3, ThreadsAssumption DEF MutexInv, InMutex,
     StartClear, TypeOK, Threads, Goto, At, Lock, Unlock, flags, keys, guest
<1>4. ASSUME ClearDisable PROVE MutexInv'
  BY <1>4, ThreadsAssumption DEF MutexInv, InMutex,
     ClearDisable, TypeOK, Threads, Goto, At, Lock, Unlock, flags, keys, guest
<1>5. ASSUME ClearLock PROVE MutexInv'
  BY <1>5, ThreadsAssumption DEF MutexInv, InMutex,
     ClearLock, TypeOK, Threads, Goto, At, Lock, Unlock, flags, keys, guest
<1>6. ASSUME ClearSession PROVE MutexInv'
  BY <1>6, ThreadsAssumption DEF MutexInv, InMutex,
     ClearSession, TypeOK, Threads, Goto, At, Lock, Unlock, flags, keys, guest
<1>7. ASSUME ClearCipher PROVE MutexInv'
  BY <1>7, ThreadsAssumption DEF MutexInv, InMutex,
     ClearCipher, TypeOK, Threads, Goto, At, Lock, Unlock, flags, keys, guest
<1>8. ASSUME ClearPending PROVE MutexInv'
  BY <1>8, ThreadsAssumption DEF MutexInv, InMutex,
     ClearPending, TypeOK, Threads, Goto, At, Lock, Unlock, flags, keys, guest
<1>9. ASSUME NEW r \in Receivers, NEW d \in Datagrams, NEW traced \in BOOLEAN,
             ReceiveDatagram(r, d, traced)
      PROVE  MutexInv'
  BY <1>9, ThreadsAssumption DEF MutexInv, InMutex,
     ReceiveDatagram, TypeOK, Threads, Goto, At, Lock, Unlock, flags, keys, guest
<1>10. ASSUME NEW r \in Receivers, WalkZone(r) PROVE MutexInv'
  BY <1>10, ThreadsAssumption DEF MutexInv, InMutex,
     WalkZone, NextPacket, TypeOK, Threads, Goto, At, Lock, Unlock, flags, keys, guest
<1>11. ASSUME NEW r \in Receivers, WalkLogin(r) PROVE MutexInv'
  BY <1>11, ThreadsAssumption DEF MutexInv, InMutex,
     WalkLogin, NextPacket, TypeOK, Threads, Goto, At, Lock, Unlock, flags, keys, guest
<1>12. ASSUME NEW r \in Receivers, WalkOther(r) PROVE MutexInv'
  BY <1>12, ThreadsAssumption DEF MutexInv, InMutex,
     WalkOther, NextPacket, TypeOK, Threads, Goto, At, Lock, Unlock, flags, keys, guest
<1>13. ASSUME NEW r \in Receivers, WalkDone(r) PROVE MutexInv'
  BY <1>13, ThreadsAssumption DEF MutexInv, InMutex,
     WalkDone, TypeOK, Threads, Goto, At, Lock, Unlock, flags, keys, guest
<1>14. ASSUME NEW r \in Receivers, AdvanceLock(r) PROVE MutexInv'
  BY <1>14, ThreadsAssumption DEF MutexInv, InMutex,
     AdvanceLock, TypeOK, Threads, Goto, At, Lock, Unlock, flags, keys, guest
<1>15. ASSUME NEW r \in Receivers, AdvanceCheckEnabled(r) PROVE MutexInv'
  BY <1>15, ThreadsAssumption DEF MutexInv, InMutex,
     AdvanceCheckEnabled, AdvanceReturn, TypeOK, Threads, Goto, At, Lock, Unlock, flags, keys, guest
<1>16. ASSUME NEW r \in Receivers, AdvanceCheckPending(r) PROVE MutexInv'
  BY <1>16, ThreadsAssumption DEF MutexInv, InMutex,
     AdvanceCheckPending, AdvanceReturn, TypeOK, Threads, Goto, At, Lock, Unlock, flags, keys, guest
<1>17. ASSUME NEW r \in Receivers, AdvanceFails(r) PROVE MutexInv'
  BY <1>17, ThreadsAssumption DEF MutexInv, InMutex,
     AdvanceFails, AdvanceReturn, TypeOK, Threads, Goto, At, Lock, Unlock, flags, keys, guest
<1>18. ASSUME NEW r \in Receivers, AdvanceSession(r) PROVE MutexInv'
  BY <1>18, ThreadsAssumption DEF MutexInv, InMutex,
     AdvanceSession, TypeOK, Threads, Goto, At, Lock, Unlock, flags, keys, guest
<1>19. ASSUME NEW r \in Receivers, AdvanceCipher(r) PROVE MutexInv'
  BY <1>19, ThreadsAssumption DEF MutexInv, InMutex,
     AdvanceCipher, TypeOK, Threads, Goto, At, Lock, Unlock, flags, keys, guest
<1>20. ASSUME NEW r \in Receivers, AdvancePending(r) PROVE MutexInv'
  BY <1>20, ThreadsAssumption DEF MutexInv, InMutex,
     AdvancePending, TypeOK, Threads, Goto, At, Lock, Unlock, flags, keys, guest
<1>21. ASSUME NEW h \in Handoffs, ApplyEnter(h) PROVE MutexInv'
  BY <1>21, ThreadsAssumption DEF MutexInv, InMutex,
     ApplyEnter, TypeOK, Threads, Goto, At, Lock, Unlock, flags, keys, guest
<1>22. ASSUME NEW h \in Handoffs, ApplyLock(h) PROVE MutexInv'
  BY <1>22, ThreadsAssumption DEF MutexInv, InMutex,
     ApplyLock, TypeOK, Threads, Goto, At, Lock, Unlock, flags, keys, guest
<1>23. ASSUME NEW h \in Handoffs, ApplyCheckEnabled(h) PROVE MutexInv'
  BY <1>23, ThreadsAssumption DEF MutexInv, InMutex,
     ApplyCheckEnabled, TypeOK, Threads, Goto, At, Lock, Unlock, flags, keys, guest
<1>24. ASSUME NEW h \in Handoffs, ApplyCopy(h) PROVE MutexInv'
  BY <1>24, ThreadsAssumption DEF MutexInv, InMutex,
     ApplyCopy, TypeOK, Threads, Goto, At, Lock, Unlock, flags, keys, guest
<1>25. CASE UNCHANGED vars
  BY <1>25 DEF MutexInv, InMutex, vars
<1> QED
  BY <1>1, <1>2, <1>3, <1>4, <1>5, <1>6, <1>7, <1>8, <1>9, <1>10, <1>11,
     <1>12, <1>13, <1>14, <1>15, <1>16, <1>17, <1>18, <1>19, <1>20, <1>21,
     <1>22, <1>23, <1>24, <1>25
  DEF Next, Clear, Walk, Advance, Apply

(* The keys.  What each step needs of the others is in KeyInv: a rollover    *)
(* that is under way has found a key and no rollover owed, a handoff that is *)
(* under way has found a key, and a wipe cannot be undone because a later    *)
(* rollover finds the flag down.                                             *)
LEMMA KeyStep ==
    ASSUME IInv, [Next]_vars
    PROVE  KeyInv'
<1>1. ASSUME NEW w \in Words, Configure(w) PROVE KeyInv'
  BY <1>1, ThreadsAssumption, DeriveType, KeyAssumption DEF IInv, KeyInv, EnabledInv, StartInv, ReceiverInv, HandoffInv, ClearInv,
     OwedInv, CipherMatchesSession, MutexInv, InMutex,
     Configure, TypeOK, Threads, Goto, At, Lock, Unlock, flags, keys, guest
<1>2. ASSUME ConfigureFails PROVE KeyInv'
  BY <1>2, ThreadsAssumption DEF IInv, KeyInv, EnabledInv, StartInv, ReceiverInv, HandoffInv, ClearInv,
     OwedInv, CipherMatchesSession, MutexInv, InMutex,
     ConfigureFails, TypeOK, Threads, Goto, At, Lock, Unlock, flags, keys, guest
<1>3. ASSUME StartClear PROVE KeyInv'
  BY <1>3, ThreadsAssumption DEF IInv, KeyInv, EnabledInv, StartInv, ReceiverInv, HandoffInv, ClearInv,
     OwedInv, CipherMatchesSession, MutexInv, InMutex,
     StartClear, TypeOK, Threads, Goto, At, Lock, Unlock, flags, keys, guest
<1>4. ASSUME ClearDisable PROVE KeyInv'
  BY <1>4, ThreadsAssumption DEF IInv, KeyInv, EnabledInv, StartInv, ReceiverInv, HandoffInv, ClearInv,
     OwedInv, CipherMatchesSession, MutexInv, InMutex,
     ClearDisable, TypeOK, Threads, Goto, At, Lock, Unlock, flags, keys, guest
<1>5. ASSUME ClearLock PROVE KeyInv'
  BY <1>5, ThreadsAssumption DEF IInv, KeyInv, EnabledInv, StartInv, ReceiverInv, HandoffInv, ClearInv,
     OwedInv, CipherMatchesSession, MutexInv, InMutex,
     ClearLock, TypeOK, Threads, Goto, At, Lock, Unlock, flags, keys, guest
<1>6. ASSUME ClearSession PROVE KeyInv'
  BY <1>6, ThreadsAssumption DEF IInv, KeyInv, EnabledInv, StartInv, ReceiverInv, HandoffInv, ClearInv,
     OwedInv, CipherMatchesSession, MutexInv, InMutex,
     ClearSession, TypeOK, Threads, Goto, At, Lock, Unlock, flags, keys, guest
<1>7. ASSUME ClearCipher PROVE KeyInv'
  BY <1>7, ThreadsAssumption DEF IInv, KeyInv, EnabledInv, StartInv, ReceiverInv, HandoffInv, ClearInv,
     OwedInv, CipherMatchesSession, MutexInv, InMutex,
     ClearCipher, TypeOK, Threads, Goto, At, Lock, Unlock, flags, keys, guest
<1>8. ASSUME ClearPending PROVE KeyInv'
  BY <1>8, ThreadsAssumption DEF IInv, KeyInv, EnabledInv, StartInv, ReceiverInv, HandoffInv, ClearInv,
     OwedInv, CipherMatchesSession, MutexInv, InMutex,
     ClearPending, TypeOK, Threads, Goto, At, Lock, Unlock, flags, keys, guest
<1>9. ASSUME NEW r \in Receivers, NEW d \in Datagrams, NEW traced \in BOOLEAN,
             ReceiveDatagram(r, d, traced)
      PROVE  KeyInv'
  BY <1>9, ThreadsAssumption DEF IInv, KeyInv, EnabledInv, StartInv, ReceiverInv, HandoffInv, ClearInv,
     OwedInv, CipherMatchesSession, MutexInv, InMutex,
     ReceiveDatagram, TypeOK, Threads, Goto, At, Lock, Unlock, flags, keys, guest
<1>10. ASSUME NEW r \in Receivers, WalkZone(r) PROVE KeyInv'
  BY <1>10, ThreadsAssumption DEF IInv, KeyInv, EnabledInv, StartInv, ReceiverInv, HandoffInv, ClearInv,
     OwedInv, CipherMatchesSession, MutexInv, InMutex,
     WalkZone, NextPacket, TypeOK, Threads, Goto, At, Lock, Unlock, flags, keys, guest
<1>11. ASSUME NEW r \in Receivers, WalkLogin(r) PROVE KeyInv'
  BY <1>11, ThreadsAssumption DEF IInv, KeyInv, EnabledInv, StartInv, ReceiverInv, HandoffInv, ClearInv,
     OwedInv, CipherMatchesSession, MutexInv, InMutex,
     WalkLogin, NextPacket, TypeOK, Threads, Goto, At, Lock, Unlock, flags, keys, guest
<1>12. ASSUME NEW r \in Receivers, WalkOther(r) PROVE KeyInv'
  BY <1>12, ThreadsAssumption DEF IInv, KeyInv, EnabledInv, StartInv, ReceiverInv, HandoffInv, ClearInv,
     OwedInv, CipherMatchesSession, MutexInv, InMutex,
     WalkOther, NextPacket, TypeOK, Threads, Goto, At, Lock, Unlock, flags, keys, guest
<1>13. ASSUME NEW r \in Receivers, WalkDone(r) PROVE KeyInv'
  BY <1>13, ThreadsAssumption DEF IInv, KeyInv, EnabledInv, StartInv, ReceiverInv, HandoffInv, ClearInv,
     OwedInv, CipherMatchesSession, MutexInv, InMutex,
     WalkDone, TypeOK, Threads, Goto, At, Lock, Unlock, flags, keys, guest
<1>14. ASSUME NEW r \in Receivers, AdvanceLock(r) PROVE KeyInv'
  BY <1>14, ThreadsAssumption DEF IInv, KeyInv, EnabledInv, StartInv, ReceiverInv, HandoffInv, ClearInv,
     OwedInv, CipherMatchesSession, MutexInv, InMutex,
     AdvanceLock, TypeOK, Threads, Goto, At, Lock, Unlock, flags, keys, guest
<1>15. ASSUME NEW r \in Receivers, AdvanceCheckEnabled(r) PROVE KeyInv'
  BY <1>15, ThreadsAssumption DEF IInv, KeyInv, EnabledInv, StartInv, ReceiverInv, HandoffInv, ClearInv,
     OwedInv, CipherMatchesSession, MutexInv, InMutex,
     AdvanceCheckEnabled, AdvanceReturn, TypeOK, Threads, Goto, At, Lock, Unlock, flags, keys, guest
<1>16. ASSUME NEW r \in Receivers, AdvanceCheckPending(r) PROVE KeyInv'
  BY <1>16, ThreadsAssumption DEF IInv, KeyInv, EnabledInv, StartInv, ReceiverInv, HandoffInv, ClearInv,
     OwedInv, CipherMatchesSession, MutexInv, InMutex,
     AdvanceCheckPending, AdvanceReturn, TypeOK, Threads, Goto, At, Lock, Unlock, flags, keys, guest
<1>17. ASSUME NEW r \in Receivers, AdvanceFails(r) PROVE KeyInv'
  BY <1>17, ThreadsAssumption DEF IInv, KeyInv, EnabledInv, StartInv, ReceiverInv, HandoffInv, ClearInv,
     OwedInv, CipherMatchesSession, MutexInv, InMutex,
     AdvanceFails, AdvanceReturn, TypeOK, Threads, Goto, At, Lock, Unlock, flags, keys, guest
<1>18. ASSUME NEW r \in Receivers, AdvanceSession(r) PROVE KeyInv'
  BY <1>18, ThreadsAssumption, NextWordType, DeriveType, KeyAssumption DEF IInv, KeyInv, EnabledInv, StartInv, ReceiverInv, HandoffInv, ClearInv,
     OwedInv, CipherMatchesSession, MutexInv, InMutex,
     AdvanceSession, TypeOK, Threads, Goto, At, Lock, Unlock, flags, keys, guest, Sessions
<1>19. ASSUME NEW r \in Receivers, AdvanceCipher(r) PROVE KeyInv'
  BY <1>19, ThreadsAssumption, NextWordType, DeriveType, KeyAssumption DEF IInv, KeyInv, EnabledInv, StartInv, ReceiverInv, HandoffInv, ClearInv,
     OwedInv, CipherMatchesSession, MutexInv, InMutex,
     AdvanceCipher, TypeOK, Threads, Goto, At, Lock, Unlock, flags, keys, guest
<1>20. ASSUME NEW r \in Receivers, AdvancePending(r) PROVE KeyInv'
  BY <1>20, ThreadsAssumption DEF IInv, KeyInv, EnabledInv, StartInv, ReceiverInv, HandoffInv, ClearInv,
     OwedInv, CipherMatchesSession, MutexInv, InMutex,
     AdvancePending, TypeOK, Threads, Goto, At, Lock, Unlock, flags, keys, guest
<1>21. ASSUME NEW h \in Handoffs, ApplyEnter(h) PROVE KeyInv'
  BY <1>21, ThreadsAssumption DEF IInv, KeyInv, EnabledInv, StartInv, ReceiverInv, HandoffInv, ClearInv,
     OwedInv, CipherMatchesSession, MutexInv, InMutex,
     ApplyEnter, TypeOK, Threads, Goto, At, Lock, Unlock, flags, keys, guest
<1>22. ASSUME NEW h \in Handoffs, ApplyLock(h) PROVE KeyInv'
  BY <1>22, ThreadsAssumption DEF IInv, KeyInv, EnabledInv, StartInv, ReceiverInv, HandoffInv, ClearInv,
     OwedInv, CipherMatchesSession, MutexInv, InMutex,
     ApplyLock, TypeOK, Threads, Goto, At, Lock, Unlock, flags, keys, guest
<1>23. ASSUME NEW h \in Handoffs, ApplyCheckEnabled(h) PROVE KeyInv'
  BY <1>23, ThreadsAssumption DEF IInv, KeyInv, EnabledInv, StartInv, ReceiverInv, HandoffInv, ClearInv,
     OwedInv, CipherMatchesSession, MutexInv, InMutex,
     ApplyCheckEnabled, TypeOK, Threads, Goto, At, Lock, Unlock, flags, keys, guest
<1>24. ASSUME NEW h \in Handoffs, ApplyCopy(h) PROVE KeyInv'
  BY <1>24, ThreadsAssumption DEF IInv, KeyInv, EnabledInv, StartInv, ReceiverInv, HandoffInv, ClearInv,
     OwedInv, CipherMatchesSession, MutexInv, InMutex,
     ApplyCopy, TypeOK, Threads, Goto, At, Lock, Unlock, flags, keys, guest
<1>25. CASE UNCHANGED vars
  BY <1>25 DEF IInv, KeyInv, EnabledInv, StartInv, ReceiverInv, HandoffInv, ClearInv,
     OwedInv, CipherMatchesSession, MutexInv, InMutex, At, vars
<1> QED
  BY <1>1, <1>2, <1>3, <1>4, <1>5, <1>6, <1>7, <1>8, <1>9, <1>10, <1>11,
     <1>12, <1>13, <1>14, <1>15, <1>16, <1>17, <1>18, <1>19, <1>20, <1>21,
     <1>22, <1>23, <1>24, <1>25
  DEF Next, Clear, Walk, Advance, Apply

-----------------------------------------------------------------------------
(* IInv holds of the initial state, every step keeps it.                    *)
THEOREM Invariance == Spec => []IInv
<1>1. Init => IInv
  <2> SUFFICES ASSUME Init PROVE IInv
    OBVIOUS
  <2>1. \A r \in Receivers : <<>> \in Seq(PacketKinds)
    OBVIOUS
  <2> QED
    BY <2>1, ThreadsAssumption
    DEF Init, IInv, TypeOK, MutexInv, InMutex, KeyInv, EnabledInv, StartInv,
        ReceiverInv, HandoffInv, ClearInv, OwedInv, CipherMatchesSession,
        Threads, At, Sessions, Ciphers, OwnerSteps, ReceiverSteps, HandoffSteps
<1>2. IInv /\ [Next]_vars => IInv'
  <2> SUFFICES ASSUME IInv, [Next]_vars PROVE IInv'
    OBVIOUS
  <2>1. TypeOK'
    BY TypeStep DEF IInv, KeyInv
  <2>2. MutexInv'
    BY MutexStep DEF IInv
  <2>3. KeyInv'
    BY KeyStep
  <2> QED
    BY <2>1, <2>2, <2>3 DEF IInv
<1> QED
  BY <1>1, <1>2, PTL DEF Spec

(* Every global and every local of the hooks keeps its type.                *)
THEOREM TypeCorrect == Spec => []TypeOK
<1>1. IInv => TypeOK
  BY DEF IInv
<1> QED
  BY <1>1, Invariance, PTL

(* The cipher array is the digest of the session array at every moment no   *)
(* thread is between the two stores, whatever the number of threads.        *)
THEOREM CipherAgrees == Spec => []CipherMatchesSession
<1>1. IInv => CipherMatchesSession
  BY DEF IInv, KeyInv
<1> QED
  BY <1>1, Invariance, PTL

(* No hook that was running when the bridge state died brings a key back.   *)
THEOREM WipeIsFinal == Spec => []WipedForGood
<1>1. IInv => WipedForGood
  BY DEF IInv, KeyInv, ClearInv, EnabledInv, WipedForGood, At
<1> QED
  BY <1>1, Invariance, PTL

(* Only ApplyCopy writes the guest's key, under the mutex, with the key in  *)
(* force.                                                                   *)
THEOREM HandoffInForce == Spec => HandoffTakesKeyInForce
<1> DEFINE Good(t) == installed'[t] # installed[t]
                        => /\ sessionKey # Wiped
                           /\ installed'[t] = Derive(sessionKey)
<1>1. ASSUME IInv, [Next]_vars PROVE [\A h \in Handoffs : Good(h)]_vars
  <2> SUFFICES ASSUME NEW t \in Handoffs, installed'[t] # installed[t]
               PROVE  sessionKey # Wiped /\ installed'[t] = Derive(sessionKey)
    OBVIOUS
  <2>1. PICK h \in Handoffs : ApplyCopy(h)
    BY <1>1 DEF Next, Clear, Walk, Advance, Apply, Configure, ConfigureFails,
       StartClear, ClearDisable, ClearLock, ClearSession, ClearCipher,
       ClearPending, ReceiveDatagram, WalkZone, WalkLogin, WalkOther,
       WalkDone, NextPacket, AdvanceLock, AdvanceCheckEnabled,
       AdvanceCheckPending, AdvanceFails, AdvanceSession, AdvanceCipher,
       AdvancePending, ApplyEnter, ApplyLock, ApplyCheckEnabled, vars
  <2>2. t = h /\ installed'[h] = cipherKey /\ mutex = h /\ At(h, "copy")
    BY <1>1, <2>1 DEF ApplyCopy, IInv, TypeOK, Unlock
  <2>3. sessionKey # Wiped
    BY <1>1, <2>2 DEF IInv, KeyInv, HandoffInv
  <2>4. /\ \A r \in Receivers : ~At(r, "set_cipher")
        /\ ~At(Owner, "clear_cipher")
    BY <1>1, <2>2, ThreadsAssumption DEF IInv, MutexInv, InMutex, Threads, At
  <2> QED
    BY <1>1, <2>2, <2>3, <2>4 DEF IInv, KeyInv, CipherMatchesSession
<1> QED
  BY <1>1, Invariance, PTL DEF Spec, HandoffTakesKeyInForce

(* Only AdvanceCipher replaces a key by another, and it runs with nothing   *)
(* owed.                                                                    *)
THEOREM RolloverOncePerLogin == Spec => OneRolloverPerLogin
<1>1. ASSUME IInv, [Next]_vars
      PROVE  [cipherKey # Wiped /\ cipherKey' \notin {cipherKey, Wiped} => ~owed]_vars
  <2> SUFFICES ASSUME cipherKey # Wiped, cipherKey' \notin {cipherKey, Wiped}
               PROVE  ~owed
    OBVIOUS
  <2>1. CASE \E w \in Words : Configure(w)
    BY <1>1, <2>1 DEF Configure, IInv, KeyInv, StartInv
  <2>2. CASE \E r \in Receivers : AdvanceCipher(r)
    BY <1>1, <2>2 DEF AdvanceCipher, IInv, KeyInv, ReceiverInv, At
  <2> QED
    BY <1>1, <2>1, <2>2 DEF Next, Clear, Walk, Advance, Apply, ConfigureFails,
       StartClear, ClearDisable, ClearLock, ClearSession, ClearCipher,
       ClearPending, ReceiveDatagram, WalkZone, WalkLogin, WalkOther,
       WalkDone, NextPacket, AdvanceReturn, AdvanceLock, AdvanceCheckEnabled,
       AdvanceCheckPending, AdvanceFails, AdvanceSession, AdvancePending,
       ApplyEnter, ApplyLock, ApplyCheckEnabled, ApplyCopy, keys, vars
<1> QED
  BY <1>1, Invariance, PTL DEF Spec, OneRolloverPerLogin

(* With one receiving thread a pending mark always stands for a rollover    *)
(* that no 0x00A has followed; with OwedInv, the mark and the debt agree.   *)
MarkInv ==
    /\ pending /\ enabled => owed
    /\ \A r \in Receivers : At(r, "set_pending") => owed

LEMMA MarkStep ==
    ASSUME \A r, s \in Receivers : r = s, IInv, MarkInv, [Next]_vars
    PROVE  MarkInv'
<1>1. ASSUME NEW r \in Receivers, AdvanceCipher(r) PROVE MarkInv'
  BY <1>1 DEF AdvanceCipher, MarkInv
<1>2. ASSUME NEW r \in Receivers, AdvancePending(r) PROVE MarkInv'
  BY <1>2 DEF AdvancePending, MarkInv, IInv, TypeOK, Threads, Goto, At, keys, guest
<1>3. ASSUME NEW r \in Receivers, WalkLogin(r) PROVE MarkInv'
  BY <1>3 DEF WalkLogin, NextPacket, MarkInv, At
<1>4. ASSUME NEW w \in Words, Configure(w) PROVE MarkInv'
  BY <1>4, ThreadsAssumption DEF Configure, MarkInv, IInv, TypeOK, Threads, Goto, At, guest
<1>5. CASE ClearDisable \/ ClearPending
  BY <1>5, ThreadsAssumption DEF ClearDisable, ClearPending, MarkInv, IInv, TypeOK, Threads, Goto, At,
     keys, guest
<1>6. CASE ConfigureFails \/ StartClear \/ ClearLock \/ ClearSession \/ ClearCipher
  BY <1>6, ThreadsAssumption DEF ConfigureFails, StartClear, ClearLock, ClearSession, ClearCipher,
     MarkInv, IInv, TypeOK, Threads, Goto, At, flags, keys, guest
<1>7. ASSUME NEW r \in Receivers, NEW d \in Datagrams, NEW traced \in BOOLEAN, ReceiveDatagram(r, d, traced)
      PROVE  MarkInv'
  BY <1>7 DEF ReceiveDatagram, MarkInv, IInv, TypeOK, Threads, Goto, At, flags, keys
<1>8. ASSUME NEW r \in Receivers,
             \/ WalkZone(r) \/ WalkOther(r) \/ WalkDone(r) \/ AdvanceLock(r) \/ AdvanceCheckEnabled(r)
             \/ AdvanceCheckPending(r) \/ AdvanceFails(r) \/ AdvanceSession(r)
      PROVE  MarkInv'
  BY <1>8 DEF WalkZone, WalkOther, WalkDone, NextPacket, AdvanceLock, AdvanceCheckEnabled,
     AdvanceCheckPending, AdvanceReturn, AdvanceFails, AdvanceSession, MarkInv, IInv, TypeOK, Threads,
     Goto, At, flags, keys, guest
<1>9. ASSUME NEW h \in Handoffs, ApplyEnter(h) \/ ApplyLock(h) \/ ApplyCheckEnabled(h) \/ ApplyCopy(h)
      PROVE  MarkInv'
  BY <1>9, ThreadsAssumption DEF ApplyEnter, ApplyLock, ApplyCheckEnabled, ApplyCopy, MarkInv, IInv,
     TypeOK, Threads, Goto, At, flags, keys, guest
<1>10. CASE UNCHANGED vars
  BY <1>10 DEF MarkInv, At, vars
<1> QED
  BY <1>1, <1>2, <1>3, <1>4, <1>5, <1>6, <1>7, <1>8, <1>9, <1>10 DEF Next, Clear, Walk, Advance, Apply

(* With one receiving thread no zone handoff is swallowed: a rollover is    *)
(* suppressed exactly when one was done since the last 0x00A.               *)
THEOREM OneReceiverOwes ==
    ASSUME \A r, s \in Receivers : r = s
    PROVE  Spec => []PendingMeansOwed
<1>1. Init => MarkInv
  BY ThreadsAssumption DEF Init, MarkInv, At, Threads
<1>2. IInv /\ MarkInv /\ [Next]_vars => MarkInv'
  BY MarkStep
<1>3. IInv /\ MarkInv => PendingMeansOwed
  BY DEF IInv, TypeOK, KeyInv, OwedInv, EnabledInv, MarkInv, PendingMeansOwed, At
<1> QED
  BY <1>1, <1>2, <1>3, Invariance, PTL DEF Spec

-----------------------------------------------------------------------------
(* KeyCell and MapKey use the same key material.                            *)
LEMMA CellMaterial ==
    /\ Cell!Words = Words
    /\ \A w : Cell!Derive(w) = Derive(w) /\ Cell!NextWord(w) = NextWord(w)
  BY DEF Cell!Words, Words, Cell!Derive, Derive, Cell!NextWord, NextWord

(* The hooks implement KeyCell: Configure opens it, the store to the cipher *)
(* array is the rollover, the copy to the guest the handoff, the wipe of    *)
(* the cipher array the wipe; every other step leaves the cell alone.       *)
LEMMA CellStep ==
    ASSUME IInv, [Next]_vars
    PROVE  [Cell!CellNext]_(Cell!cellVars)
<1>1. ASSUME NEW w \in Words, Configure(w) PROVE [Cell!CellNext]_(Cell!cellVars)
  BY <1>1, ThreadsAssumption, DeriveType, CellMaterial DEF IInv, KeyInv, StartInv, TypeOK, Threads, Phase,
     Configure, Goto, At, Lock, Unlock, flags, keys, guest, Cell!CellNext, Cell!Open, Cell!cellVars
<1>2. ASSUME ConfigureFails PROVE [Cell!CellNext]_(Cell!cellVars)
  BY <1>2, ThreadsAssumption DEF IInv, KeyInv, StartInv, TypeOK, Threads, Phase,
     ConfigureFails, Goto, At, Lock, Unlock, flags, keys, guest, Cell!CellNext, Cell!Wipe, Cell!cellVars
<1>3. ASSUME StartClear PROVE [Cell!CellNext]_(Cell!cellVars)
  BY <1>3, ThreadsAssumption DEF IInv, TypeOK, Threads, Phase,
     StartClear, Goto, At, Lock, Unlock, flags, keys, guest, Cell!cellVars
<1>4. ASSUME ClearDisable PROVE [Cell!CellNext]_(Cell!cellVars)
  BY <1>4, ThreadsAssumption DEF IInv, TypeOK, Threads, Phase,
     ClearDisable, Goto, At, Lock, Unlock, flags, keys, guest, Cell!cellVars
<1>5. ASSUME ClearLock PROVE [Cell!CellNext]_(Cell!cellVars)
  BY <1>5, ThreadsAssumption DEF IInv, TypeOK, Threads, Phase,
     ClearLock, Goto, At, Lock, Unlock, flags, keys, guest, Cell!cellVars
<1>6. ASSUME ClearSession PROVE [Cell!CellNext]_(Cell!cellVars)
  BY <1>6, ThreadsAssumption DEF IInv, TypeOK, Threads, Phase,
     ClearSession, Goto, At, Lock, Unlock, flags, keys, guest, Cell!cellVars
<1>7. ASSUME ClearCipher PROVE [Cell!CellNext]_(Cell!cellVars)
  BY <1>7, ThreadsAssumption DEF IInv, TypeOK, Threads, Phase,
     ClearCipher, Goto, At, Lock, Unlock, flags, keys, guest, Cell!CellNext, Cell!Wipe, Cell!cellVars
<1>8. ASSUME ClearPending PROVE [Cell!CellNext]_(Cell!cellVars)
  BY <1>8, ThreadsAssumption DEF IInv, TypeOK, Threads, Phase,
     ClearPending, Goto, At, Lock, Unlock, flags, keys, guest, Cell!cellVars
<1>9. ASSUME NEW r \in Receivers, NEW d \in Datagrams, NEW traced \in BOOLEAN,
             ReceiveDatagram(r, d, traced)
      PROVE  [Cell!CellNext]_(Cell!cellVars)
  BY <1>9, ThreadsAssumption DEF IInv, TypeOK, Threads, Phase,
     ReceiveDatagram, Goto, At, Lock, Unlock, flags, keys, guest, Cell!cellVars
<1>10. ASSUME NEW r \in Receivers, WalkZone(r) PROVE [Cell!CellNext]_(Cell!cellVars)
  BY <1>10, ThreadsAssumption DEF IInv, TypeOK, Threads, Phase,
     WalkZone, NextPacket, Goto, At, Lock, Unlock, flags, keys, guest, Cell!cellVars
<1>11. ASSUME NEW r \in Receivers, WalkLogin(r) PROVE [Cell!CellNext]_(Cell!cellVars)
  BY <1>11, ThreadsAssumption DEF IInv, TypeOK, Threads, Phase,
     WalkLogin, NextPacket, Goto, At, Lock, Unlock, flags, keys, guest, Cell!CellNext, Cell!Login, Cell!cellVars
<1>12. ASSUME NEW r \in Receivers, WalkOther(r) PROVE [Cell!CellNext]_(Cell!cellVars)
  BY <1>12, ThreadsAssumption DEF IInv, TypeOK, Threads, Phase,
     WalkOther, NextPacket, Goto, At, Lock, Unlock, flags, keys, guest, Cell!cellVars
<1>13. ASSUME NEW r \in Receivers, WalkDone(r) PROVE [Cell!CellNext]_(Cell!cellVars)
  BY <1>13, ThreadsAssumption DEF IInv, TypeOK, Threads, Phase,
     WalkDone, Goto, At, Lock, Unlock, flags, keys, guest, Cell!cellVars
<1>14. ASSUME NEW r \in Receivers, AdvanceLock(r) PROVE [Cell!CellNext]_(Cell!cellVars)
  BY <1>14, ThreadsAssumption DEF IInv, TypeOK, Threads, Phase,
     AdvanceLock, Goto, At, Lock, Unlock, flags, keys, guest, Cell!cellVars
<1>15. ASSUME NEW r \in Receivers, AdvanceCheckEnabled(r) PROVE [Cell!CellNext]_(Cell!cellVars)
  BY <1>15, ThreadsAssumption DEF IInv, TypeOK, Threads, Phase,
     AdvanceCheckEnabled, AdvanceReturn, Goto, At, Lock, Unlock, flags, keys, guest, Cell!cellVars
<1>16. ASSUME NEW r \in Receivers, AdvanceCheckPending(r) PROVE [Cell!CellNext]_(Cell!cellVars)
  BY <1>16, ThreadsAssumption DEF IInv, TypeOK, Threads, Phase,
     AdvanceCheckPending, AdvanceReturn, Goto, At, Lock, Unlock, flags, keys, guest, Cell!cellVars
<1>17. ASSUME NEW r \in Receivers, AdvanceFails(r) PROVE [Cell!CellNext]_(Cell!cellVars)
  BY <1>17, ThreadsAssumption DEF IInv, TypeOK, Threads, Phase,
     AdvanceFails, AdvanceReturn, Goto, At, Lock, Unlock, flags, keys, guest, Cell!cellVars
<1>18. ASSUME NEW r \in Receivers, AdvanceSession(r) PROVE [Cell!CellNext]_(Cell!cellVars)
  BY <1>18, ThreadsAssumption DEF IInv, TypeOK, Threads, Phase,
     AdvanceSession, Goto, At, Lock, Unlock, flags, keys, guest, Cell!cellVars
<1>19. ASSUME NEW r \in Receivers, AdvanceCipher(r) PROVE [Cell!CellNext]_(Cell!cellVars)
  BY <1>19, ThreadsAssumption, DeriveType, NextWordType, CellMaterial DEF IInv, KeyInv, ReceiverInv, StartInv, TypeOK, Threads, Phase,
     AdvanceCipher, Goto, At, Lock, Unlock, flags, keys, guest, Cell!CellNext, Cell!Rollover, Cell!cellVars
<1>20. ASSUME NEW r \in Receivers, AdvancePending(r) PROVE [Cell!CellNext]_(Cell!cellVars)
  BY <1>20, ThreadsAssumption DEF IInv, TypeOK, Threads, Phase,
     AdvancePending, Goto, At, Lock, Unlock, flags, keys, guest, Cell!cellVars
<1>21. ASSUME NEW h \in Handoffs, ApplyEnter(h) PROVE [Cell!CellNext]_(Cell!cellVars)
  BY <1>21, ThreadsAssumption DEF IInv, TypeOK, Threads, Phase,
     ApplyEnter, Goto, At, Lock, Unlock, flags, keys, guest, Cell!cellVars
<1>22. ASSUME NEW h \in Handoffs, ApplyLock(h) PROVE [Cell!CellNext]_(Cell!cellVars)
  BY <1>22, ThreadsAssumption DEF IInv, TypeOK, Threads, Phase,
     ApplyLock, Goto, At, Lock, Unlock, flags, keys, guest, Cell!cellVars
<1>23. ASSUME NEW h \in Handoffs, ApplyCheckEnabled(h) PROVE [Cell!CellNext]_(Cell!cellVars)
  BY <1>23, ThreadsAssumption DEF IInv, TypeOK, Threads, Phase,
     ApplyCheckEnabled, Goto, At, Lock, Unlock, flags, keys, guest, Cell!cellVars
<1>24. ASSUME NEW h \in Handoffs, ApplyCopy(h) PROVE [Cell!CellNext]_(Cell!cellVars)
  <2>1. cipherKey # Wiped
    BY <1>24, ThreadsAssumption, DeriveType
    DEF ApplyCopy, IInv, KeyInv, HandoffInv, CipherMatchesSession, MutexInv,
        InMutex, Threads, At, TypeOK, Sessions
  <2>2. pc[Owner] # "start" /\ pc'[Owner] = pc[Owner]
    BY <1>24, <2>1, ThreadsAssumption
    DEF ApplyCopy, Goto, IInv, KeyInv, StartInv, TypeOK, Threads, At
  <2>3. Cell!Install(h)
    BY <1>24, <2>1, <2>2 DEF ApplyCopy, Cell!Install, Phase, At, flags, keys
  <2> QED
    BY <2>3 DEF Cell!CellNext
<1>25. CASE UNCHANGED vars
  BY <1>25 DEF Phase, At, vars, Cell!cellVars
<1> QED
  BY <1>1, <1>2, <1>3, <1>4, <1>5, <1>6, <1>7, <1>8, <1>9, <1>10, <1>11,
     <1>12, <1>13, <1>14, <1>15, <1>16, <1>17, <1>18, <1>19, <1>20, <1>21,
     <1>22, <1>23, <1>24, <1>25
  DEF Next, Clear, Walk, Advance, Apply

THEOREM MapKeyImplementsCell == Spec => ImplementsCell
<1>1. Init => Cell!CellInit
  BY ThreadsAssumption DEF Init, Cell!CellInit, Phase, At, Threads
<1>2. IInv /\ [Next]_vars => [Cell!CellNext]_(Cell!cellVars)
  BY CellStep
<1> QED
  BY <1>1, <1>2, Invariance, PTL DEF Spec, ImplementsCell, Cell!CellSpec
=============================================================================
