------------------------------- MODULE MapKey --------------------------------
(***************************************************************************)
(* The map-key globals of src/src/runtime/revana_hooks.cpp and the hooks   *)
(* that share them:                                                        *)
(*                                                                         *)
(*   RevanaConfigureDirectMapSessionKey   host, before the guest starts    *)
(*   RevanaTraceWorldReceiveDecodeResult  guest threads that receive       *)
(*     and AdvanceDirectMapSessionKey                                      *)
(*   RevanaApplyDirectMapCipherKey        guest threads that take the key  *)
(*   RevanaClearDirectMapCipherKey        host, when the bridge state dies *)
(*                                                                         *)
(* g_direct_map_key_mutex is held by one thread; the atomic flags are read *)
(* and written without it, so every load and store is a step of its own    *)
(* wherever another thread can come between.  The session key is told      *)
(* apart by its rollover word, the only part that ever changes.            *)
(* g_direct_map_cipher_key_reported only chooses what is logged and is     *)
(* left out.                                                               *)
(***************************************************************************)
EXTENDS KeyMaterial, Sequences

CONSTANTS Owner,      \* the host thread that configures and clears
          Receivers,  \* guest threads in RevanaTraceWorldReceiveDecodeResult
          Handoffs,   \* guest threads in RevanaApplyDirectMapCipherKey
          Nobody,     \* the mutex is free
          MaxPackets  \* packets a datagram is walked for (64 in the code)

Threads == {Owner} \cup Receivers \cup Handoffs

ASSUME ThreadsAssumption ==
    /\ Receivers \cap Handoffs = {}
    /\ Owner \notin Receivers \cup Handoffs
    /\ Nobody \notin Threads

ASSUME PacketsAssumption == MaxPackets \in Nat

VARIABLES enabled,     \* g_direct_map_cipher_key_enabled
          pending,     \* g_direct_map_rollover_pending
          mutex,       \* the thread that holds g_direct_map_key_mutex
          sessionKey,  \* g_direct_map_session_key
          cipherKey,   \* g_direct_map_cipher_key
          pc,          \* where each thread is in its hook
          snapshot,    \* direct_key_enabled of each receiver
          packets,     \* the packets each receiver still has to walk
          installed,   \* the key each handoff thread last copied to the guest
          owed         \* history: no 0x00A since the last rollover

keys == <<sessionKey, cipherKey>>
flags == <<enabled, pending>>
guest == <<snapshot, packets>>
vars == <<enabled, pending, mutex, sessionKey, cipherKey, pc, snapshot,
          packets, installed, owed>>

-----------------------------------------------------------------------------
\* The packets of a decoded datagram, by what the hook does with them.
\* A 0x00A shorter than 32 bytes and every other id are "other"; a packet
\* whose size is below 4 or runs past the datagram is "broken".
PacketKinds == {"zone", "login", "other", "broken"}
Datagrams == UNION {[1..n -> PacketKinds] : n \in 0..MaxPackets}

OwnerSteps    == {"start", "serving", "clear", "clear_lock", "clear_session",
                  "clear_cipher", "clear_pending", "done"}
ReceiverSteps == {"idle", "walk", "lock", "check_enabled", "check_pending",
                  "set_session", "set_cipher", "set_pending"}
HandoffSteps  == {"idle", "lock", "check_enabled", "copy"}

Goto(t, step) == pc' = [pc EXCEPT ![t] = step]
At(t, step) == pc[t] = step

Lock(t)   == mutex = Nobody /\ mutex' = t
Unlock(t) == mutex = t /\ mutex' = Nobody

\* The guest runs only after Configure returned success.
GuestStarted == pc[Owner] # "start"

Init ==
    /\ enabled = FALSE
    /\ pending = FALSE
    /\ mutex = Nobody
    /\ sessionKey = Wiped
    /\ cipherKey = Wiped
    /\ pc = [t \in Threads |-> IF t = Owner THEN "start" ELSE "idle"]
    /\ snapshot = [r \in Receivers |-> FALSE]
    /\ packets = [r \in Receivers |-> <<>>]
    /\ installed = [h \in Handoffs |-> Wiped]
    /\ owed = FALSE

-----------------------------------------------------------------------------
(* RevanaConfigureDirectMapSessionKey.  No guest thread exists yet, so the  *)
(* call is one step.  When the digest cannot be computed nothing changes    *)
(* and the caller destroys the state it had built.                          *)
Configure(w) ==
    /\ At(Owner, "start")
    /\ sessionKey' = w
    /\ cipherKey' = Derive(w)
    /\ pending' = FALSE
    /\ enabled' = TRUE
    /\ Goto(Owner, "serving")
    /\ UNCHANGED <<mutex, guest, installed, owed>>

ConfigureFails ==
    /\ At(Owner, "start")
    /\ Goto(Owner, "clear")
    /\ UNCHANGED <<flags, mutex, keys, guest, installed, owed>>

(* RevanaClearDirectMapCipherKey, run by the destructor of the bridge state: *)
(* the flag first, without the mutex, then both keys and the pending flag.   *)
StartClear ==
    /\ At(Owner, "serving")
    /\ Goto(Owner, "clear")
    /\ UNCHANGED <<flags, mutex, keys, guest, installed, owed>>

ClearDisable ==
    /\ At(Owner, "clear")
    /\ enabled' = FALSE
    /\ Goto(Owner, "clear_lock")
    /\ UNCHANGED <<pending, mutex, keys, guest, installed, owed>>

ClearLock ==
    /\ At(Owner, "clear_lock")
    /\ Lock(Owner)
    /\ Goto(Owner, "clear_session")
    /\ UNCHANGED <<flags, keys, guest, installed, owed>>

ClearSession ==
    /\ At(Owner, "clear_session")
    /\ sessionKey' = Wiped
    /\ Goto(Owner, "clear_cipher")
    /\ UNCHANGED <<flags, mutex, cipherKey, guest, installed, owed>>

ClearCipher ==
    /\ At(Owner, "clear_cipher")
    /\ cipherKey' = Wiped
    /\ Goto(Owner, "clear_pending")
    /\ UNCHANGED <<flags, mutex, sessionKey, guest, installed, owed>>

ClearPending ==
    /\ At(Owner, "clear_pending")
    /\ pending' = FALSE
    /\ Unlock(Owner)
    /\ Goto(Owner, "done")
    /\ UNCHANGED <<enabled, keys, guest, installed, owed>>

-----------------------------------------------------------------------------
(* RevanaTraceWorldReceiveDecodeResult: the flag is loaded once, before the *)
(* packets are walked, and decides for all of them.  With the flag down the *)
(* walk still happens when tracing is on.                                   *)
ReceiveDatagram(r, datagram, traced) ==
    /\ GuestStarted
    /\ At(r, "idle")
    /\ traced \/ enabled
    /\ snapshot' = [snapshot EXCEPT ![r] = enabled]
    /\ packets' = [packets EXCEPT ![r] = datagram]
    /\ Goto(r, "walk")
    /\ UNCHANGED <<flags, mutex, keys, installed, owed>>

NextPacket(r, kind) ==
    /\ At(r, "walk")
    /\ packets[r] # <<>>
    /\ Head(packets[r]) = kind
    /\ packets' = [packets EXCEPT ![r] = IF kind = "broken" THEN <<>> ELSE Tail(@)]
    /\ UNCHANGED <<enabled, mutex, keys, snapshot, installed>>

WalkZone(r) ==
    /\ NextPacket(r, "zone")
    /\ IF snapshot[r] THEN Goto(r, "lock") ELSE UNCHANGED pc
    /\ UNCHANGED <<pending, owed>>

\* Fault: the world login response leaves the mark of the rollover.
WalkLoginKeepsPending(r) ==
    /\ NextPacket(r, "login")
    /\ owed' = FALSE
    /\ UNCHANGED <<pc, pending>>

\* The pending flag is cleared without the mutex.
WalkLogin(r) ==
    /\ NextPacket(r, "login")
    /\ pending' = FALSE
    /\ owed' = FALSE
    /\ UNCHANGED pc

WalkOther(r) ==
    /\ \E kind \in {"other", "broken"} : NextPacket(r, kind)
    /\ UNCHANGED <<pc, pending, owed>>

WalkDone(r) ==
    /\ At(r, "walk")
    /\ packets[r] = <<>>
    /\ snapshot' = [snapshot EXCEPT ![r] = FALSE]
    /\ Goto(r, "idle")
    /\ UNCHANGED <<flags, mutex, keys, packets, installed, owed>>

(* AdvanceDirectMapSessionKey, called for each 0x00B.                        *)
AdvanceLock(r) ==
    /\ At(r, "lock")
    /\ Lock(r)
    /\ Goto(r, "check_enabled")
    /\ UNCHANGED <<flags, keys, guest, installed, owed>>

AdvanceReturn(r) ==
    /\ Unlock(r)
    /\ Goto(r, "walk")
    /\ UNCHANGED keys

AdvanceCheckEnabled(r) ==
    /\ At(r, "check_enabled")
    /\ IF enabled
         THEN Goto(r, "check_pending") /\ UNCHANGED <<mutex, keys>>
         ELSE AdvanceReturn(r)
    /\ UNCHANGED <<flags, guest, installed, owed>>

\* Fault: a retransmitted 0x00B is not told from a new one.
AdvanceCheckPendingSkipped(r) ==
    /\ At(r, "check_pending")
    /\ Goto(r, "set_session")
    /\ UNCHANGED <<flags, mutex, keys, guest, installed, owed>>

AdvanceCheckPending(r) ==
    /\ At(r, "check_pending")
    /\ IF pending
         THEN AdvanceReturn(r)
         ELSE Goto(r, "set_session") /\ UNCHANGED <<mutex, keys>>
    /\ UNCHANGED <<flags, guest, installed, owed>>

\* Fault: the session key is advanced in place before the digest is computed.
AdvanceFailsLate(r) ==
    /\ At(r, "set_cipher")
    /\ AdvanceReturn(r)
    /\ UNCHANGED <<flags, guest, installed, owed>>

\* The digest of the next key cannot be computed: both keys stay.
AdvanceFails(r) ==
    /\ At(r, "set_session")
    /\ AdvanceReturn(r)
    /\ UNCHANGED <<flags, guest, installed, owed>>

\* Fault: the lock's scope ends after the first array.
AdvanceSessionUnlocks(r) ==
    /\ At(r, "set_session")
    /\ sessionKey' = NextWord(sessionKey)
    /\ Unlock(r)
    /\ Goto(r, "set_cipher")
    /\ UNCHANGED <<flags, cipherKey, guest, installed, owed>>

\* Fault: one is added to the rollover word.
AdvanceSessionByOne(r) ==
    /\ At(r, "set_session")
    /\ sessionKey' = (sessionKey + 1) % WordMod
    /\ Goto(r, "set_cipher")
    /\ UNCHANGED <<flags, mutex, cipherKey, guest, installed, owed>>

AdvanceSession(r) ==
    /\ At(r, "set_session")
    /\ sessionKey' = NextWord(sessionKey)
    /\ Goto(r, "set_cipher")
    /\ UNCHANGED <<flags, mutex, cipherKey, guest, installed, owed>>

AdvanceCipher(r) ==
    /\ At(r, "set_cipher")
    /\ cipherKey' = Derive(sessionKey)
    /\ owed' = TRUE
    /\ Goto(r, "set_pending")
    /\ UNCHANGED <<flags, mutex, sessionKey, guest, installed>>

AdvancePending(r) ==
    /\ At(r, "set_pending")
    /\ pending' = TRUE
    /\ Unlock(r)
    /\ Goto(r, "walk")
    /\ UNCHANGED <<enabled, keys, guest, installed, owed>>

-----------------------------------------------------------------------------
\* Fault: the check before the lock is taken for redundant.
ApplyEnterUnchecked(h) ==
    /\ GuestStarted
    /\ At(h, "idle")
    /\ Goto(h, "lock")
    /\ UNCHANGED <<flags, mutex, keys, guest, installed, owed>>

(* RevanaApplyDirectMapCipherKey: the flag is checked before the mutex is   *)
(* taken and again under it.                                                *)
ApplyEnter(h) ==
    /\ GuestStarted
    /\ At(h, "idle")
    /\ enabled
    /\ Goto(h, "lock")
    /\ UNCHANGED <<flags, mutex, keys, guest, installed, owed>>

ApplyLock(h) ==
    /\ At(h, "lock")
    /\ Lock(h)
    /\ Goto(h, "check_enabled")
    /\ UNCHANGED <<flags, keys, guest, installed, owed>>

\* Fault: the check under the lock is taken for redundant.
ApplyCheckSkipped(h) ==
    /\ At(h, "check_enabled")
    /\ Goto(h, "copy")
    /\ UNCHANGED <<flags, mutex, keys, guest, installed, owed>>

ApplyCheckEnabled(h) ==
    /\ At(h, "check_enabled")
    /\ IF enabled
         THEN Goto(h, "copy") /\ UNCHANGED mutex
         ELSE Goto(h, "idle") /\ Unlock(h)
    /\ UNCHANGED <<flags, keys, guest, installed, owed>>

ApplyCopy(h) ==
    /\ At(h, "copy")
    /\ installed' = [installed EXCEPT ![h] = cipherKey]
    /\ Unlock(h)
    /\ Goto(h, "idle")
    /\ UNCHANGED <<flags, keys, guest, owed>>

-----------------------------------------------------------------------------
Clear == ClearDisable \/ ClearLock \/ ClearSession \/ ClearCipher \/ ClearPending

Advance(r) ==
    \/ AdvanceLock(r)
    \/ AdvanceCheckEnabled(r)
    \/ AdvanceCheckPending(r)
    \/ AdvanceFails(r)
    \/ AdvanceSession(r)
    \/ AdvanceCipher(r)
    \/ AdvancePending(r)

Walk(r) == WalkZone(r) \/ WalkLogin(r) \/ WalkOther(r) \/ WalkDone(r)

Apply(h) == ApplyLock(h) \/ ApplyCheckEnabled(h) \/ ApplyCopy(h)

Next ==
    \/ \E w \in Words : Configure(w)
    \/ ConfigureFails
    \/ StartClear
    \/ Clear
    \/ \E r \in Receivers :
          \/ \E datagram \in Datagrams, traced \in BOOLEAN :
                ReceiveDatagram(r, datagram, traced)
          \/ Walk(r)
          \/ Advance(r)
    \/ \E h \in Handoffs : ApplyEnter(h) \/ Apply(h)

(* A thread inside a hook keeps running; nothing makes the guest enter one,  *)
(* and a mutex gives no thread a turn (no strong fairness on a lock).        *)
Fairness ==
    /\ WF_vars(Clear)
    /\ \A r \in Receivers : WF_vars(Walk(r) \/ Advance(r))
    /\ \A h \in Handoffs : WF_vars(Apply(h))

Spec == Init /\ [][Next]_vars /\ Fairness

-----------------------------------------------------------------------------
(* The types of the globals and of each thread's locals.                    *)
TypeOK ==
    /\ enabled \in BOOLEAN
    /\ pending \in BOOLEAN
    /\ mutex \in Threads \cup {Nobody}
    /\ sessionKey \in Sessions
    /\ cipherKey \in Ciphers
    /\ pc \in [Threads -> OwnerSteps \cup ReceiverSteps \cup HandoffSteps]
    /\ pc[Owner] \in OwnerSteps
    /\ \A r \in Receivers : pc[r] \in ReceiverSteps
    /\ \A h \in Handoffs : pc[h] \in HandoffSteps
    /\ snapshot \in [Receivers -> BOOLEAN]
    /\ packets \in [Receivers -> Seq(PacketKinds)]
    /\ installed \in [Handoffs -> Ciphers]
    /\ owed \in BOOLEAN

(* The guest's cipher is always the digest of the session key the host      *)
(* counts on: the two arrays are written one after the other and are never  *)
(* seen apart by a thread that holds the mutex and is not the writer.       *)
CipherMatchesSession ==
    (\A r \in Receivers : ~At(r, "set_cipher")) /\ ~At(Owner, "clear_cipher")
        => \/ sessionKey = Wiped /\ cipherKey = Wiped
           \/ sessionKey # Wiped /\ cipherKey = Derive(sessionKey)

(* A handoff takes a whole key that is in force: what a guest thread copies *)
(* is never the all-zero array RevanaClearDirectMapCipherKey leaves, nor    *)
(* a cipher that a rollover has begun to replace.                           *)
HandoffTakesKeyInForce ==
    [][\A h \in Handoffs :
          installed'[h] # installed[h]
              => /\ sessionKey # Wiped
                 /\ installed'[h] = Derive(sessionKey)]_vars

(* 0x00B is retransmitted and several threads may decode it: two rollovers  *)
(* always have a 0x00A between them.                                        *)
OneRolloverPerLogin ==
    [][cipherKey # Wiped /\ cipherKey' \notin {cipherKey, Wiped} => ~owed]_vars

(* A zone handoff is never swallowed: while one thread receives, the flag   *)
(* that suppresses a rollover is up exactly when a rollover was done and    *)
(* no 0x00A has followed.  (Two receiving threads break this: the unlocked  *)
(* store of one can fall between the check and the store of the other.)     *)
PendingMeansOwed ==
    enabled /\ (\A r \in Receivers : ~At(r, "set_pending")) => pending = owed

(* Once the bridge state is destroyed the key material is gone, whatever    *)
(* the hooks that were running at that moment still do.                     *)
WipedForGood ==
    At(Owner, "done") => /\ sessionKey = Wiped
                         /\ cipherKey = Wiped
                         /\ ~enabled

(* The destructor of the bridge state returns even though the guest keeps   *)
(* calling the hooks: once the flag is down no new caller takes the mutex.  *)
ClearFinishes == At(Owner, "clear") ~> At(Owner, "done")

-----------------------------------------------------------------------------
(* The inductive invariant.                                                 *)
InMutex(t) ==
    \/ t = Owner /\ pc[t] \in {"clear_session", "clear_cipher", "clear_pending"}
    \/ t \in Receivers /\ pc[t] \in {"check_enabled", "check_pending",
                                     "set_session", "set_cipher", "set_pending"}
    \/ t \in Handoffs /\ pc[t] \in {"check_enabled", "copy"}

\* A thread is between lock and unlock exactly when it holds the mutex.
MutexInv == \A t \in Threads : InMutex(t) <=> mutex = t

\* The flag is down before Configure and from the first step of Clear on.
EnabledInv == enabled => /\ pc[Owner] \in {"serving", "clear"}
                         /\ sessionKey # Wiped

\* Before Configure there is no key and no rollover.
StartInv == At(Owner, "start") => sessionKey = Wiped /\ cipherKey = Wiped /\ ~owed

\* What each step of a hook has established while the mutex was held.
ReceiverInv ==
    \A r \in Receivers :
        /\ pc[r] \in {"check_pending", "set_session", "set_pending"}
              => sessionKey # Wiped
        /\ At(r, "set_cipher") => /\ \E w \in Words : cipherKey = Derive(w)
                                  /\ sessionKey = NextWord(cipherKey.md5)
        /\ pc[r] \in {"set_session", "set_cipher"} => ~owed

HandoffInv == \A h \in Handoffs : At(h, "copy") => sessionKey # Wiped

\* The wipe is complete once the mutex was taken, and cannot be undone.
ClearInv ==
    /\ At(Owner, "clear_cipher") => sessionKey = Wiped
    /\ pc[Owner] \in {"clear_pending", "done"} => sessionKey = Wiped /\ cipherKey = Wiped

\* A rollover that no 0x00A has followed is marked, or about to be.
OwedInv ==
    owed => \/ pending
            \/ \E r \in Receivers : At(r, "set_pending")
            \/ At(Owner, "done")

KeyInv ==
    /\ EnabledInv
    /\ StartInv
    /\ ReceiverInv
    /\ HandoffInv
    /\ ClearInv
    /\ OwedInv
    /\ CipherMatchesSession

IInv == TypeOK /\ MutexInv /\ KeyInv

-----------------------------------------------------------------------------
Phase == IF At(Owner, "start") THEN "new"
         ELSE IF cipherKey = Wiped THEN "wiped" ELSE "open"

(* The hooks implement KeyCell: the array the guest copies is the abstract  *)
(* key, it changes in one step, and a handoff reads it in one step.         *)
Cell == INSTANCE KeyCell WITH key <- cipherKey, phase <- Phase

ImplementsCell == Cell!CellSpec
=============================================================================
