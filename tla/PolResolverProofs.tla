------------------------- MODULE PolResolverProofs -------------------------
(***************************************************************************)
(* Proofs about PolResolver, for any guest threads and any number of       *)
(* tables and calls: what the resolver saves and stores step by step.      *)
(***************************************************************************)
EXTENDS PolResolver, TLAPS

(* The slots, and the parts of PolCore, that come before the k-th.         *)
Before(k) ==
    IF k = 1 THEN {} ELSE IF k = 2 THEN {"begin"} ELSE IF k = 3 THEN {"begin", "poll"} ELSE Slots

BeforePart(k) ==
    IF k = 1 THEN {} ELSE IF k = 2 THEN {"service"} ELSE IF k = 3 THEN {"service", "session"}
    ELSE IF k = 4 THEN {"service", "session", "plaintext"} ELSE PolState

(* Whoever stores slots has something saved for each of them.              *)
OriginalInv ==
    /\ \A t \in Guests :
        /\ pc[t] \in {"original", "thunk", "slot"} => \A s \in Slots : saved[t][s] # 0
        /\ pc[t] = "original" => \A s \in Before(index[t]) : original[s] # 0
        /\ pc[t] \in {"thunk", "slot"} => \A s \in Slots : original[s] # 0
    /\ ThunkHasOriginal

(* A request gets its handle after every part has been seen ready.         *)
AcceptedInv ==
    \A t \in Guests :
        /\ pc[t] \in {"ensure", "initialize"} => \A p \in BeforePart(index[t]) : pol[p]
        /\ request[t] = "direct" => \A p \in PolState : pol[p]

(* The table is as the guest filled it, or the thunks are installed.       *)
Guestly == \A s \in Slots : table[s] \in {0, generation}

Thunky == \A s \in Slots : table[s] = thunk[s] /\ thunk[s] < 0 /\ original[s] = generation

(* How far an installation is that is alone.                               *)
AloneAt(t) ==
    /\ pc[t] \in {"load", "alloc", "original", "thunk"} => Guestly
    /\ pc[t] = "load" => \A s \in Before(index[t]) : saved[t][s] = table[s]
    /\ pc[t] = "alloc" => \A s \in Slots : saved[t][s] = table[s]
    /\ pc[t] \in {"original", "thunk", "slot"} =>
          \A s \in Slots : saved[t][s] = generation /\ fresh[t][s] < 0
    /\ pc[t] \in {"original", "thunk"} => \A s \in Slots : table[s] = generation
    /\ pc[t] = "original" => \A s \in Before(index[t]) : original[s] = generation
    /\ pc[t] \in {"thunk", "slot"} => \A s \in Slots : original[s] = generation
    /\ pc[t] = "thunk" => \A s \in Before(index[t]) : thunk[s] = fresh[t][s]
    /\ pc[t] = "slot" =>
          \A s \in Slots :
              /\ thunk[s] = fresh[t][s]
              /\ table[s] = IF s \in Before(index[t]) THEN fresh[t][s] ELSE generation
    /\ pc[t] \in {"ensure", "initialize"} \/ request[t] = "direct" => Thunky

OneInstalls == \A t, u \in Guests : pc[t] \in Installing /\ pc[u] \in Installing => t = u

Settled == Guestly \/ Thunky \/ \E t \in Guests : pc[t] = "slot"

AloneInv == ~overlap => OneInstalls /\ Settled /\ (\A t \in Guests : AloneAt(t)) /\ ~astray

IInv == TypeOK /\ OriginalInv /\ AcceptedInv /\ AloneInv

-----------------------------------------------------------------------------
(* The order of the slots and of the parts.                                *)

LEMMA SlotOrder ==
  ASSUME NEW k \in 1..3
  PROVE  /\ Order[k] \in Slots /\ Order[k] \notin Before(k)
         /\ Before(k + 1) = Before(k) \cup {Order[k]}
<1>1. CASE k = 1
  BY <1>1 DEF Order, Slots, Before
<1>2. CASE k = 2
  BY <1>2 DEF Order, Slots, Before
<1>3. CASE k = 3
  BY <1>3 DEF Order, Slots, Before
<1> QED
  BY <1>1, <1>2, <1>3

LEMMA SlotEnds == Before(1) = {} /\ Before(4) = Slots
BY DEF Before

LEMMA BeforeSlots ==
  ASSUME NEW k \in 1..3
  PROVE  Before(k) \subseteq Slots
BY DEF Before, Slots

LEMMA PartOrder ==
  ASSUME NEW k \in 1..4
  PROVE  /\ PolOrder[k] \in PolState
         /\ BeforePart(k) \subseteq PolState
         /\ BeforePart(k + 1) = BeforePart(k) \cup {PolOrder[k]}
<1>1. CASE k = 1
  BY <1>1 DEF PolOrder, PolState, BeforePart
<1>2. CASE k = 2
  BY <1>2 DEF PolOrder, PolState, BeforePart
<1>3. CASE k = 3
  BY <1>3 DEF PolOrder, PolState, BeforePart
<1>4. CASE k = 4
  BY <1>4 DEF PolOrder, PolState, BeforePart
<1> QED
  BY <1>1, <1>2, <1>3, <1>4

LEMMA PartEnds == BeforePart(1) = {} /\ BeforePart(5) = PolState
BY DEF BeforePart

(* The stages that take the slots one by one: on to the next slot, or past *)
(* the last one to the next stage.                                         *)
Stages == {"load", "original", "thunk", "slot"}

LEMMA NextSlotStep ==
  ASSUME TypeOK, NEW t \in Guests, pc[t] \in Stages, NextSlot(t)
  PROVE  /\ index[t] \in 1..3 /\ Slot(t) \in Slots /\ Slot(t) \notin Before(index[t])
         /\ \/ /\ pc' = pc /\ index' = [index EXCEPT ![t] = index[t] + 1]
               /\ index'[t] \in 1..3
               /\ Before(index'[t]) = Before(index[t]) \cup {Slot(t)}
            \/ /\ pc' = [pc EXCEPT ![t] = After[pc[t]]] /\ index' = [index EXCEPT ![t] = 1]
               /\ Slots = Before(index[t]) \cup {Slot(t)}
<1>1. index[t] \in 1..3
  BY DEF TypeOK, Stages
<1>2. /\ Slot(t) \in Slots /\ Slot(t) \notin Before(index[t])
      /\ Before(index[t] + 1) = Before(index[t]) \cup {Slot(t)}
  BY <1>1, SlotOrder DEF Slot
<1>3. CASE index[t] < 3
  <2>1. pc' = pc /\ index' = [index EXCEPT ![t] = index[t] + 1]
    BY <1>3 DEF NextSlot
  <2>2. index'[t] = index[t] + 1
    BY <2>1 DEF TypeOK
  <2> QED
    BY <1>1, <1>2, <1>3, <2>1, <2>2
<1>4. CASE ~(index[t] < 3)
  <2>1. index[t] = 3
    BY <1>1, <1>4
  <2> QED
    BY <1>1, <1>2, <1>4, <2>1, SlotEnds DEF NextSlot, Goto
<1> QED
  BY <1>3, <1>4

(* pc and index after a step, whatever stage it was.                       *)
PlacesOK ==
    /\ pc \in [Guests -> Installing \cup {"idle", "ensure", "initialize"}]
    /\ index \in [Guests -> 1..4]
    /\ \A t \in Guests : index[t] = 4 => pc[t] \in {"ensure", "initialize"}

LEMMA NextSlotPlaces ==
  ASSUME TypeOK, NEW t \in Guests, pc[t] \in Stages, NextSlot(t)
  PROVE  PlacesOK' /\ Slot(t) \in Slots
<1>1. After[pc[t]] \in Installing \cup {"idle"}
  BY DEF After, Installing, Stages
<1>2. Slot(t) \in Slots
  BY NextSlotStep
<1>3. CASE pc' = pc /\ index' = [index EXCEPT ![t] = index[t] + 1] /\ index'[t] \in 1..3
  BY <1>3, <1>2 DEF TypeOK, PlacesOK
<1>4. CASE pc' = [pc EXCEPT ![t] = After[pc[t]]] /\ index' = [index EXCEPT ![t] = 1]
  BY <1>1, <1>2, <1>4 DEF TypeOK, PlacesOK
<1> QED
  BY <1>3, <1>4, NextSlotStep

LEMMA NextPartStep ==
  ASSUME TypeOK, NEW t \in Guests, pc[t] \in {"ensure", "initialize"}, NextPart(t)
  PROVE  /\ index[t] \in 1..4 /\ Part(t) \in PolState
         /\ \/ /\ pc' = [pc EXCEPT ![t] = "ensure"] /\ index' = [index EXCEPT ![t] = index[t] + 1]
               /\ request' = request
               /\ index'[t] \in 1..4
               /\ BeforePart(index'[t]) = BeforePart(index[t]) \cup {Part(t)}
            \/ /\ pc' = [pc EXCEPT ![t] = "idle"] /\ index' = [index EXCEPT ![t] = 1]
               /\ request' = [request EXCEPT ![t] = "direct"]
               /\ PolState = BeforePart(index[t]) \cup {Part(t)}
<1>1. index[t] \in 1..4
  BY DEF TypeOK
<1>2. /\ Part(t) \in PolState
      /\ BeforePart(index[t] + 1) = BeforePart(index[t]) \cup {Part(t)}
  BY <1>1, PartOrder DEF Part
<1>3. CASE index[t] < 4
  <2>1. pc' = [pc EXCEPT ![t] = "ensure"] /\ index' = [index EXCEPT ![t] = index[t] + 1]
        /\ request' = request
    BY <1>3 DEF NextPart
  <2>2. index'[t] = index[t] + 1
    BY <2>1 DEF TypeOK
  <2> QED
    BY <1>1, <1>2, <1>3, <2>1, <2>2
<1>4. CASE ~(index[t] < 4)
  <2>1. index[t] = 4
    BY <1>1, <1>4
  <2> QED
    BY <1>1, <1>2, <1>4, <2>1, PartEnds DEF NextPart, Goto
<1> QED
  BY <1>3, <1>4

LEMMA NextPartPlaces ==
  ASSUME TypeOK, NEW t \in Guests, pc[t] \in {"ensure", "initialize"}, NextPart(t)
  PROVE  PlacesOK' /\ Part(t) \in PolState /\ request' \in [Guests -> {"none", "direct", "guest"}]
<1>1. Part(t) \in PolState
  BY NextPartStep
<1>2. CASE /\ pc' = [pc EXCEPT ![t] = "ensure"] /\ index' = [index EXCEPT ![t] = index[t] + 1]
           /\ request' = request /\ index'[t] \in 1..4
  <2>1. pc' \in [Guests -> Installing \cup {"idle", "ensure", "initialize"}] /\ pc'[t] = "ensure"
    BY <1>2 DEF TypeOK
  <2>2. index' \in [Guests -> 1..4]
    BY <1>2 DEF TypeOK
  <2>3. \A u \in Guests : index'[u] = 4 => pc'[u] \in {"ensure", "initialize"}
    BY <1>2, <2>1 DEF TypeOK
  <2> QED
    BY <1>1, <1>2, <2>1, <2>2, <2>3 DEF TypeOK, PlacesOK
<1>3. CASE /\ pc' = [pc EXCEPT ![t] = "idle"] /\ index' = [index EXCEPT ![t] = 1]
           /\ request' = [request EXCEPT ![t] = "direct"]
  BY <1>1, <1>3 DEF TypeOK, PlacesOK
<1> QED
  BY <1>2, <1>3, NextPartStep

LEMMA GotoPlaces ==
  ASSUME TypeOK, NEW t \in Guests, NEW next \in Installing \cup {"idle", "ensure", "initialize"},
         Goto(t, next)
  PROVE  PlacesOK'
BY DEF Goto, TypeOK, PlacesOK

-----------------------------------------------------------------------------
(* The start, and types.                                                   *)

LEMMA InitIInv == Init => IInv
<1> SUFFICES ASSUME Init PROVE IInv
  OBVIOUS
<1>1. TypeOK
  <2>1. 0 \in 0..MaxGenerations /\ 0 \in 0..MaxDispatches
    BY BoundsAssumption
  <2>2. PlacesOK
    BY DEF Init, PlacesOK
  <2> QED
    <3>1. saved \in [Guests -> [Slots -> Addresses]] /\ fresh \in [Guests -> [Slots -> Addresses]]
      BY DEF Init, Addresses
    <3>2. /\ table \in [Slots -> Addresses] /\ original \in [Slots -> Addresses]
          /\ thunk \in [Slots -> Addresses]
      BY DEF Init, Addresses
    <3>3. pol \in [PolState -> BOOLEAN] /\ allocated \in Nat
      BY DEF Init
    <3>4. /\ request \in [Guests -> {"none", "direct", "guest"}] /\ polled \in [Guests -> BOOLEAN]
          /\ overlap \in BOOLEAN /\ astray \in BOOLEAN
      BY DEF Init
    <3> QED
      BY <2>1, <2>2, <3>1, <3>2, <3>3, <3>4 DEF Init, TypeOK, PlacesOK
<1>2. OriginalInv /\ AcceptedInv
  BY DEF Init, OriginalInv, ThunkHasOriginal, AcceptedInv
<1>3. AloneInv
  BY DEF Init, AloneInv, OneInstalls, Settled, AloneAt, Guestly, Installing
<1> QED
  BY <1>1, <1>2, <1>3 DEF IInv

LEMMA TypeStep == TypeOK /\ [Next]_vars => TypeOK'
<1> SUFFICES ASSUME TypeOK, [Next]_vars PROVE TypeOK'
  OBVIOUS
<1>1. CASE Refill
  <2>1. generation' = generation + 1 /\ generation' \in 0..MaxGenerations /\ generation' \in Int
    BY <1>1, BoundsAssumption DEF Refill, TypeOK
  <2>2. PICK filled \in {Slots, {"begin", "cancel"}} :
          table' = [s \in Slots |-> IF s \in filled THEN generation' ELSE 0]
    BY <1>1 DEF Refill
  <2>3. table' \in [Slots -> Addresses]
    BY <2>1, <2>2 DEF Addresses
  <2>4. request' \in [Guests -> {"none", "direct", "guest"}] /\ polled' \in [Guests -> BOOLEAN]
        /\ overlap' \in BOOLEAN
    BY <1>1 DEF Refill, TypeOK
  <2> QED
    BY <1>1, <2>1, <2>3, <2>4 DEF Refill, TypeOK, globals, local
<1>2. ASSUME NEW t \in Guests, Install(t) PROVE TypeOK'
  <2>1. CASE Dispatch(t)
    <3>1. PlacesOK'
      BY <2>1, GotoPlaces DEF Dispatch, Installing
    <3>2. dispatches' \in 0..MaxDispatches /\ overlap' \in BOOLEAN
      BY <2>1, BoundsAssumption DEF Dispatch, NoteOverlap, TypeOK
    <3> QED
      BY <2>1, <3>1, <3>2 DEF Dispatch, TypeOK, PlacesOK, globals, requests
  <2>2. CASE CheckInstalled(t)
    <3>1. Goto(t, "idle") \/ Goto(t, "load")
      BY <2>2 DEF CheckInstalled
    <3>2. PlacesOK'
      BY <3>1, GotoPlaces DEF Installing
    <3> QED
      BY <2>2, <3>2 DEF CheckInstalled, TypeOK, PlacesOK, globals, counters, requests
  <2>3. CASE LoadSlot(t)
    <3>1. pc[t] \in Stages /\ NextSlot(t)
      BY <2>3 DEF LoadSlot, Stages
    <3>2. PlacesOK' /\ Slot(t) \in Slots
      BY <3>1, NextSlotPlaces
    <3>3. saved' \in [Guests -> [Slots -> Addresses]]
      BY <2>3, <3>2 DEF LoadSlot, TypeOK, Forget, Addresses
    <3> QED
      BY <2>3, <3>2, <3>3 DEF LoadSlot, TypeOK, PlacesOK, globals, counters, requests
  <2>4. CASE GiveUp(t)
    <3>1. PlacesOK'
      BY <2>4, GotoPlaces DEF GiveUp
    <3>2. saved' \in [Guests -> [Slots -> Addresses]] /\ fresh' \in [Guests -> [Slots -> Addresses]]
      BY <2>4 DEF GiveUp, Forget, TypeOK, Addresses
    <3> QED
      BY <2>4, <3>1, <3>2 DEF GiveUp, TypeOK, PlacesOK, globals, counters, requests
  <2>5. CASE Allocate(t)
    <3>1. PlacesOK'
      BY <2>5, GotoPlaces DEF Allocate, After, Installing
    <3>2. fresh' \in [Guests -> [Slots -> Addresses]] /\ allocated' \in Nat
      BY <2>5 DEF Allocate, TypeOK, Addresses, Slots
    <3> QED
      BY <2>5, <3>1, <3>2 DEF Allocate, TypeOK, PlacesOK, globals, requests
  <2>6. CASE StoreOriginal(t)
    <3>1. pc[t] \in Stages /\ NextSlot(t)
      BY <2>6 DEF StoreOriginal, Stages
    <3>2. PlacesOK' /\ Slot(t) \in Slots
      BY <3>1, NextSlotPlaces
    <3>3. original' \in [Slots -> Addresses]
      BY <2>6, <3>2 DEF StoreOriginal, TypeOK, Forget, Addresses
    <3> QED
      BY <2>6, <3>2, <3>3 DEF StoreOriginal, TypeOK, PlacesOK, globals, counters, requests
  <2>7. CASE StoreThunk(t)
    <3>1. pc[t] \in Stages /\ NextSlot(t)
      BY <2>7 DEF StoreThunk, Stages
    <3>2. PlacesOK' /\ Slot(t) \in Slots
      BY <3>1, NextSlotPlaces
    <3>3. thunk' \in [Slots -> Addresses]
      BY <2>7, <3>2 DEF StoreThunk, TypeOK, Forget, Addresses
    <3> QED
      BY <2>7, <3>2, <3>3 DEF StoreThunk, TypeOK, PlacesOK, globals, counters, requests
  <2>8. CASE StoreSlot(t)
    <3>1. pc[t] \in Stages /\ NextSlot(t)
      BY <2>8 DEF StoreSlot, Stages
    <3>2. PlacesOK' /\ Slot(t) \in Slots
      BY <3>1, NextSlotPlaces
    <3>3. /\ table' \in [Slots -> Addresses]
          /\ saved' \in [Guests -> [Slots -> Addresses]] /\ fresh' \in [Guests -> [Slots -> Addresses]]
      <4>1. table' \in [Slots -> Addresses]
        BY <2>8, <3>2 DEF StoreSlot, TypeOK
      <4>2. CASE UNCHANGED <<saved, fresh>>
        BY <4>1, <4>2 DEF TypeOK
      <4>3. CASE Forget(t)
        <5>1. [s \in Slots |-> 0] \in [Slots -> Addresses]
          BY DEF Addresses
        <5> QED
          BY <4>1, <4>3, <5>1 DEF Forget, TypeOK
      <4> QED
        BY <2>8, <4>2, <4>3 DEF StoreSlot
    <3> QED
      BY <2>8, <3>2, <3>3 DEF StoreSlot, TypeOK, PlacesOK, globals, counters, requests
  <2> QED
    BY <1>2, <2>1, <2>2, <2>3, <2>4, <2>5, <2>6, <2>7, <2>8 DEF Install
<1>3. ASSUME NEW t \in Guests, Resolve(t) PROVE TypeOK'
  <2>1. ASSUME NEW kind \in {"direct", "guest"}, Begin(t, kind) PROVE TypeOK'
    <3>1. Goto(t, "ensure") \/ UNCHANGED <<pc, index>>
      BY <2>1 DEF Begin
    <3>2. PlacesOK'
      BY <3>1, GotoPlaces DEF TypeOK, PlacesOK
    <3>3. /\ request' \in [Guests -> {"none", "direct", "guest"}]
          /\ overlap' \in BOOLEAN /\ astray' \in BOOLEAN
      BY <2>1 DEF Begin, NoteOverlap, TypeOK
    <3> QED
      BY <2>1, <3>2, <3>3 DEF Begin, TypeOK, PlacesOK, globals, counters
  <2>2. ASSUME NEW s \in Slots, Call(t, s)
        PROVE  /\ overlap' \in BOOLEAN /\ astray' \in BOOLEAN
               /\ UNCHANGED <<table, globals, pol, counters, local>>
    BY <2>2 DEF Call, NoteOverlap, TypeOK
  <2>3. CASE Poll(t)
    BY <2>2, <2>3 DEF Poll, Slots, TypeOK, globals, counters, local
  <2>4. CASE Cancel(t)
    BY <2>2, <2>4 DEF Cancel, Slots, TypeOK, globals, counters, local
  <2>5. CASE EnsureReady(t)
    <3>1. PlacesOK' /\ request' \in [Guests -> {"none", "direct", "guest"}]
      BY <2>5, NextPartPlaces DEF EnsureReady
    <3> QED
      BY <2>5, <3>1 DEF EnsureReady, TypeOK, PlacesOK, globals, counters
  <2>6. CASE EnsureMissing(t)
    <3>1. PlacesOK'
      BY <2>6 DEF EnsureMissing, TypeOK, PlacesOK
    <3> QED
      BY <2>6, <3>1 DEF EnsureMissing, TypeOK, PlacesOK, globals, counters, requests
  <2>7. CASE Initialize(t)
    <3>1. PlacesOK' /\ Part(t) \in PolState /\ request' \in [Guests -> {"none", "direct", "guest"}]
      BY <2>7, NextPartPlaces DEF Initialize
    <3>2. pol' \in [PolState -> BOOLEAN]
      BY <2>7, <3>1 DEF Initialize, TypeOK
    <3> QED
      BY <2>7, <3>1, <3>2 DEF Initialize, TypeOK, PlacesOK, globals, counters
  <2>8. CASE InitializeFails(t)
    <3>1. PlacesOK'
      BY <2>8, GotoPlaces DEF InitializeFails
    <3>2. index[t] \in 1..4
      BY DEF TypeOK
    <3>3. Part(t) \in PolState
      BY <3>2, PartOrder DEF Part
    <3>4. pol' \in [PolState -> BOOLEAN]
      BY <2>8, <3>3 DEF InitializeFails, TypeOK
    <3> QED
      BY <2>8, <3>1, <3>4 DEF InitializeFails, TypeOK, PlacesOK, globals, counters, requests
  <2> QED
    BY <1>3, <2>1, <2>3, <2>4, <2>5, <2>6, <2>7, <2>8 DEF Resolve
<1>4. CASE UNCHANGED vars
  BY <1>4 DEF TypeOK, vars, globals, counters, local, requests
<1> QED
  BY <1>1, <1>2, <1>3, <1>4 DEF Next

-----------------------------------------------------------------------------
(* What a step changes of the installer's state.                           *)

(* No step of Resolve, and none of the first two of Install, touches the   *)
(* slots, the originals, the thunks or what an installation has loaded.    *)
LEMMA ResolveFrame ==
  ASSUME NEW t \in Guests, Resolve(t)
  PROVE  UNCHANGED <<table, original, thunk, generation, saved, fresh>>
BY DEF Resolve, Begin, Poll, Cancel, Call, EnsureReady, EnsureMissing, Initialize,
   InitializeFails, globals, counters, local

LEMMA InstallFrame ==
  ASSUME NEW t \in Guests, Install(t)
  PROVE  UNCHANGED <<pol, request, astray, generation>>
BY DEF Install, Dispatch, CheckInstalled, LoadSlot, Allocate, GiveUp, StoreOriginal, StoreThunk,
   StoreSlot, globals, counters, requests

(* A thread moves only itself, and stays inside its own part of the code.  *)
LEMMA ResolvePlaces ==
  ASSUME TypeOK, NEW t \in Guests, Resolve(t)
  PROVE  /\ \A u \in Guests : u # t => pc'[u] = pc[u] /\ index'[u] = index[u]
         /\ pc[t] \in {"idle", "ensure", "initialize"}
         /\ pc'[t] \in {"idle", "ensure", "initialize"}
<1>1. ASSUME NEW next \in {"idle", "ensure"}, Goto(t, next)
      PROVE  /\ \A u \in Guests : u # t => pc'[u] = pc[u] /\ index'[u] = index[u]
             /\ pc'[t] \in {"idle", "ensure", "initialize"}
  BY <1>1 DEF Goto, TypeOK
<1>2. ASSUME NextPart(t), pc[t] \in {"ensure", "initialize"}
      PROVE  /\ \A u \in Guests : u # t => pc'[u] = pc[u] /\ index'[u] = index[u]
             /\ pc'[t] \in {"idle", "ensure", "initialize"}
  BY <1>2, NextPartStep DEF TypeOK
<1>3. ASSUME NEW kind \in {"direct", "guest"}, Begin(t, kind)
      PROVE  /\ \A u \in Guests : u # t => pc'[u] = pc[u] /\ index'[u] = index[u]
             /\ pc[t] = "idle" /\ pc'[t] \in {"idle", "ensure", "initialize"}
  BY <1>1, <1>3 DEF Begin
<1>4. CASE Poll(t) \/ Cancel(t)
  BY <1>4 DEF Poll, Cancel, Call, local
<1>5. CASE EnsureReady(t)
  BY <1>2, <1>5 DEF EnsureReady
<1>6. CASE EnsureMissing(t)
  BY <1>6 DEF EnsureMissing, TypeOK
<1>7. CASE Initialize(t)
  BY <1>2, <1>7 DEF Initialize
<1>8. CASE InitializeFails(t)
  BY <1>1, <1>8 DEF InitializeFails
<1> QED
  BY <1>3, <1>4, <1>5, <1>6, <1>7, <1>8 DEF Resolve

LEMMA InstallPlaces ==
  ASSUME TypeOK, NEW t \in Guests, Install(t)
  PROVE  /\ \A u \in Guests : u # t =>
               /\ pc'[u] = pc[u] /\ index'[u] = index[u]
               /\ saved'[u] = saved[u] /\ fresh'[u] = fresh[u]
         /\ pc[t] \in Installing \cup {"idle"}
         /\ pc'[t] \in Installing \cup {"idle"}
<1>1. ASSUME NEW next \in Installing \cup {"idle"}, Goto(t, next)
      PROVE  /\ \A u \in Guests : u # t => pc'[u] = pc[u] /\ index'[u] = index[u]
             /\ pc'[t] \in Installing \cup {"idle"}
  BY <1>1 DEF Goto, TypeOK
<1>2. ASSUME NextSlot(t), pc[t] \in Stages
      PROVE  /\ \A u \in Guests : u # t => pc'[u] = pc[u] /\ index'[u] = index[u]
             /\ pc'[t] \in Installing \cup {"idle"}
             /\ pc[t] \in Installing
  <2>1. After[pc[t]] \in Installing \cup {"idle"} /\ pc[t] \in Installing
    BY <1>2 DEF After, Installing, Stages
  <2> QED
    BY <1>2, <2>1, NextSlotStep DEF TypeOK
<1>3. CASE Dispatch(t)
  BY <1>1, <1>3 DEF Dispatch, Installing
<1>4. CASE CheckInstalled(t)
  BY <1>1, <1>4 DEF CheckInstalled, Installing
<1>5. CASE LoadSlot(t)
  BY <1>2, <1>5 DEF LoadSlot, TypeOK, Stages
<1>6. CASE GiveUp(t)
  BY <1>1, <1>6 DEF GiveUp, Forget, TypeOK, Installing
<1>7. CASE Allocate(t)
  BY <1>1, <1>7 DEF Allocate, After, TypeOK, Installing
<1>8. CASE StoreOriginal(t) \/ StoreThunk(t)
  BY <1>2, <1>8 DEF StoreOriginal, StoreThunk, Stages
<1>9. CASE StoreSlot(t)
  BY <1>2, <1>9 DEF StoreSlot, Forget, TypeOK, Stages
<1> QED
  BY <1>3, <1>4, <1>5, <1>6, <1>7, <1>8, <1>9 DEF Install

-----------------------------------------------------------------------------
(* ThunkHasOriginal.                                                       *)

LEMMA OriginalStep == TypeOK /\ OriginalInv /\ [Next]_vars => OriginalInv'
<1> SUFFICES ASSUME TypeOK, OriginalInv, [Next]_vars PROVE OriginalInv'
  OBVIOUS
<1>1. CASE Refill
  <2>1. \A s \in Slots : table'[s] >= 0
    BY <1>1, BoundsAssumption DEF Refill, TypeOK
  <2>2. UNCHANGED <<original, pc, index, saved>>
    BY <1>1 DEF Refill, globals, local
  <2> QED
    BY <2>1, <2>2, TypeStep DEF OriginalInv, ThunkHasOriginal, TypeOK, Addresses
<1>2. ASSUME NEW t \in Guests, Resolve(t) PROVE OriginalInv'
  <2>1. UNCHANGED <<table, original, saved>>
    BY <1>2, ResolveFrame
  <2> QED
    BY <1>2, <2>1, ResolvePlaces DEF OriginalInv, ThunkHasOriginal
<1>3. ASSUME NEW t \in Guests, Install(t) PROVE OriginalInv'
  <2>0. /\ \A u \in Guests : u # t => pc'[u] = pc[u] /\ index'[u] = index[u] /\ saved'[u] = saved[u]
        /\ pc'[t] \in Installing \cup {"idle"}
    BY <1>3, InstallPlaces
  <2>1. CASE Dispatch(t) \/ CheckInstalled(t) \/ GiveUp(t)
    <3>1. UNCHANGED <<table, original>> /\ pc'[t] \in {"check", "idle", "load"}
      BY <2>1 DEF Dispatch, CheckInstalled, GiveUp, Goto, TypeOK, globals
    <3> QED
      BY <2>0, <3>1 DEF OriginalInv, ThunkHasOriginal
  <2>2. CASE LoadSlot(t)
    <3>1. UNCHANGED <<table, original>> /\ pc[t] = "load" /\ NextSlot(t)
      BY <2>2 DEF LoadSlot, globals
    <3>2. pc'[t] \in {"load", "alloc"}
      BY <3>1, NextSlotStep DEF Stages, After, TypeOK
    <3> QED
      BY <2>0, <3>1, <3>2 DEF OriginalInv, ThunkHasOriginal
  <2>3. CASE Allocate(t)
    <3>1. /\ UNCHANGED <<table, original, saved>> /\ pc'[t] = "original" /\ index'[t] = 1
          /\ \A s \in Slots : saved[t][s] # 0
      BY <2>3 DEF Allocate, Goto, After, TypeOK, globals
    <3> QED
      BY <2>0, <3>1, SlotEnds DEF OriginalInv, ThunkHasOriginal
  <2>4. CASE StoreOriginal(t)
    <3>1. /\ UNCHANGED <<table, saved>> /\ pc[t] = "original" /\ NextSlot(t)
          /\ original' = [original EXCEPT ![Slot(t)] = saved[t][Slot(t)]]
      BY <2>4 DEF StoreOriginal
    <3>2. Slot(t) \in Slots /\ saved[t][Slot(t)] # 0
      BY <3>1, NextSlotStep DEF OriginalInv, Stages
    <3>3. \A s \in Slots : original[s] # 0 \/ s = Slot(t) => original'[s] # 0
      BY <3>1, <3>2 DEF TypeOK
    <3>4. \A u \in Guests \ {t} :
            /\ pc'[u] \in {"original", "thunk", "slot"} => \A s \in Slots : saved'[u][s] # 0
            /\ pc'[u] = "original" => \A s \in Before(index'[u]) : original'[s] # 0
            /\ pc'[u] \in {"thunk", "slot"} => \A s \in Slots : original'[s] # 0
      <4>0. \A u \in Guests : pc[u] = "original" => index[u] \in 1..3
        BY DEF TypeOK
      <4>1. \A u \in Guests : pc[u] = "original" => Before(index[u]) \subseteq Slots
        BY <4>0, BeforeSlots
      <4> QED
        BY <2>0, <3>1, <3>3, <4>1 DEF OriginalInv
    <3>5. /\ pc'[t] \in {"original", "thunk"} /\ \A s \in Slots : saved'[t][s] # 0
          /\ pc'[t] = "original" => \A s \in Before(index'[t]) : original'[s] # 0
          /\ pc'[t] = "thunk" => \A s \in Slots : original'[s] # 0
      <4>1. CASE /\ pc' = pc /\ Before(index'[t]) = Before(index[t]) \cup {Slot(t)}
        <5>0. index[t] \in 1..3
          BY <3>1 DEF TypeOK
        <5>1. Before(index[t]) \subseteq Slots
          BY <5>0, BeforeSlots
        <5> QED
          BY <3>1, <3>2, <3>3, <4>1, <5>1 DEF OriginalInv
      <4>2. CASE pc' = [pc EXCEPT ![t] = After[pc[t]]] /\ Slots = Before(index[t]) \cup {Slot(t)}
        <5>1. pc'[t] = "thunk"
          BY <3>1, <4>2 DEF After, TypeOK
        <5> QED
          BY <3>1, <3>3, <4>2, <5>1 DEF OriginalInv
      <4> QED
        BY <3>1, <4>1, <4>2, NextSlotStep DEF Stages
    <3>6. ThunkHasOriginal'
      BY <3>1, <3>3 DEF OriginalInv, ThunkHasOriginal
    <3> QED
      BY <3>4, <3>5, <3>6 DEF OriginalInv
  <2>5. CASE StoreThunk(t)
    <3>1. UNCHANGED <<table, original, saved>> /\ pc[t] = "thunk" /\ NextSlot(t)
      BY <2>5 DEF StoreThunk
    <3>2. pc'[t] \in {"thunk", "slot"}
      BY <3>1, NextSlotStep DEF Stages, After, TypeOK
    <3> QED
      BY <2>0, <3>1, <3>2 DEF OriginalInv, ThunkHasOriginal
  <2>6. CASE StoreSlot(t)
    <3>1. /\ original' = original /\ pc[t] = "slot" /\ NextSlot(t)
          /\ pc'[t] # "idle" => saved' = saved
      BY <2>6 DEF StoreSlot, globals
    <3>2. pc'[t] \in {"slot", "idle"}
      BY <3>1, NextSlotStep DEF Stages, After, TypeOK
    <3> QED
      BY <2>0, <3>1, <3>2 DEF OriginalInv, ThunkHasOriginal
  <2> QED
    BY <1>3, <2>1, <2>2, <2>3, <2>4, <2>5, <2>6 DEF Install
<1>4. CASE UNCHANGED vars
  BY <1>4 DEF vars, globals, local, OriginalInv, ThunkHasOriginal
<1> QED
  BY <1>1, <1>2, <1>3, <1>4 DEF Next

-----------------------------------------------------------------------------
(* AcceptedMeansReady.                                                     *)

LEMMA AcceptedStep == TypeOK /\ AcceptedInv /\ [Next]_vars => AcceptedInv'
<1> SUFFICES ASSUME TypeOK, AcceptedInv, [Next]_vars PROVE AcceptedInv'
  OBVIOUS
<1>0. \A u \in Guests : pc[u] \in {"ensure", "initialize"} => BeforePart(index[u]) \subseteq PolState
  BY PartOrder DEF TypeOK
<1>1. CASE Refill
  BY <1>1 DEF Refill, AcceptedInv, local
<1>2. ASSUME NEW t \in Guests, Install(t) PROVE AcceptedInv'
  <2>1. UNCHANGED <<pol, request>>
    BY <1>2, InstallFrame
  <2> QED
    BY <1>2, <2>1, InstallPlaces DEF AcceptedInv, Installing
<1>3. ASSUME NEW t \in Guests, Resolve(t) PROVE AcceptedInv'
  <2>0. \A u \in Guests : u # t => pc'[u] = pc[u] /\ index'[u] = index[u]
    BY <1>3, ResolvePlaces
  <2>1. ASSUME \A p \in PolState : pol[p] => pol'[p],
               \A u \in Guests : u # t => request'[u] = request[u],
               /\ pc'[t] \in {"ensure", "initialize"} => \A p \in BeforePart(index'[t]) : pol'[p]
               /\ request'[t] = "direct" => \A p \in PolState : pol'[p]
        PROVE  AcceptedInv'
    BY <1>0, <2>0, <2>1 DEF AcceptedInv
  <2>2. ASSUME NEW kind \in {"direct", "guest"}, Begin(t, kind) PROVE AcceptedInv'
    <3>1. /\ pol' = pol /\ pc[t] = "idle" /\ request'[t] # "direct"
          /\ \A u \in Guests : u # t => request'[u] = request[u]
          /\ (pc'[t] = "ensure" /\ index'[t] = 1) \/ pc'[t] = "idle"
      BY <2>2 DEF Begin, Goto, TypeOK
    <3> QED
      BY <2>1, <3>1, PartEnds
  <2>3. CASE Poll(t) \/ Cancel(t)
    <3>1. /\ UNCHANGED <<pol, pc, index>> /\ pc[t] = "idle"
          /\ request'[t] = "none" \/ request' = request
          /\ \A u \in Guests : u # t => request'[u] = request[u]
      BY <2>3 DEF Poll, Cancel, Call, local, TypeOK
    <3> QED
      BY <2>1, <3>1 DEF AcceptedInv
  <2>4. ASSUME pc[t] \in {"ensure", "initialize"}, NextPart(t), pol'[Part(t)],
               \A p \in PolState : pol[p] => pol'[p]
        PROVE  AcceptedInv'
    <3>1. \A p \in BeforePart(index[t]) \cup {Part(t)} : pol'[p]
      BY <1>0, <2>4 DEF AcceptedInv
    <3>2. \A u \in Guests : u # t => request'[u] = request[u]
      BY <2>4, NextPartStep DEF TypeOK
    <3>3. CASE /\ pc' = [pc EXCEPT ![t] = "ensure"] /\ request' = request
               /\ BeforePart(index'[t]) = BeforePart(index[t]) \cup {Part(t)}
      <4>1. request'[t] = "direct" => \A p \in PolState : pol'[p]
        BY <2>4, <3>3 DEF AcceptedInv
      <4>2. \A p \in BeforePart(index'[t]) : pol'[p]
        BY <3>1, <3>3
      <4>3. \A p \in PolState : pol[p] => pol'[p]
        BY <2>4
      <4> HIDE <2>4
      <4> QED
        BY <2>1, <3>2, <4>1, <4>2, <4>3
    <3>4. CASE /\ pc' = [pc EXCEPT ![t] = "idle"]
               /\ PolState = BeforePart(index[t]) \cup {Part(t)}
      <4>1. pc'[t] = "idle"
        BY <3>4 DEF TypeOK
      <4>2. \A p \in PolState : pol'[p]
        BY <3>1, <3>4
      <4> HIDE <2>4
      <4> QED
        BY <2>1, <3>2, <4>1, <4>2
    <3> QED
      BY <2>4, <3>3, <3>4, NextPartStep
  <2>5. CASE EnsureReady(t)
    BY <2>4, <2>5 DEF EnsureReady
  <2>6. CASE EnsureMissing(t)
    BY <2>1, <2>6 DEF EnsureMissing, requests, AcceptedInv, TypeOK
  <2>7. CASE Initialize(t)
    <3>1. Part(t) \in PolState
      BY <2>7, NextPartStep DEF Initialize
    <3> QED
      BY <2>4, <2>7, <3>1 DEF Initialize, TypeOK
  <2>8. CASE InitializeFails(t)
    <3>1. \A p \in PolState : pol[p] => pol'[p]
      BY <2>8 DEF InitializeFails, TypeOK
    <3>2. pc'[t] = "idle" /\ request' = request
      BY <2>8 DEF InitializeFails, Goto, requests, TypeOK
    <3> QED
      BY <2>1, <3>1, <3>2 DEF AcceptedInv
  <2> QED
    BY <1>3, <2>2, <2>3, <2>5, <2>6, <2>7, <2>8 DEF Resolve
<1>4. CASE UNCHANGED vars
  BY <1>4 DEF vars, local, requests, AcceptedInv
<1> QED
  BY <1>1, <1>2, <1>3, <1>4 DEF Next
-----------------------------------------------------------------------------
(* OriginalsAreCurrent and RequestsStayHome: an installation that is alone.*)

(* The guest's own table and the thunks cannot both be in the slots.       *)
LEMMA GuestOrThunk == TypeOK => ~(Guestly /\ Thunky)
<1> SUFFICES ASSUME TypeOK, Guestly, Thunky PROVE FALSE
  OBVIOUS
<1>1. generation >= 0
  BY BoundsAssumption DEF TypeOK
<1>2. "begin" \in Slots
  BY DEF Slots
<1>3. table["begin"] \in {0, generation} /\ table["begin"] = thunk["begin"] /\ thunk["begin"] < 0
  BY <1>2 DEF Guestly, Thunky
<1>4. table["begin"] >= 0
  BY <1>1, <1>3
<1>5. table["begin"] \in Int
  BY <1>2 DEF TypeOK, Addresses
<1> QED
  BY <1>3, <1>4, <1>5

(* While the slots are being replaced, no thread is at work for a thunk.   *)
LEMMA NobodyInThunk ==
  ASSUME TypeOK, \A u \in Guests : AloneAt(u), NEW t \in Guests,
         pc[t] \in {"load", "alloc", "original", "thunk", "slot"}
  PROVE  \A u \in Guests : pc[u] \notin {"ensure", "initialize"} /\ request[u] # "direct"
<1> SUFFICES ASSUME Thunky PROVE FALSE
  BY DEF AloneAt
<1>1. CASE pc[t] = "slot"
  <2>0. index[t] # 4 /\ index[t] \in 1..4
    BY <1>1 DEF TypeOK
  <2>1. index[t] \in 1..3
    BY <2>0
  <2>2. Order[index[t]] \in Slots /\ Order[index[t]] \notin Before(index[t])
    BY <2>1, SlotOrder
  <2>3. table[Order[index[t]]] = generation /\ table[Order[index[t]]] < 0
    BY <1>1, <2>2 DEF AloneAt, Thunky
  <2> QED
    BY <2>3, BoundsAssumption DEF TypeOK
<1>2. CASE pc[t] # "slot"
  <2>1. Guestly
    BY <1>2 DEF AloneAt
  <2> QED
    BY <2>1, GuestOrThunk
<1> QED
  BY <1>1, <1>2

LEMMA OverlapStays ==
  ASSUME TypeOK, [Next]_vars, ~overlap'
  PROVE  ~overlap
<1>1. CASE Refill
  BY <1>1 DEF Refill, TypeOK
<1>2. ASSUME NEW t \in Guests, Install(t) PROVE overlap' = overlap \/ NoteOverlap(t)
  BY <1>2 DEF Install, Dispatch, CheckInstalled, LoadSlot, Allocate, GiveUp, StoreOriginal,
     StoreThunk, StoreSlot
<1>3. ASSUME NEW t \in Guests, Resolve(t) PROVE overlap' = overlap \/ NoteOverlap(t)
  BY <1>3 DEF Resolve, Begin, Poll, Cancel, Call, EnsureReady, EnsureMissing, Initialize,
     InitializeFails, requests
<1>4. CASE UNCHANGED vars
  BY <1>4 DEF vars
<1> QED
  BY <1>1, <1>2, <1>3, <1>4 DEF Next, NoteOverlap, TypeOK

(* A step of the hook's threads that begin, resume or drop a request.      *)
LEMMA AloneResolve ==
  ASSUME TypeOK, OriginalInv, AloneInv, [Next]_vars, ~overlap', NEW t \in Guests, Resolve(t)
  PROVE  AloneInv'
<1> DEFINE Uses(u) == pc[u] \in {"ensure", "initialize"} \/ request[u] = "direct"
<1>1. ~overlap
  BY OverlapStays
<1>2. OneInstalls /\ Settled /\ (\A u \in Guests : AloneAt(u)) /\ ~astray
  BY <1>1 DEF AloneInv
<1>3. UNCHANGED <<table, original, thunk, generation, saved, fresh>>
  BY ResolveFrame
<1>4. /\ \A u \in Guests : u # t => pc'[u] = pc[u] /\ index'[u] = index[u]
      /\ pc[t] \in {"idle", "ensure", "initialize"} /\ pc'[t] \in {"idle", "ensure", "initialize"}
  BY ResolvePlaces
<1>5. (Guestly' <=> Guestly) /\ (Thunky' <=> Thunky)
  BY <1>3 DEF Guestly, Thunky
<1>6. OneInstalls' /\ Settled'
  <2>1. t \in Guests /\ pc[t] \notin Installing /\ pc'[t] \notin Installing
    BY <1>4 DEF Installing
  <2>2. OneInstalls'
    BY <1>2, <1>4, <2>1 DEF OneInstalls
  <2>3. Settled'
    BY <1>2, <1>4, <1>5 DEF Settled
  <2> QED
    BY <2>2, <2>3
<1>7. ASSUME \A u \in Guests : u # t => request'[u] = request[u],
             Uses(t)' => Thunky, ~astray'
      PROVE  AloneInv'
  <2>1. ASSUME NEW u \in Guests, u # t PROVE AloneAt(u)'
    BY <1>2, <1>3, <1>4, <1>5, <1>7, <2>1 DEF AloneAt
  <2>2. AloneAt(t)'
    BY <1>4, <1>5, <1>7 DEF AloneAt
  <2> QED
    BY <1>6, <1>7, <2>1, <2>2 DEF AloneInv
<1>8. Uses(t) => Thunky
  BY <1>2 DEF AloneAt
(* A call that starts while nobody installs finds the guest's table or the *)
(* thunks, and with them the originals.                                    *)
<1>9. ASSUME NoteOverlap(t), pc[t] = "idle"
      PROVE  /\ Guestly \/ Thunky
             /\ \A s \in Slots : table[s] = 0 \/ table[s] > 0 \/ (table[s] < 0 /\ original[s] > 0)
             /\ \A s \in Slots : table[s] < 0 => Thunky
             /\ \A s \in Slots : table[s] > 0 => ~Thunky
  <2>1. \A u \in Guests : pc[u] \notin Installing
    BY <1>9 DEF NoteOverlap, Intrudes, Installing, TypeOK
  <2>2. Guestly \/ Thunky
    BY <1>2, <2>1 DEF Settled, Installing
  <2>3. generation \in Int /\ generation >= 0
    BY BoundsAssumption DEF TypeOK
  <2>4. ASSUME NEW s \in Slots
        PROVE  /\ table[s] = 0 \/ table[s] > 0 \/ (table[s] < 0 /\ original[s] > 0)
               /\ table[s] < 0 => Thunky
               /\ table[s] > 0 => ~Thunky
    <3>1. table[s] \in Int /\ thunk[s] \in Int
      BY DEF TypeOK, Addresses
    <3>2. table[s] < 0 => original[s] # 0
      BY DEF OriginalInv, ThunkHasOriginal
    <3>3. CASE Guestly
      <4>1. table[s] \in {0, generation}
        BY <3>3 DEF Guestly
      <4>2. ~Thunky
        BY <3>3, GuestOrThunk
      <4> QED
        BY <2>3, <3>1, <4>1, <4>2
    <3>4. CASE Thunky
      <4>1. table[s] = thunk[s] /\ thunk[s] < 0 /\ original[s] = generation
        BY <3>4 DEF Thunky
      <4> QED
        BY <2>3, <3>1, <3>2, <3>4, <4>1
    <3> QED
      BY <2>2, <3>3, <3>4
  <2> QED
    BY <2>2, <2>4
<1>10. ASSUME NEW kind \in {"direct", "guest"}, Begin(t, kind) PROVE AloneInv'
  <2>1. "begin" \in Slots /\ pc[t] = "idle" /\ NoteOverlap(t) /\ table["begin"] # 0
    BY <1>10 DEF Begin, Slots
  <2>2. Answerer("begin", kind) # "nobody"
    BY <1>9, <1>10, <2>1 DEF Answerer
  <2>3. Answerer("begin", kind) = "direct" => Thunky
    BY <1>9, <2>1 DEF Answerer
  <2>4. /\ ~astray' /\ \A u \in Guests : u # t => request'[u] = request[u]
        /\ request'[t] # "direct"
        /\ pc'[t] = "idle" \/ Answerer("begin", kind) = "direct"
    BY <1>2, <1>10, <2>1, <2>2 DEF Begin, TypeOK
  <2> QED
    BY <1>7, <2>3, <2>4
<1>11. ASSUME NEW s \in Slots, Call(t, s) PROVE ~astray' /\ UNCHANGED <<pc, index>> /\ pc[t] = "idle"
  <2>1. /\ pc[t] = "idle" /\ NoteOverlap(t) /\ table[s] # 0 /\ request[t] \in {"direct", "guest"}
        /\ astray' = (astray \/ Answerer(s, request[t]) # request[t]) /\ UNCHANGED <<pc, index>>
    BY <1>11 DEF Call, local, TypeOK
  <2>2. request[t] = "direct" => Thunky
    BY <1>8
  <2>3. Answerer(s, request[t]) = request[t]
    BY <1>9, <2>1, <2>2 DEF Answerer
  <2> QED
    BY <1>2, <2>1, <2>3
<1>12. CASE Poll(t)
  <2>1. "poll" \in Slots /\ Call(t, "poll") /\ request' = request
    BY <1>12 DEF Poll, Slots
  <2> QED
    BY <1>7, <1>8, <1>11, <2>1
<1>13. CASE Cancel(t)
  <2>1. /\ "cancel" \in Slots /\ Call(t, "cancel") /\ request'[t] = "none"
        /\ \A u \in Guests : u # t => request'[u] = request[u]
    BY <1>13 DEF Cancel, Slots, TypeOK
  <2> QED
    BY <1>7, <1>8, <1>11, <2>1
<1>14. ASSUME pc[t] \in {"ensure", "initialize"}, NextPart(t), astray' = astray PROVE AloneInv'
  <2>1. \A u \in Guests : u # t => request'[u] = request[u]
    BY <1>14, NextPartStep DEF TypeOK
  <2> QED
    BY <1>2, <1>7, <1>8, <1>14, <2>1
<1>15. CASE EnsureReady(t)
  BY <1>14, <1>15 DEF EnsureReady
<1>16. CASE EnsureMissing(t)
  <2>1. UNCHANGED <<request, astray>> /\ pc[t] = "ensure"
    BY <1>16 DEF EnsureMissing, requests
  <2> QED
    BY <1>2, <1>7, <1>8, <2>1
<1>17. CASE Initialize(t)
  BY <1>14, <1>17 DEF Initialize
<1>18. CASE InitializeFails(t)
  <2>1. UNCHANGED <<request, astray>> /\ pc[t] = "initialize"
    BY <1>18 DEF InitializeFails, requests
  <2> QED
    BY <1>2, <1>7, <1>8, <2>1
<1> QED
  BY <1>10, <1>12, <1>13, <1>15, <1>16, <1>17, <1>18 DEF Resolve

(* A step of an installation.                                              *)
LEMMA AloneInstall ==
  ASSUME TypeOK, AloneInv, [Next]_vars, ~overlap', NEW t \in Guests, Install(t)
  PROVE  AloneInv'
<1>1. ~overlap
  BY OverlapStays
<1>2. OneInstalls /\ Settled /\ (\A u \in Guests : AloneAt(u)) /\ ~astray
  BY <1>1 DEF AloneInv
<1>3. UNCHANGED <<request, astray, generation>>
  BY InstallFrame
<1>4. /\ \A u \in Guests : u # t =>
            /\ pc'[u] = pc[u] /\ index'[u] = index[u]
            /\ saved'[u] = saved[u] /\ fresh'[u] = fresh[u]
      /\ pc[t] \in Installing \cup {"idle"} /\ pc'[t] \in Installing \cup {"idle"}
  BY InstallPlaces
<1>5. generation \in Int /\ generation >= 0
  BY BoundsAssumption DEF TypeOK
<1>6. CASE Dispatch(t)
  <2>1. /\ UNCHANGED <<table, original, thunk, saved, fresh>>
        /\ pc[t] = "idle" /\ pc'[t] = "check" /\ NoteOverlap(t)
    BY <1>6 DEF Dispatch, Goto, globals, TypeOK
  <2>2. \A u \in Guests : pc[u] \notin Installing
    BY <2>1 DEF NoteOverlap, Intrudes, Installing, TypeOK
  <2>3. OneInstalls'
    BY <1>4, <2>2 DEF OneInstalls
  <2>4. (Guestly' <=> Guestly) /\ (Thunky' <=> Thunky)
    BY <1>3, <2>1 DEF Guestly, Thunky
  <2>5. Settled'
    BY <1>2, <2>2, <2>4 DEF Settled, Installing
  <2>6. ASSUME NEW u \in Guests, u # t PROVE AloneAt(u)'
    BY <1>2, <1>3, <1>4, <2>1, <2>4, <2>6 DEF AloneAt
  <2>7. AloneAt(t)'
    BY <1>2, <1>3, <2>1, <2>4 DEF AloneAt
  <2> QED
    BY <1>2, <1>3, <2>3, <2>5, <2>6, <2>7 DEF AloneInv
<1>7. ASSUME pc[t] \in Installing PROVE OneInstalls' /\ \A u \in Guests : u # t => pc'[u] \notin Installing
  BY <1>2, <1>4, <1>7 DEF OneInstalls
<1>8. CASE CheckInstalled(t)
  <2>1. /\ UNCHANGED <<table, original, thunk, saved, fresh>> /\ pc[t] = "check"
        /\ \/ pc'[t] = "idle"
           \/ pc'[t] = "load" /\ index'[t] = 1 /\ ~(thunk["begin"] # 0 /\ table["begin"] = thunk["begin"])
    BY <1>8 DEF CheckInstalled, Goto, globals, TypeOK
  <2>2. (Guestly' <=> Guestly) /\ (Thunky' <=> Thunky)
    BY <1>3, <2>1 DEF Guestly, Thunky
  <2>3. Guestly \/ Thunky
    BY <1>2, <2>1 DEF Settled, OneInstalls, Installing
  <2>4. pc'[t] = "load" => Guestly
    <3>1. "begin" \in Slots
      BY DEF Slots
    <3>2. Thunky => thunk["begin"] # 0 /\ table["begin"] = thunk["begin"]
      BY <3>1 DEF Thunky
    <3> QED
      BY <2>1, <2>3, <3>2
  <2>5. ASSUME NEW u \in Guests, u # t PROVE AloneAt(u)'
    BY <1>2, <1>3, <1>4, <2>1, <2>2, <2>5 DEF AloneAt
  <2>6. AloneAt(t)'
    BY <1>2, <1>3, <2>1, <2>2, <2>4, SlotEnds DEF AloneAt
  <2>7. OneInstalls'
    BY <1>7, <2>1 DEF Installing
  <2> QED
    BY <1>2, <1>3, <2>2, <2>3, <2>5, <2>6, <2>7 DEF AloneInv, Settled
(* From the first load on, nobody uses the thunks.                         *)
<1>9. ASSUME pc[t] \in {"load", "alloc", "original", "thunk", "slot"},
             AloneAt(t)', Guestly' \/ Thunky' \/ pc'[t] = "slot"
      PROVE  AloneInv'
  <2>1. \A u \in Guests : pc[u] \notin {"ensure", "initialize"} /\ request[u] # "direct"
    BY <1>2, <1>9, NobodyInThunk
  <2>2. OneInstalls' /\ \A u \in Guests : u # t => pc'[u] \notin Installing
    BY <1>7, <1>9 DEF Installing
  <2>3. ASSUME NEW u \in Guests, u # t PROVE AloneAt(u)'
    <3>1. pc'[u] \notin Installing \cup {"ensure", "initialize"} /\ request'[u] # "direct"
      BY <1>3, <1>4, <2>1, <2>2, <2>3
    <3> QED
      BY <3>1 DEF AloneAt, Installing
  <2>4. Settled'
    BY <1>9 DEF Settled
  <2> QED
    BY <1>2, <1>3, <1>9, <2>2, <2>3, <2>4 DEF AloneInv
<1>10. ASSUME pc[t] \in {"load", "alloc", "original", "thunk", "slot"}
       PROVE  request'[t] # "direct" /\ pc'[t] \notin {"ensure", "initialize"}
  BY <1>2, <1>3, <1>4, <1>10, NobodyInThunk DEF Installing
<1>11. ASSUME UNCHANGED table PROVE Guestly' <=> Guestly
  BY <1>3, <1>11 DEF Guestly
<1>12. CASE LoadSlot(t)
  <2>1. /\ UNCHANGED <<table, original, thunk>> /\ pc[t] = "load" /\ NextSlot(t)
        /\ saved' = [saved EXCEPT ![t][Slot(t)] = table[Slot(t)]]
    BY <1>12 DEF LoadSlot, globals
  <2>2. Guestly /\ Guestly'
    BY <1>2, <1>11, <2>1 DEF AloneAt
  <2>3. Slot(t) \in Slots /\ index[t] \in 1..3
    BY <2>1, NextSlotStep DEF Stages
  <2>4. \A s \in Before(index[t]) \cup {Slot(t)} : saved'[t][s] = table[s]
    <3>1. Before(index[t]) \subseteq Slots
      BY <2>3, BeforeSlots
    <3>2. \A s \in Before(index[t]) : saved[t][s] = table[s]
      BY <1>2, <2>1 DEF AloneAt
    <3>3. saved \in [Guests -> [Slots -> Addresses]]
      BY DEF TypeOK
    <3>4. saved'[t] = [saved[t] EXCEPT ![Slot(t)] = table[Slot(t)]]
      BY <2>1, <3>3
    <3>5. saved[t] \in [Slots -> Addresses]
      BY <3>3
    <3> QED
      BY <2>3, <3>1, <3>2, <3>4, <3>5
  <2>5. \/ pc'[t] = "load" /\ \A s \in Before(index'[t]) : saved'[t][s] = table'[s]
        \/ pc'[t] = "alloc" /\ \A s \in Slots : saved'[t][s] = table'[s]
    <3>1. CASE pc' = pc /\ Before(index'[t]) = Before(index[t]) \cup {Slot(t)}
      BY <2>1, <2>4, <3>1
    <3>2. CASE pc' = [pc EXCEPT ![t] = After[pc[t]]] /\ Slots = Before(index[t]) \cup {Slot(t)}
      <4>1. pc'[t] = "alloc"
        BY <2>1, <3>2 DEF After, TypeOK
      <4> QED
        BY <2>1, <2>4, <3>2, <4>1
    <3> QED
      BY <2>1, <3>1, <3>2, NextSlotStep DEF Stages
  <2>6. AloneAt(t)'
    BY <1>10, <2>1, <2>2, <2>5 DEF AloneAt
  <2> QED
    BY <1>9, <2>1, <2>2, <2>6
<1>13. CASE GiveUp(t)
  <2>1. UNCHANGED table /\ pc[t] = "alloc" /\ pc'[t] = "idle"
    BY <1>13 DEF GiveUp, Goto, TypeOK
  <2>2. Guestly'
    BY <1>2, <1>11, <2>1 DEF AloneAt
  <2>3. AloneAt(t)'
    BY <1>10, <2>1 DEF AloneAt
  <2> QED
    BY <1>9, <2>1, <2>2, <2>3
<1>14. CASE Allocate(t)
  <2>1. /\ UNCHANGED <<table, original, thunk, saved>>
        /\ pc[t] = "alloc" /\ pc'[t] = "original" /\ index'[t] = 1
        /\ \A s \in Slots : saved[t][s] # 0
    BY <1>14 DEF Allocate, Goto, After, globals, TypeOK
  <2>2. \A s \in Slots : fresh'[t][s] < 0
    BY <1>14 DEF Allocate, TypeOK, Slots
  <2>3. Guestly /\ Guestly'
    BY <1>2, <1>11, <2>1 DEF AloneAt
  (* Each slot was full when it was loaded: nothing is installed otherwise. *)
  <2>4. \A s \in Slots : saved'[t][s] = generation' /\ table'[s] = generation'
    BY <1>2, <1>3, <2>1, <2>3 DEF AloneAt, Guestly
  <2>5. AloneAt(t)'
    BY <1>10, <2>1, <2>2, <2>3, <2>4, SlotEnds DEF AloneAt
  <2> QED
    BY <1>9, <2>1, <2>3, <2>5
<1>15. CASE StoreOriginal(t)
  <2>1. /\ UNCHANGED <<table, thunk, saved, fresh>> /\ pc[t] = "original" /\ NextSlot(t)
        /\ original' = [original EXCEPT ![Slot(t)] = saved[t][Slot(t)]]
    BY <1>15 DEF StoreOriginal
  <2>2. Guestly /\ Guestly'
    BY <1>2, <1>11, <2>1 DEF AloneAt
  <2>3. Slot(t) \in Slots /\ index[t] \in 1..3
    BY <2>1, NextSlotStep DEF Stages
  <2>4. \A s \in Slots : /\ saved'[t][s] = generation /\ fresh'[t][s] < 0
                         /\ table'[s] = generation
    BY <1>2, <2>1 DEF AloneAt
  <2>5. \A s \in Before(index[t]) \cup {Slot(t)} : original'[s] = generation
    <3>1. Before(index[t]) \subseteq Slots
      BY <2>3, BeforeSlots
    <3>2. \A s \in Before(index[t]) : original[s] = generation
      BY <1>2, <2>1 DEF AloneAt
    <3>3. original \in [Slots -> Addresses]
      BY DEF TypeOK
    <3> QED
      BY <2>1, <2>3, <2>4, <3>1, <3>2, <3>3
  <2>6. \/ pc'[t] = "original" /\ \A s \in Before(index'[t]) : original'[s] = generation
        \/ pc'[t] = "thunk" /\ index'[t] = 1 /\ \A s \in Slots : original'[s] = generation
    <3>1. CASE pc' = pc /\ Before(index'[t]) = Before(index[t]) \cup {Slot(t)}
      BY <2>1, <2>5, <3>1
    <3>2. CASE /\ pc' = [pc EXCEPT ![t] = After[pc[t]]] /\ index' = [index EXCEPT ![t] = 1]
               /\ Slots = Before(index[t]) \cup {Slot(t)}
      <4>1. pc'[t] = "thunk" /\ index'[t] = 1
        BY <2>1, <3>2 DEF After, TypeOK
      <4> QED
        BY <2>5, <3>2, <4>1
    <3> QED
      BY <2>1, <3>1, <3>2, NextSlotStep DEF Stages
  <2>7. AloneAt(t)'
    BY <1>3, <1>10, <2>1, <2>2, <2>4, <2>6, SlotEnds DEF AloneAt
  <2> QED
    BY <1>9, <2>1, <2>2, <2>7
<1>16. CASE StoreThunk(t)
  <2>1. /\ UNCHANGED <<table, original, saved, fresh>> /\ pc[t] = "thunk" /\ NextSlot(t)
        /\ thunk' = [thunk EXCEPT ![Slot(t)] = fresh[t][Slot(t)]]
    BY <1>16 DEF StoreThunk
  <2>2. Guestly /\ Guestly'
    BY <1>2, <1>11, <2>1 DEF AloneAt
  <2>3. Slot(t) \in Slots /\ index[t] \in 1..3
    BY <2>1, NextSlotStep DEF Stages
  <2>4. \A s \in Slots : /\ saved'[t][s] = generation /\ fresh'[t][s] < 0
                         /\ original'[s] = generation /\ table'[s] = generation
    BY <1>2, <2>1 DEF AloneAt
  <2>5. \A s \in Before(index[t]) \cup {Slot(t)} : thunk'[s] = fresh'[t][s]
    <3>1. Before(index[t]) \subseteq Slots
      BY <2>3, BeforeSlots
    <3>2. \A s \in Before(index[t]) : thunk[s] = fresh[t][s]
      BY <1>2, <2>1 DEF AloneAt
    <3>3. thunk \in [Slots -> Addresses]
      BY DEF TypeOK
    <3> QED
      BY <2>1, <2>3, <3>1, <3>2, <3>3
  <2>6. \/ pc'[t] = "thunk" /\ \A s \in Before(index'[t]) : thunk'[s] = fresh'[t][s]
        \/ pc'[t] = "slot" /\ index'[t] = 1 /\ \A s \in Slots : thunk'[s] = fresh'[t][s]
    <3>1. CASE pc' = pc /\ Before(index'[t]) = Before(index[t]) \cup {Slot(t)}
      BY <2>1, <2>5, <3>1
    <3>2. CASE /\ pc' = [pc EXCEPT ![t] = After[pc[t]]] /\ index' = [index EXCEPT ![t] = 1]
               /\ Slots = Before(index[t]) \cup {Slot(t)}
      <4>1. pc'[t] = "slot" /\ index'[t] = 1
        BY <2>1, <3>2 DEF After, TypeOK
      <4> QED
        BY <2>5, <3>2, <4>1
    <3> QED
      BY <2>1, <3>1, <3>2, NextSlotStep DEF Stages
  <2>7. AloneAt(t)'
    BY <1>3, <1>10, <2>1, <2>2, <2>4, <2>6, SlotEnds DEF AloneAt
  <2> QED
    BY <1>9, <2>1, <2>2, <2>7
<1>17. CASE StoreSlot(t)
  <2>1. /\ UNCHANGED <<original, thunk>> /\ pc[t] = "slot" /\ NextSlot(t)
        /\ table' = [table EXCEPT ![Slot(t)] = fresh[t][Slot(t)]]
        /\ pc'[t] # "idle" => UNCHANGED <<saved, fresh>>
    BY <1>17 DEF StoreSlot, globals
  <2>2. Slot(t) \in Slots /\ Slot(t) \notin Before(index[t]) /\ index[t] \in 1..3
    BY <2>1, NextSlotStep DEF Stages
  <2>3. \A s \in Slots : /\ saved[t][s] = generation /\ fresh[t][s] < 0
                         /\ original[s] = generation /\ thunk[s] = fresh[t][s]
                         /\ table[s] = IF s \in Before(index[t]) THEN fresh[t][s] ELSE generation
    BY <1>2, <2>1 DEF AloneAt
  <2>4. \A s \in Slots : table'[s] = IF s \in Before(index[t]) \cup {Slot(t)}
                                     THEN fresh[t][s] ELSE generation
    <3>1. table \in [Slots -> Addresses]
      BY DEF TypeOK
    <3> QED
      BY <2>1, <2>2, <2>3, <3>1
  <2>5. CASE pc' = pc /\ Before(index'[t]) = Before(index[t]) \cup {Slot(t)}
    <3>1. pc'[t] = "slot" /\ UNCHANGED <<saved, fresh>>
      BY <2>1, <2>5
    <3>2. AloneAt(t)'
      BY <1>3, <1>10, <2>1, <2>3, <2>4, <2>5, <3>1 DEF AloneAt
    <3> QED
      BY <1>9, <2>1, <3>1, <3>2
  <2>6. CASE pc' = [pc EXCEPT ![t] = After[pc[t]]] /\ Slots = Before(index[t]) \cup {Slot(t)}
    <3>1. pc'[t] = "idle"
      BY <2>1, <2>6 DEF After, TypeOK
    <3>2. Thunky'
      BY <1>3, <2>1, <2>3, <2>4, <2>6 DEF Thunky
    <3>3. AloneAt(t)'
      BY <1>10, <2>1, <3>1 DEF AloneAt
    <3> QED
      BY <1>9, <2>1, <3>2, <3>3
  <2> QED
    BY <2>1, <2>5, <2>6, NextSlotStep DEF Stages
<1> QED
  BY <1>6, <1>8, <1>12, <1>13, <1>14, <1>15, <1>16, <1>17 DEF Install

LEMMA AloneStep ==
  ASSUME TypeOK, OriginalInv, AloneInv, [Next]_vars
  PROVE  AloneInv'
<1> SUFFICES ASSUME ~overlap' PROVE AloneInv'
  BY DEF AloneInv
<1>1. CASE Refill
  <2>1. /\ \A u \in Guests : pc'[u] = "idle" /\ request'[u] = "none"
        /\ astray' = astray /\ ~overlap
    BY <1>1 DEF Refill, TypeOK, local
  <2>2. Guestly'
    BY <1>1 DEF Refill, Guestly
  <2>3. OneInstalls' /\ (\A u \in Guests : AloneAt(u)')
    BY <2>1 DEF OneInstalls, AloneAt, Installing
  <2> QED
    BY <2>1, <2>2, <2>3 DEF AloneInv, Settled
<1>2. CASE UNCHANGED vars
  BY <1>2 DEF vars, globals, local, requests, counters, AloneInv, OneInstalls, Settled, AloneAt,
     Guestly, Thunky
<1> QED
  BY <1>1, <1>2, AloneInstall, AloneResolve DEF Next

-----------------------------------------------------------------------------

(* The invariant: types, what is saved, what is ready, and how far a lone  *)
(* installation is.                                                        *)
THEOREM Invariance == Spec => []IInv
<1>1. IInv /\ [Next]_vars => IInv'
  BY TypeStep, OriginalStep, AcceptedStep, AloneStep DEF IInv
<1> QED
  BY InitIInv, <1>1, PTL DEF Spec

(* The resolver's variables keep their types, and every thread is at a     *)
(* slot or a part of PolCore that exists.                                  *)
THEOREM TypeCorrect == Spec => []TypeOK
BY Invariance, PTL DEF IInv

(* Whatever overlaps, a thunk in the table has something saved to hand     *)
(* other hosts on to: the originals are stored before the slots.           *)
THEOREM ThunksHaveOriginals == Spec => []ThunkHasOriginal
<1>1. IInv => ThunkHasOriginal
  BY DEF IInv, OriginalInv
<1> QED
  BY <1>1, Invariance, PTL

(* The synthetic handle is given out only when PolCore's state is all up,  *)
(* for any number of threads in EnsureDirectPolNetworkState at once.       *)
THEOREM AcceptedReady == Spec => []AcceptedMeansReady
<1>1. IInv => AcceptedMeansReady
  BY DEF IInv, AcceptedInv, AcceptedMeansReady
<1> QED
  BY <1>1, Invariance, PTL

(* Installations that do not overlap save the resolver of the very table   *)
(* they put their thunks in, through any number of tables and dispatches.  *)
THEOREM OriginalsCurrent == Spec => []OriginalsAreCurrent
<1>1. IInv => OriginalsAreCurrent
  <2> SUFFICES ASSUME IInv, ~overlap, NEW s \in Slots, table[s] < 0 PROVE original[s] = generation
    BY DEF OriginalsAreCurrent
  <2>1. CASE Guestly
    <3>1. table[s] \in {0, generation}
      BY <2>1 DEF Guestly
    <3> QED
      BY <3>1, BoundsAssumption DEF IInv, TypeOK
  <2>2. CASE Thunky
    BY <2>2 DEF Thunky
  <2>3. ASSUME NEW t \in Guests, pc[t] = "slot" PROVE original[s] = generation
    BY <2>3 DEF IInv, AloneInv, AloneAt
  <2> QED
    BY <2>1, <2>2, <2>3 DEF IInv, AloneInv, Settled
<1> QED
  BY <1>1, Invariance, PTL

(* Without overlap, a handle's polls and its cancel reach the resolver     *)
(* that gave it out, and the other hosts' requests the guest's own.        *)
THEOREM RequestsHome == Spec => []RequestsStayHome
<1>1. IInv => RequestsStayHome
  BY DEF IInv, AloneInv, RequestsStayHome
<1> QED
  BY <1>1, Invariance, PTL

=============================================================================
