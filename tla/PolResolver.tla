---------------------------- MODULE PolResolver -----------------------------
(***************************************************************************)
(* The direct-mode name resolver (runtime/revana_hooks.cpp).  The guest    *)
(* calls PolCore's resolver through three slots of a service table.  A     *)
(* hook at one of its dispatches, InstallDirectPolResolver, saves what is  *)
(* in the slots and puts three thunks there.  The thunks answer requests   *)
(* for the retail lobby host and hand the others to what was saved;        *)
(* EnsureDirectPolNetworkState first brings PolCore's own state up.        *)
(*                                                                         *)
(* Nothing here has a lock: slots, saved originals and thunk addresses are *)
(* loaded and stored one by one, so every load and store is a step.  The   *)
(* steps are sequentially consistent.                                      *)
(***************************************************************************)
EXTENDS Integers

CONSTANTS Guests,         \* guest threads
          MaxGenerations, \* bound: times the guest fills its table
          MaxDispatches   \* bound: calls of the dispatch hook

ASSUME BoundsAssumption == MaxGenerations \in Nat \ {0} /\ MaxDispatches \in Nat

Order == <<"begin", "poll", "cancel">>
Slots == {"begin", "poll", "cancel"}

(* A code address: 0 is none, n > 0 the resolver of the guest's n-th table *)
(* and n < 0 the thunk allocated as number -n.                             *)
Addresses == Int

(* What EnsureDirectPolNetworkState looks at, in its order.                *)
PolOrder == <<"service", "session", "plaintext", "network">>
PolState == {"service", "session", "plaintext", "network"}

VARIABLES table,      \* the three slots
          original,   \* g_direct_pol_resolver_*_original
          thunk,      \* g_direct_pol_resolver_*_thunk
          pol,        \* PolCore's state: which parts are ready
          generation, \* tables the guest has filled
          dispatches, \* calls of the hook
          allocated,  \* thunks allocated
          pc,         \* where each guest thread is
          index,      \* which slot or part of PolCore it is at
          saved,      \* the originals it has loaded
          fresh,      \* the thunks it has allocated
          request,    \* the request each thread has: whose handle
          polled,     \* it has been polled
          overlap,    \* history: an installation was not alone
          astray      \* history: a call reached the wrong resolver

globals == <<original, thunk>>
local == <<pc, index, saved, fresh>>
requests == <<request, polled, astray>>
counters == <<generation, dispatches, allocated>>
vars == <<table, globals, pol, counters, local, requests, overlap>>

Installing == {"check", "load", "alloc", "original", "thunk", "slot"}

(* A thread other than t is in the middle of an installation.              *)
Intrudes(t) == \E u \in Guests \ {t} : pc[u] \in Installing

NoteOverlap(t) == overlap' = (overlap \/ Intrudes(t))

Init ==
    /\ table = [s \in Slots |-> 0]
    /\ original = [s \in Slots |-> 0]
    /\ thunk = [s \in Slots |-> 0]
    /\ pol \in [PolState -> BOOLEAN]
    /\ generation = 0
    /\ dispatches = 0
    /\ allocated = 0
    /\ pc = [t \in Guests |-> "idle"]
    /\ index = [t \in Guests |-> 1]
    /\ saved = [t \in Guests |-> [s \in Slots |-> 0]]
    /\ fresh = [t \in Guests |-> [s \in Slots |-> 0]]
    /\ request = [t \in Guests |-> "none"]
    /\ polled = [t \in Guests |-> FALSE]
    /\ overlap = FALSE
    /\ astray = FALSE

-----------------------------------------------------------------------------
(* The guest fills its table, perhaps leaving slots empty; that ends the   *)
(* requests made through the last one.                                     *)

Refill ==
    /\ generation < MaxGenerations
    /\ generation' = generation + 1
    /\ \E filled \in {Slots, {"begin", "cancel"}} :
        table' = [s \in Slots |-> IF s \in filled THEN generation' ELSE 0]
    /\ request' = [t \in Guests |-> "none"]
    /\ polled' = [t \in Guests |-> FALSE]
    /\ overlap' = (overlap \/ \E t \in Guests : pc[t] # "idle")
    /\ UNCHANGED <<globals, pol, dispatches, allocated, local, astray>>

-----------------------------------------------------------------------------
(* InstallDirectPolResolver, called by the hook at the dispatch of +1852.  *)

Goto(t, next) == pc' = [pc EXCEPT ![t] = next] /\ index' = [index EXCEPT ![t] = 1]

(* Altered: the slots are stored before the originals.                     *)
AfterSlotsFirst == [load |-> "alloc", alloc |-> "slot", slot |-> "original",
                    original |-> "thunk", thunk |-> "idle"]

(* The stages of an installation.                                          *)
After == [load |-> "alloc", alloc |-> "original", original |-> "thunk",
          thunk |-> "slot", slot |-> "idle"]

(* A stage that takes the slots one by one.                                *)
Slot(t) == Order[index[t]]

(* The locals of InstallDirectPolResolver end with it.                     *)
Forget(t) ==
    /\ saved' = [saved EXCEPT ![t] = [s \in Slots |-> 0]]
    /\ fresh' = [fresh EXCEPT ![t] = [s \in Slots |-> 0]]

NextSlot(t) ==
    IF index[t] < 3 THEN index' = [index EXCEPT ![t] = @ + 1] /\ UNCHANGED pc
    ELSE Goto(t, After[pc[t]])

Dispatch(t) ==
    /\ pc[t] = "idle"
    /\ dispatches < MaxDispatches
    /\ dispatches' = dispatches + 1
    /\ Goto(t, "check")
    /\ NoteOverlap(t)
    /\ UNCHANGED <<table, globals, pol, generation, allocated, saved, fresh, requests>>

(* Altered: the thunks are installed again whatever is there.              *)
CheckInstalledSkipped(t) ==
    /\ pc[t] = "check"
    /\ Goto(t, "load")
    /\ UNCHANGED <<table, globals, pol, counters, saved, fresh, requests, overlap>>

CheckInstalled(t) ==
    /\ pc[t] = "check"
    /\ IF thunk["begin"] # 0 /\ table["begin"] = thunk["begin"]
       THEN Goto(t, "idle") ELSE Goto(t, "load")
    /\ UNCHANGED <<table, globals, pol, counters, saved, fresh, requests, overlap>>

LoadSlot(t) ==
    /\ pc[t] = "load"
    /\ saved' = [saved EXCEPT ![t][Slot(t)] = table[Slot(t)]]
    /\ NextSlot(t)
    /\ UNCHANGED <<table, globals, pol, counters, fresh, requests, overlap>>

(* Incomplete slots, or an allocation that fails: nothing is installed.    *)
GiveUp(t) ==
    /\ pc[t] = "alloc"
    /\ Goto(t, "idle")
    /\ Forget(t)
    /\ UNCHANGED <<table, globals, pol, counters, requests, overlap>>

Allocate(t) ==
    /\ pc[t] = "alloc"
    /\ \A s \in Slots : saved[t][s] # 0
    /\ fresh' = [fresh EXCEPT ![t] = [s \in Slots |->
           CASE s = "begin" -> -(allocated + 1)
             [] s = "poll" -> -(allocated + 2)
             [] s = "cancel" -> -(allocated + 3)]]
    /\ allocated' = allocated + 3
    /\ Goto(t, After["alloc"])
    /\ UNCHANGED <<table, globals, pol, generation, dispatches, saved, requests, overlap>>

StoreOriginal(t) ==
    /\ pc[t] = "original"
    /\ original' = [original EXCEPT ![Slot(t)] = saved[t][Slot(t)]]
    /\ NextSlot(t)
    /\ UNCHANGED <<table, thunk, pol, counters, saved, fresh, requests, overlap>>

StoreThunk(t) ==
    /\ pc[t] = "thunk"
    /\ thunk' = [thunk EXCEPT ![Slot(t)] = fresh[t][Slot(t)]]
    /\ NextSlot(t)
    /\ UNCHANGED <<table, original, pol, counters, saved, fresh, requests, overlap>>

StoreSlot(t) ==
    /\ pc[t] = "slot"
    /\ table' = [table EXCEPT ![Slot(t)] = fresh[t][Slot(t)]]
    /\ NextSlot(t)
    /\ IF pc'[t] = "idle" THEN Forget(t) ELSE UNCHANGED <<saved, fresh>>
    /\ UNCHANGED <<globals, pol, counters, requests, overlap>>

Install(t) ==
    \/ Dispatch(t) \/ CheckInstalled(t) \/ LoadSlot(t) \/ Allocate(t) \/ GiveUp(t)
    \/ StoreOriginal(t) \/ StoreThunk(t) \/ StoreSlot(t)

-----------------------------------------------------------------------------
(* A call through a slot by a thread that has a request of the given kind: *)
(* who answers it.  A saved original that is one of the thunks would call  *)
(* itself without end; one that is 0 is reported as unavailable.           *)

(* Altered: the thunks of poll and cancel hand every handle on.            *)
AnswererOfTable(s, kind) ==
    IF table[s] > 0 \/ (s # "begin" /\ original[s] > 0) THEN "guest"
    ELSE IF kind = "direct" THEN "direct" ELSE "nobody"

Answerer(s, kind) ==
    IF table[s] > 0 THEN "guest"
    ELSE IF kind = "direct" THEN "direct"
    ELSE IF original[s] > 0 THEN "guest" ELSE "nobody"

(* RevanaDirectPolResolverBegin, for the lobby host (direct) or another;   *)
(* as long as the slots are the guest's own it serves both.                *)
Begin(t, kind) ==
    /\ pc[t] = "idle" /\ request[t] = "none" /\ table["begin"] # 0
    /\ NoteOverlap(t)
    /\ LET who == Answerer("begin", kind) IN
        /\ astray' = (astray \/ who = "nobody")
        /\ request' = [request EXCEPT ![t] = IF who = "guest" THEN "guest" ELSE "none"]
        /\ IF who = "direct" THEN Goto(t, "ensure") ELSE UNCHANGED <<pc, index>>
    /\ UNCHANGED <<table, globals, pol, counters, saved, fresh, polled>>

Call(t, s) ==
    /\ pc[t] = "idle" /\ request[t] # "none" /\ table[s] # 0
    /\ NoteOverlap(t)
    /\ astray' = (astray \/ Answerer(s, request[t]) # request[t])
    /\ UNCHANGED <<table, globals, pol, counters, local>>

Poll(t) ==
    /\ Call(t, "poll")
    /\ ~polled[t]
    /\ polled' = [polled EXCEPT ![t] = TRUE]
    /\ UNCHANGED request

Cancel(t) ==
    /\ Call(t, "cancel")
    /\ request' = [request EXCEPT ![t] = "none"]
    /\ polled' = [polled EXCEPT ![t] = FALSE]

-----------------------------------------------------------------------------
(* EnsureDirectPolNetworkState, with the handle at its end.                *)

Part(t) == PolOrder[index[t]]

NextPart(t) ==
    IF index[t] < 4
    THEN pc' = [pc EXCEPT ![t] = "ensure"] /\ index' = [index EXCEPT ![t] = @ + 1] /\ UNCHANGED request
    ELSE Goto(t, "idle") /\ request' = [request EXCEPT ![t] = "direct"]

EnsureReady(t) ==
    /\ pc[t] = "ensure" /\ pol[Part(t)]
    /\ NextPart(t)
    /\ UNCHANGED <<table, globals, pol, counters, saved, fresh, polled, astray, overlap>>

EnsureMissing(t) ==
    /\ pc[t] = "ensure" /\ ~pol[Part(t)]
    /\ pc' = [pc EXCEPT ![t] = "initialize"]
    /\ UNCHANGED <<table, globals, pol, counters, index, saved, fresh, requests, overlap>>

Initialize(t) ==
    /\ pc[t] = "initialize"
    /\ pol' = [pol EXCEPT ![Part(t)] = TRUE]
    /\ NextPart(t)
    /\ UNCHANGED <<table, globals, counters, saved, fresh, polled, astray, overlap>>

(* Altered: a failed initializer is only reported.                         *)
InitializeFailsOn(t) ==
    /\ pc[t] = "initialize" /\ Part(t) # "plaintext"
    /\ NextPart(t)
    /\ UNCHANGED <<table, globals, pol, counters, saved, fresh, polled, astray, overlap>>

(* The request is refused.  The service initializer can report a failure   *)
(* and leave the service ready all the same.                               *)
InitializeFails(t) ==
    /\ pc[t] = "initialize" /\ Part(t) # "plaintext"
    /\ \E ready \in BOOLEAN :
        /\ ready => Part(t) = "service"
        /\ pol' = [pol EXCEPT ![Part(t)] = @ \/ ready]
    /\ Goto(t, "idle")
    /\ UNCHANGED <<table, globals, counters, saved, fresh, requests, overlap>>

Resolve(t) ==
    \/ \E kind \in {"direct", "guest"} : Begin(t, kind)
    \/ Poll(t) \/ Cancel(t)
    \/ EnsureReady(t) \/ EnsureMissing(t) \/ Initialize(t) \/ InitializeFails(t)

Next == Refill \/ \E t \in Guests : Install(t) \/ Resolve(t)

Spec == Init /\ [][Next]_vars

-----------------------------------------------------------------------------
(* Properties.                                                             *)

(* Every variable has its type; a thread is at a slot, or a part of        *)
(* PolCore, that exists.                                                   *)
TypeOK ==
    /\ table \in [Slots -> Addresses]
    /\ original \in [Slots -> Addresses]
    /\ thunk \in [Slots -> Addresses]
    /\ pol \in [PolState -> BOOLEAN]
    /\ generation \in 0..MaxGenerations
    /\ dispatches \in 0..MaxDispatches
    /\ allocated \in Nat
    /\ pc \in [Guests -> Installing \cup {"idle", "ensure", "initialize"}]
    /\ index \in [Guests -> 1..4]
    /\ \A t \in Guests : index[t] = 4 => pc[t] \in {"ensure", "initialize"}
    /\ saved \in [Guests -> [Slots -> Addresses]]
    /\ fresh \in [Guests -> [Slots -> Addresses]]
    /\ request \in [Guests -> {"none", "direct", "guest"}]
    /\ polled \in [Guests -> BOOLEAN]
    /\ overlap \in BOOLEAN
    /\ astray \in BOOLEAN

(* Where installations do not overlap, the resolver saved for a thunk in   *)
(* the table is the guest's own of that very table: never a thunk, which   *)
(* would call itself, nor the one of a table the guest has replaced,       *)
(* however often the hook runs, an installation gives up half-way or the   *)
(* guest fills its table again (InstallDirectPolResolver).                 *)
OriginalsAreCurrent ==
    ~overlap => \A s \in Slots : table[s] < 0 => original[s] = generation

(* Whatever overlaps, a thunk that can be called has something saved to    *)
(* hand other hosts on to: the originals are stored before the slots.      *)
ThunkHasOriginal == \A s \in Slots : table[s] < 0 => original[s] # 0

(* Where installations do not overlap with other calls, the resolver that  *)
(* gave out a handle gets its polls and its cancel, and the other hosts'   *)
(* requests reach the guest's resolver.                                    *)
RequestsStayHome == ~overlap => ~astray

(* The synthetic handle is given out only when all of PolCore's state is   *)
(* up, through failures of its initializers, retries and two threads that  *)
(* begin at once (EnsureDirectPolNetworkState).                            *)
AcceptedMeansReady ==
    (\E t \in Guests : request[t] = "direct") => \A p \in PolState : pol[p]

=============================================================================
