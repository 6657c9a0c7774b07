----------------------------- MODULE LobbyBridge ----------------------------
(***************************************************************************)
(* The life of the lobby bridge (app.h, runtime/lobby_bridge.cpp): the     *)
(* application configures it before set-up, the guest runs with its hooks, *)
(* the application stops it and destroys it.                               *)
(*                                                                         *)
(* Configure enables process-wide state of the hooks one after the other,  *)
(* and each step may fail.  State is shared: the bridge, the network hooks *)
(* it gave to the runtime and the coordinator thread each own it, and its  *)
(* destructor disables the map key and the map endpoint while guest        *)
(* threads may be loading that endpoint.  The state trace is a thread      *)
(* that polls guest memory with no lock.                                   *)
(*                                                                         *)
(* g_guest_trace_hooks_enabled is left out: it only turns logging on, and  *)
(* what enabling it resets is still unset when OnPreSetup does so.         *)
(*                                                                         *)
(* The order in which the SDK ends the runtime and destroys the            *)
(* application is not in this repository: both are modelled.               *)
(***************************************************************************)
EXTENDS Naturals

CONSTANTS Guests,     \* guest threads that send to the world server
          Hosts,      \* what REVANA_LOBBY_HOST may hold
          DataPorts,  \* what REVANA_LOBBY_DATA_PORT may hold
          Values,     \* values of a word of the lobby controller
          MaxChanges, \* kMaximumChanges, 128 in the code
          None        \* no value

ASSUME BridgeAssumption ==
    /\ MaxChanges \in Nat
    /\ None \notin Nat
    /\ Hosts \subseteq Nat \cup {None}
    /\ DataPorts \subseteq Nat \cup {None}

LoginDataPort == 54230 \* kLoginDataPort
MaxPort == 65535       \* UINT16_MAX
Ports == 1..MaxPort

(* ParsePort: no variable gives the fallback, a number out of range or     *)
(* text gives nothing (0 here).                                            *)
ParsePort(text, fallback) ==
    IF text = None THEN fallback ELSE IF text \in Ports THEN text ELSE 0

(* RevanaConfigureDirectMapEndpoint refuses what marks a missing endpoint. *)
EndpointAccepts(ipv4, port) == ipv4 # 0 /\ port \notin {0, MaxPort}

NoEndpoint == [enabled |-> FALSE, ipv4 |-> 0, port |-> 0]

VARIABLES main,       \* where the application's thread is
          given,      \* the parsed host and data port, zeros if there are none
          wanted,     \* state_trace_enabled_
          owners,     \* who holds State: "bridge", "hooks", "coordinator"
          dying,      \* how far State's destructor is
          keyed,      \* g_direct_map_cipher_key_enabled
          endpoint,   \* g_direct_map_endpoint_enabled, _ipv4, _port
          armed,      \* g_direct_view_bootstrap_enabled
          network,    \* guest_network_enabled; the resolver's flag goes with it
          runtime,    \* the runtime may run guest code
          send,       \* per guest thread: where it is in the send hook, the port it loaded
          restored,   \* per guest thread: the endpoint it last wrote
          controller, \* g_lobby_controller_object and _ready, and how far the guest's entry is
          words,      \* two of the words of the guest's lobby controller
          tracer,     \* where the state trace's thread is
          sample,     \* the first word it has read, and whether it knows the object
          previous,   \* what it reported last
          changes,    \* reports so far
          stop        \* its stop token

bridgeVars == <<given, wanted, owners, dying>>
hookVars == <<keyed, endpoint, armed, network>>
guestVars == <<send, restored>>
controllerVars == <<controller, words>>
traceVars == <<tracer, sample, previous, changes, stop>>
vars == <<main, bridgeVars, hookVars, runtime, guestVars, controllerVars, traceVars>>

Words == [{1, 2} -> Values]

TypeOK ==
    /\ main \in {"presetup", "environment", "authenticate", "generate", "mapkey", "endpoint",
                 "bootstrap", "hooks", "failed", "refused", "accepted", "load", "running",
                 "joining", "shutdown", "gone"}
    /\ given \in [ipv4 : Nat, port : 0..MaxPort]
    /\ wanted \in BOOLEAN
    /\ owners \subseteq {"bridge", "hooks", "coordinator"}
    /\ dying \in {"no", "key", "flag", "ipv4", "port", "done"}
    /\ keyed \in BOOLEAN
    /\ endpoint \in [enabled : BOOLEAN, ipv4 : Nat, port : 0..MaxPort]
    /\ armed \in BOOLEAN
    /\ network \in BOOLEAN
    /\ runtime \in {"none", "running", "ended"}
    /\ send \in [Guests -> [pc : {"idle", "port", "ipv4"}, port : 0..MaxPort]]
    /\ restored \in [Guests -> [ipv4 : Nat, port : 0..MaxPort] \cup {None}]
    /\ controller \in [object : BOOLEAN, ready : BOOLEAN, entry : {"no", "module", "object", "done"}]
    /\ words \in Words
    /\ tracer \in {"idle", "module", "ready", "object", "poll", "compare", "ended"}
    /\ sample \in [object : BOOLEAN, first : Values]
    /\ previous \in Words \cup {None}
    /\ changes \in 0..MaxChanges
    /\ stop \in BOOLEAN

Init ==
    /\ main = "presetup"
    /\ given = [ipv4 |-> 0, port |-> 0]
    /\ wanted = FALSE
    /\ owners = {}
    /\ dying = "no"
    /\ keyed = FALSE
    /\ endpoint = NoEndpoint
    /\ armed = FALSE
    /\ network = FALSE
    /\ runtime = "none"
    /\ send = [g \in Guests |-> [pc |-> "idle", port |-> 0]]
    /\ restored = [g \in Guests |-> None]
    /\ controller = [object |-> FALSE, ready |-> FALSE, entry |-> "no"]
    /\ words \in Words
    /\ tracer = "idle"
    /\ sample \in [object : {FALSE}, first : Values]
    /\ previous = None
    /\ changes = 0
    /\ stop = FALSE

-----------------------------------------------------------------------------
(* Owning State.                                                           *)

(* x gives up its share; the last one runs the destructor.                 *)
Release(x) ==
    /\ owners' = owners \ {x}
    /\ dying' = IF owners = {x} THEN "key" ELSE dying

(* ~State: RevanaClearDirectMapCipherKey, then the three stores of         *)
(* RevanaClearDirectMapEndpoint.                                           *)
DestroyKey ==
    /\ dying = "key"
    /\ dying' = "flag"
    /\ keyed' = FALSE
    /\ UNCHANGED endpoint

DestroyFlag ==
    /\ dying = "flag"
    /\ dying' = "ipv4"
    /\ endpoint' = [endpoint EXCEPT !.enabled = FALSE]
    /\ UNCHANGED keyed

DestroyIpv4 ==
    /\ dying = "ipv4"
    /\ dying' = "port"
    /\ endpoint' = [endpoint EXCEPT !.ipv4 = 0]
    /\ UNCHANGED keyed

DestroyPort ==
    /\ dying = "port"
    /\ dying' = "done"
    /\ endpoint' = [endpoint EXCEPT !.port = 0]
    /\ UNCHANGED keyed

DestroyState ==
    /\ (DestroyKey \/ DestroyFlag \/ DestroyIpv4 \/ DestroyPort)
    /\ UNCHANGED <<main, given, wanted, owners, armed, network, runtime, guestVars,
                   controllerVars, traceVars>>

(* The application's thread is not inside the destructor.                  *)
MainFree == dying \in {"no", "done"}

-----------------------------------------------------------------------------
(* RevanaApp::OnPreSetup and RevanaLobbyBridge::Configure.                 *)

MainAt(from, to) ==
    /\ main = from /\ MainFree
    /\ main' = to

OutsideConfigure == UNCHANGED <<runtime, guestVars, controllerVars, traceVars>>

PreSetup ==
    /\ MainAt("presetup", "environment")
    /\ network' = FALSE
    /\ UNCHANGED <<bridgeVars, keyed, endpoint, armed>>
    /\ OutsideConfigure

(* None of host, user and password is set: the state trace's flag is not   *)
(* even read.                                                              *)
NothingConfigured ==
    /\ MainAt("environment", "refused")
    /\ UNCHANGED <<bridgeVars, hookVars>>
    /\ OutsideConfigure

(* Some of them is missing, or the other ports, the pin or the version is  *)
(* not well formed.                                                        *)
ConfigurationIncomplete ==
    /\ MainAt("environment", "refused")
    /\ \E trace \in BOOLEAN : wanted' = trace
    /\ UNCHANGED <<given, owners, dying, hookVars>>
    /\ OutsideConfigure

ReadConfiguration ==
    \E host \in Hosts, text \in DataPorts, trace \in BOOLEAN :
        LET port == ParsePort(text, LoginDataPort)
            valid == port # 0 /\ host # None
        IN /\ MainAt("environment", IF valid THEN "authenticate" ELSE "refused")
           /\ wanted' = trace
           /\ given' = IF valid THEN [ipv4 |-> host, port |-> port] ELSE given
           /\ UNCHANGED <<owners, dying, hookVars>>
           /\ OutsideConfigure

(* Authenticate: its session goes into a new State.                        *)
Authenticated ==
    /\ MainAt("authenticate", "generate")
    /\ owners' = {"bridge"}
    /\ UNCHANGED <<given, wanted, dying, hookVars>>
    /\ OutsideConfigure

AuthenticationFails ==
    /\ MainAt("authenticate", "refused")
    /\ UNCHANGED <<bridgeVars, hookVars>>
    /\ OutsideConfigure

GenerateMapSessionKey ==
    /\ MainAt("generate", "mapkey")
    /\ UNCHANGED <<bridgeVars, hookVars>>
    /\ OutsideConfigure

(* RevanaConfigureDirectMapSessionKey.                                     *)
ConfigureMapKey ==
    /\ MainAt("mapkey", "endpoint")
    /\ keyed' = TRUE
    /\ UNCHANGED <<bridgeVars, endpoint, armed, network>>
    /\ OutsideConfigure

(* RevanaConfigureDirectMapEndpoint, before any guest thread runs.         *)
ConfigureEndpoint ==
    /\ MainAt("endpoint", "bootstrap")
    /\ EndpointAccepts(given.ipv4, given.port)
    /\ endpoint' = [enabled |-> TRUE, ipv4 |-> given.ipv4, port |-> given.port]
    /\ UNCHANGED <<bridgeVars, keyed, armed, network>>
    /\ OutsideConfigure

(* Altered: the session is kept, as it is when the bootstrap is refused.   *)
ConfigureFailsKeepingState ==
    /\ \/ main \in {"generate", "mapkey"}
       \/ main = "endpoint" /\ ~EndpointAccepts(given.ipv4, given.port)
    /\ MainAt(main, "failed")
    /\ UNCHANGED <<bridgeVars, hookVars>>
    /\ OutsideConfigure

(* One of the three fails: state_.reset() and out.                         *)
ConfigureFails ==
    /\ \/ main \in {"generate", "mapkey"}
       \/ main = "endpoint" /\ ~EndpointAccepts(given.ipv4, given.port)
    /\ MainAt(main, "failed")
    /\ Release("bridge")
    /\ UNCHANGED <<given, wanted, hookVars>>
    /\ OutsideConfigure

(* RevanaConfigureDirectLobbyViewBootstrap: the port is not 0 and the size *)
(* is the right one, so this does not fail.                                *)
ConfigureBootstrap ==
    /\ MainAt("bootstrap", "hooks")
    /\ armed' = TRUE
    /\ UNCHANGED <<bridgeVars, keyed, endpoint, network>>
    /\ OutsideConfigure

(* Altered: the callbacks capture a plain pointer.                         *)
HookSharesNone == {}

(* Who owns State through the network hooks: each of the four callbacks    *)
(* captured a copy of the pointer.                                         *)
HookShares == {"hooks"}

InstallHooks ==
    /\ MainAt("hooks", "accepted")
    /\ owners' = owners \cup HookShares
    /\ UNCHANGED <<given, wanted, dying, hookVars>>
    /\ OutsideConfigure

(* Back in OnPreSetup: the resolver and the guest's network are enabled.   *)
PreSetupEnds ==
    /\ \/ MainAt("accepted", "load") /\ network' = TRUE
       \/ MainAt("failed", "load") /\ UNCHANGED network
       \/ MainAt("refused", "load") /\ UNCHANGED network
    /\ UNCHANGED <<bridgeVars, keyed, endpoint, armed>>
    /\ OutsideConfigure

Configure ==
    \/ PreSetup \/ NothingConfigured \/ ConfigurationIncomplete \/ ReadConfiguration
    \/ Authenticated \/ AuthenticationFails \/ GenerateMapSessionKey \/ ConfigureMapKey
    \/ ConfigureEndpoint \/ ConfigureFails \/ ConfigureBootstrap \/ InstallHooks
    \/ PreSetupEnds

-----------------------------------------------------------------------------
(* The running application and its end.                                    *)

(* OnPostLoadXexImage, StartStateTrace; the guest's threads start.         *)
PostLoad ==
    /\ MainAt("load", "running")
    /\ runtime' = "running"
    /\ tracer' = IF wanted THEN "module" ELSE tracer
    /\ UNCHANGED <<bridgeVars, hookVars, guestVars, controllerVars, sample, previous, changes,
                   stop>>

(* OnShutdown, StopStateTrace: request the stop ...                        *)
StopStateTrace ==
    /\ MainAt("running", "joining")
    /\ stop' = TRUE
    /\ UNCHANGED <<bridgeVars, hookVars, runtime, guestVars, controllerVars, tracer, sample,
                   previous, changes>>

(* Altered: the stop is requested and not waited for.                      *)
JoinStateTraceLater ==
    /\ MainAt("joining", "shutdown")
    /\ UNCHANGED <<bridgeVars, hookVars, runtime, guestVars, controllerVars, traceVars>>

(* ... and join.                                                           *)
JoinStateTrace ==
    /\ tracer \in {"idle", "ended"}
    /\ MainAt("joining", "shutdown")
    /\ UNCHANGED <<bridgeVars, hookVars, runtime, guestVars, controllerVars, traceVars>>

(* The SDK ends the runtime, and with it the hooks' shares.                *)
EndRuntime ==
    /\ main \in {"shutdown", "gone"} /\ MainFree
    /\ runtime = "running"
    /\ runtime' = "ended"
    /\ IF "hooks" \in owners THEN Release("hooks") ELSE UNCHANGED <<owners, dying>>
    /\ UNCHANGED <<main, given, wanted, hookVars, guestVars, controllerVars, traceVars>>

(* ~RevanaLobbyBridge joins data_thread_ and gives up state_.              *)
DestroyBridge ==
    /\ "coordinator" \notin owners
    /\ MainAt("shutdown", "gone")
    /\ IF "bridge" \in owners THEN Release("bridge") ELSE UNCHANGED <<owners, dying>>
    /\ UNCHANGED <<given, wanted, hookVars, runtime, guestVars, controllerVars, traceVars>>

(* before_connect starts the coordinator, which holds State.  The callback *)
(* uses the bridge through this: no connect comes once it is destroyed.    *)
Connect ==
    /\ runtime = "running"
    /\ "hooks" \in owners /\ "coordinator" \notin owners
    /\ main # "gone"
    /\ owners' = owners \cup {"coordinator"}
    /\ UNCHANGED <<main, given, wanted, dying, hookVars, runtime, guestVars, controllerVars,
                   traceVars>>

CoordinatorEnds ==
    /\ "coordinator" \in owners
    /\ Release("coordinator")
    /\ UNCHANGED <<main, given, wanted, hookVars, runtime, guestVars, controllerVars, traceVars>>

-----------------------------------------------------------------------------
(* RevanaTraceWorldSendTarget: the guest sends with a port that is 0 or    *)
(* 65535, and the hook fills the configured endpoint in.                   *)

SendUnchanged == UNCHANGED <<main, bridgeVars, hookVars, runtime, controllerVars, traceVars>>

SendMissingPort(g) ==
    /\ runtime = "running"
    /\ send[g].pc = "idle"
    /\ endpoint.enabled
    /\ send' = [send EXCEPT ![g].pc = "port"]
    /\ UNCHANGED restored
    /\ SendUnchanged

LoadPort(g) ==
    /\ runtime = "running"
    /\ send[g].pc = "port"
    /\ send' = [send EXCEPT ![g] = [pc |-> "ipv4", port |-> endpoint.port]]
    /\ UNCHANGED restored
    /\ SendUnchanged

LoadIpv4(g) ==
    /\ runtime = "running"
    /\ send[g].pc = "ipv4"
    /\ send' = [send EXCEPT ![g] = [pc |-> "idle", port |-> 0]]
    /\ restored' = [restored EXCEPT ![g] = [ipv4 |-> endpoint.ipv4, port |-> send[g].port]]
    /\ SendUnchanged

-----------------------------------------------------------------------------
(* The guest's lobby controller: its module is loaded, its entry runs      *)
(* RevanaTraceLobbyControllerEntry once, and its words change at any time. *)

GuestUnchanged == UNCHANGED <<main, bridgeVars, hookVars, runtime, guestVars, traceVars>>

LoadLobbyModule ==
    /\ runtime = "running"
    /\ controller.entry = "no"
    /\ controller' = [controller EXCEPT !.entry = "module"]
    /\ UNCHANGED words
    /\ GuestUnchanged

(* Altered: the object is announced before it is stored.                   *)
ControllerEntryEarly ==
    /\ runtime = "running"
    /\ \/ /\ controller.entry = "module"
          /\ controller' = [controller EXCEPT !.ready = TRUE, !.entry = "object"]
       \/ /\ controller.entry = "object"
          /\ controller' = [controller EXCEPT !.object = TRUE, !.entry = "done"]
    /\ UNCHANGED words
    /\ GuestUnchanged

StoreObject ==
    /\ runtime = "running"
    /\ controller.entry = "module"
    /\ controller' = [controller EXCEPT !.object = TRUE, !.entry = "object"]
    /\ UNCHANGED words
    /\ GuestUnchanged

StoreReady ==
    /\ runtime = "running"
    /\ controller.entry = "object"
    /\ controller' = [controller EXCEPT !.ready = TRUE, !.entry = "done"]
    /\ UNCHANGED words
    /\ GuestUnchanged

ControllerEntry == StoreObject \/ StoreReady

WriteWord ==
    /\ runtime = "running"
    /\ controller.entry = "done"
    /\ \E i \in {1, 2}, v \in Values : words' = [words EXCEPT ![i] = v]
    /\ UNCHANGED controller
    /\ GuestUnchanged

-----------------------------------------------------------------------------
(* The state trace's thread.  Every loop looks at the stop token first.    *)

TracerUnchanged ==
    UNCHANGED <<main, bridgeVars, hookVars, runtime, guestVars, controllerVars, stop>>

TracerStops ==
    /\ tracer \in {"module", "ready", "poll"}
    /\ stop
    /\ tracer' = "ended"
    /\ UNCHANGED <<sample, previous, changes>>
    /\ TracerUnchanged

FindModule ==
    /\ tracer = "module" /\ ~stop
    /\ controller.entry # "no"
    /\ tracer' = "ready"
    /\ UNCHANGED <<sample, previous, changes>>
    /\ TracerUnchanged

SeeReady ==
    /\ tracer = "ready" /\ ~stop
    /\ controller.ready
    /\ tracer' = "object"
    /\ UNCHANGED <<sample, previous, changes>>
    /\ TracerUnchanged

LoadObject ==
    /\ tracer = "object"
    /\ tracer' = "poll"
    /\ sample' = [sample EXCEPT !.object = controller.object]
    /\ UNCHANGED <<previous, changes>>
    /\ TracerUnchanged

(* The limit of reports is reached.                                        *)
TracerFull ==
    /\ tracer = "poll"
    /\ changes = MaxChanges
    /\ tracer' = "ended"
    /\ UNCHANGED <<sample, previous, changes>>
    /\ TracerUnchanged

(* ReadLobbyControlState, word by word; with no object it reads nothing.   *)
ReadFirstWord ==
    /\ tracer = "poll" /\ ~stop
    /\ changes < MaxChanges
    /\ sample.object
    /\ tracer' = "compare"
    /\ sample' = [sample EXCEPT !.first = words[1]]
    /\ UNCHANGED <<previous, changes>>
    /\ TracerUnchanged

(* The sample is reported if it differs from the last one reported.        *)
Report(current) ==
    /\ previous' = current
    /\ changes' = IF current # previous THEN changes + 1 ELSE changes

CompareSample ==
    /\ tracer = "compare"
    /\ tracer' = "poll"
    /\ Report([i \in {1, 2} |-> IF i = 1 THEN sample.first ELSE words[2]])
    /\ UNCHANGED sample
    /\ TracerUnchanged

Tracer ==
    \/ TracerStops \/ FindModule \/ SeeReady \/ LoadObject \/ TracerFull
    \/ ReadFirstWord \/ CompareSample

-----------------------------------------------------------------------------
Next ==
    \/ Configure
    \/ PostLoad \/ StopStateTrace \/ JoinStateTrace \/ EndRuntime \/ DestroyBridge
    \/ DestroyState
    \/ Connect \/ CoordinatorEnds
    \/ \E g \in Guests : SendMissingPort(g) \/ LoadPort(g) \/ LoadIpv4(g)
    \/ LoadLobbyModule \/ ControllerEntry \/ WriteWord
    \/ Tracer

(* The application's thread and the state trace's keep running, and so     *)
(* does a guest thread inside the controller's entry hook.                 *)
Fairness ==
    /\ WF_vars(JoinStateTrace)
    /\ WF_vars(Tracer)
    /\ WF_vars(ControllerEntry)

Spec == Init /\ [][Next]_vars /\ Fairness

-----------------------------------------------------------------------------
(* Properties.                                                             *)

(* When Configure is through, with whatever step failing, the guest either *)
(* has a network and everything the hooks need for it, or nothing of it is *)
(* left: no map key, no endpoint, no bootstrap, no session (state_.reset   *)
(* and ~State in lobby_bridge.cpp).                                        *)
AllOrNothing ==
    main \in {"load", "running", "joining", "shutdown"} =>
        IF network
        THEN /\ "bridge" \in owners
             /\ keyed
             /\ endpoint = [enabled |-> TRUE, ipv4 |-> given.ipv4, port |-> given.port]
             /\ armed
        ELSE owners = {} /\ ~keyed /\ endpoint = NoEndpoint /\ ~armed

(* What RevanaTraceWorldSendTarget fills in, with three separate loads, is *)
(* the configured endpoint, never one that ~State is taking apart: as long *)
(* as a guest thread runs, the hooks keep State alive.                     *)
RestoredTargetIsWhole ==
    \A g \in Guests : restored[g] # None =>
        restored[g] = given /\ EndpointAccepts(given.ipv4, given.port)

(* The state trace's thread uses the runtime and its memory through a raw  *)
(* pointer: it runs only while there is a runtime (StopStateTrace joins).  *)
TracerInsideRuntime == tracer \notin {"idle", "ended"} => runtime = "running"

(* Its samples may mix two states of the guest, but once the guest's words *)
(* stay the same the trace comes to report just them, unless it has used   *)
(* up its reports (StartStateTrace, RevanaTraceLobbyControllerEntry).      *)
Settled(current) ==
    main = "running" /\ wanted /\ controller.entry = "done" /\ words = current

TraceCatchesUp ==
    \A current \in Words :
        <>[]Settled(current) => <>[](previous = current \/ changes = MaxChanges)

=============================================================================
