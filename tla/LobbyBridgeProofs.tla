-------------------------- MODULE LobbyBridgeProofs ------------------------
(***************************************************************************)
(* Proofs about LobbyBridge, for any guest threads, hosts, ports, words    *)
(* and number of reports: a configuration is whole or nothing is left of   *)
(* it, no guest thread is given an endpoint that is being taken apart, and *)
(* the state trace ends before the runtime.                                *)
(***************************************************************************)
EXTENDS LobbyBridge, TLAPS

(* The application is past OnPreSetup.                                     *)
Late == main \in {"load", "running", "joining", "shutdown", "gone"}

Full == [enabled |-> TRUE, ipv4 |-> given.ipv4, port |-> given.port]

Nothing == owners = {} /\ ~keyed /\ endpoint = NoEndpoint /\ ~armed

(* Inside Configure: what each step has enabled so far.                    *)
ConfigureInv ==
    /\ main \in {"presetup", "environment", "authenticate", "refused"} =>
          Nothing /\ dying = "no"
    /\ main \in {"generate", "mapkey", "endpoint", "bootstrap", "hooks"} =>
          owners = {"bridge"} /\ dying = "no"
    /\ main = "accepted" => owners = {"bridge", "hooks"} /\ dying = "no"
    /\ main \in {"generate", "mapkey"} => ~keyed
    /\ main \in {"endpoint", "bootstrap", "hooks", "accepted"} => keyed
    /\ main \in {"generate", "mapkey", "endpoint"} => endpoint = NoEndpoint
    /\ main \in {"bootstrap", "hooks", "accepted"} =>
          endpoint = Full /\ EndpointAccepts(given.ipv4, given.port)
    /\ main \in {"generate", "mapkey", "endpoint", "bootstrap"} => ~armed
    /\ main \in {"hooks", "accepted"} => armed
    /\ main = "failed" =>
          /\ owners = {} /\ dying # "no" /\ (dying = "key" \/ ~keyed)
          /\ endpoint = NoEndpoint /\ ~armed
    /\ ~Late => ~network

(* After it: a network means a whole configuration for as long as somebody *)
(* holds State, and the hooks hold it for as long as guest code runs.      *)
OwnersInv ==
    /\ owners # {} => dying = "no"
    /\ Late /\ ~network => Nothing /\ dying \in {"no", "done"}
    /\ Late /\ network =>
          /\ armed /\ EndpointAccepts(given.ipv4, given.port)
          /\ dying = "no" => keyed /\ endpoint = Full
          /\ main # "gone" => "bridge" \in owners
          /\ runtime # "ended" => "hooks" \in owners

RuntimeInv ==
    /\ runtime = "none" <=> main \notin {"running", "joining", "shutdown", "gone"}
    /\ runtime = "ended" => main \in {"shutdown", "gone"}

ConfigInv == ConfigureInv /\ OwnersInv /\ RuntimeInv

(* What a guest thread has loaded and written is the configuration.        *)
SendInv ==
    \A g \in Guests :
        /\ send[g].pc # "idle" => Late /\ network
        /\ send[g].pc = "ipv4" => send[g].port = given.port
        /\ restored[g] # None =>
              Late /\ restored[g] = given /\ EndpointAccepts(given.ipv4, given.port)

TraceInv ==
    /\ tracer \notin {"idle", "ended"} => main \in {"running", "joining"}
    /\ tracer = "compare" => changes < MaxChanges

(* TypeOK by the parts of the system.                                      *)
ConfigType ==
    /\ main \in {"presetup", "environment", "authenticate", "generate", "mapkey", "endpoint",
                 "bootstrap", "hooks", "failed", "refused", "accepted", "load", "running",
                 "joining", "shutdown", "gone"}
    /\ wanted \in BOOLEAN
    /\ owners \subseteq {"bridge", "hooks", "coordinator"}
    /\ dying \in {"no", "key", "flag", "ipv4", "port", "done"}
    /\ keyed \in BOOLEAN
    /\ armed \in BOOLEAN
    /\ network \in BOOLEAN
    /\ runtime \in {"none", "running", "ended"}

EndpointType ==
    /\ given \in [ipv4 : Nat, port : 0..MaxPort]
    /\ endpoint \in [enabled : BOOLEAN, ipv4 : Nat, port : 0..MaxPort]

SendType ==
    /\ send \in [Guests -> [pc : {"idle", "port", "ipv4"}, port : 0..MaxPort]]
    /\ restored \in [Guests -> [ipv4 : Nat, port : 0..MaxPort] \cup {None}]

ControllerType ==
    /\ controller \in [object : BOOLEAN, ready : BOOLEAN, entry : {"no", "module", "object", "done"}]
    /\ words \in Words

TraceType ==
    /\ tracer \in {"idle", "module", "ready", "object", "poll", "compare", "ended"}
    /\ sample \in [object : BOOLEAN, first : Values]
    /\ previous \in Words \cup {None}
    /\ changes \in 0..MaxChanges
    /\ stop \in BOOLEAN

IInv == TypeOK /\ ConfigInv /\ SendInv /\ TraceInv

-----------------------------------------------------------------------------
LEMMA NoPort == 0 \in 0..MaxPort
BY DEF MaxPort

(* ParsePort gives a port or 0.                                            *)
LEMMA ParsePortType ==
  ASSUME NEW text \in DataPorts
  PROVE  ParsePort(text, LoginDataPort) \in 0..MaxPort
<1>1. LoginDataPort \in 0..MaxPort /\ 0 \in 0..MaxPort
  BY DEF LoginDataPort, MaxPort
<1>2. text \in Ports => text \in 0..MaxPort
  BY DEF Ports, MaxPort
<1> QED
  BY <1>1, <1>2 DEF ParsePort

LEMMA TypeParts ==
  TypeOK <=> ConfigType /\ EndpointType /\ SendType /\ ControllerType /\ TraceType
BY DEF TypeOK, ConfigType, EndpointType, SendType, ControllerType, TraceType

LEMMA InitIInv == Init => IInv
<1> SUFFICES ASSUME Init PROVE IInv
  OBVIOUS
<1>1. TypeOK
  <2>1. ConfigType
    BY DEF Init, ConfigType
  <2>2. EndpointType
    BY NoPort DEF Init, EndpointType, NoEndpoint
  <2>3. SendType
    BY NoPort DEF Init, SendType
  <2>4. ControllerType
    BY DEF Init, ControllerType
  <2>5. TraceType
    <3>1. sample \in [object : {FALSE}, first : Values]
      BY DEF Init
    <3>2. sample \in [object : BOOLEAN, first : Values]
      BY <3>1
    <3>3. changes \in 0..MaxChanges
      BY BridgeAssumption DEF Init
    <3> QED
      BY <3>2, <3>3 DEF Init, TraceType
  <2> QED
    BY <2>1, <2>2, <2>3, <2>4, <2>5, TypeParts
<1>2. ConfigInv
  BY DEF Init, ConfigInv, ConfigureInv, OwnersInv, RuntimeInv, Nothing, Late, NoEndpoint
<1>3. SendInv /\ TraceInv
  BY DEF Init, SendInv, TraceInv
<1> QED
  BY <1>1, <1>2, <1>3 DEF IInv

-----------------------------------------------------------------------------
(* Types.                                                                  *)

LEMMA ConfigTypeStep == ConfigType /\ [Next]_vars => ConfigType'
<1> SUFFICES ASSUME ConfigType, [Next]_vars PROVE ConfigType'
  OBVIOUS
<1> USE DEF ConfigType
<1>1. CASE Configure
  <2> USE DEF OutsideConfigure, MainAt, bridgeVars, hookVars
  <2>1. CASE PreSetup
    BY <2>1 DEF PreSetup
  <2>2. CASE NothingConfigured
    BY <2>2 DEF NothingConfigured
  <2>3. CASE ConfigurationIncomplete
    BY <2>3 DEF ConfigurationIncomplete
  <2>4. CASE ReadConfiguration
    <3>1. /\ main' \in {"authenticate", "refused"} /\ wanted' \in BOOLEAN
          /\ UNCHANGED <<owners, dying, keyed, armed, network, runtime>>
      BY <2>4 DEF ReadConfiguration
    <3> QED
      BY <3>1
  <2>5. CASE Authenticated
    BY <2>5 DEF Authenticated
  <2>6. CASE AuthenticationFails
    BY <2>6 DEF AuthenticationFails
  <2>7. CASE GenerateMapSessionKey
    BY <2>7 DEF GenerateMapSessionKey
  <2>8. CASE ConfigureMapKey
    BY <2>8 DEF ConfigureMapKey
  <2>9. CASE ConfigureEndpoint
    BY <2>9 DEF ConfigureEndpoint
  <2>10. CASE ConfigureFails
    BY <2>10 DEF ConfigureFails, Release
  <2>11. CASE ConfigureBootstrap
    BY <2>11 DEF ConfigureBootstrap
  <2>12. CASE InstallHooks
    BY <2>12 DEF InstallHooks, HookShares
  <2>13. CASE PreSetupEnds
    BY <2>13 DEF PreSetupEnds
  <2> QED
    BY <1>1, <2>1, <2>2, <2>3, <2>4, <2>5, <2>6, <2>7, <2>8, <2>9, <2>10, <2>11, <2>12, <2>13
       DEF Configure
<1>2. CASE PostLoad
  BY <1>2 DEF PostLoad, MainAt, bridgeVars, hookVars
<1>3. CASE StopStateTrace
  BY <1>3 DEF StopStateTrace, MainAt, bridgeVars, hookVars
<1>4. CASE JoinStateTrace
  BY <1>4 DEF JoinStateTrace, MainAt, bridgeVars, hookVars
<1>5. CASE EndRuntime
  BY <1>5 DEF EndRuntime, Release, hookVars
<1>6. CASE DestroyBridge
  BY <1>6 DEF DestroyBridge, MainAt, Release, hookVars
<1>7. CASE DestroyState
  BY <1>7 DEF DestroyState, DestroyKey, DestroyFlag, DestroyIpv4, DestroyPort
<1>8. CASE Connect
  BY <1>8 DEF Connect, hookVars
<1>9. CASE CoordinatorEnds
  BY <1>9 DEF CoordinatorEnds, Release, hookVars
<1>10. ASSUME NEW g \in Guests, SendMissingPort(g) \/ LoadPort(g) \/ LoadIpv4(g)
       PROVE  UNCHANGED <<main, bridgeVars, hookVars, runtime>>
  BY <1>10 DEF SendMissingPort, LoadPort, LoadIpv4, SendUnchanged
<1>11. CASE LoadLobbyModule \/ ControllerEntry \/ WriteWord
  BY <1>11 DEF LoadLobbyModule, ControllerEntry, StoreObject, StoreReady, WriteWord,
     GuestUnchanged, bridgeVars, hookVars
<1>12. CASE Tracer
  BY <1>12 DEF Tracer, TracerStops, FindModule, SeeReady, LoadObject, TracerFull, ReadFirstWord,
     CompareSample, TracerUnchanged, bridgeVars, hookVars
<1>13. CASE UNCHANGED <<main, bridgeVars, hookVars, runtime>>
  BY <1>13 DEF bridgeVars, hookVars
<1> QED
  BY <1>1, <1>2, <1>3, <1>4, <1>5, <1>6, <1>7, <1>8, <1>9, <1>10, <1>11, <1>12, <1>13
     DEF Next, vars

LEMMA EndpointTypeStep == EndpointType /\ [Next]_vars => EndpointType'
<1> SUFFICES ASSUME EndpointType, [Next]_vars PROVE EndpointType'
  OBVIOUS
<1> USE DEF EndpointType
<1>1. CASE ReadConfiguration
  <2>1. PICK host \in Hosts, text \in DataPorts :
          LET port == ParsePort(text, LoginDataPort)
              valid == port # 0 /\ host # None
          IN given' = IF valid THEN [ipv4 |-> host, port |-> port] ELSE given
    BY <1>1 DEF ReadConfiguration
  <2>2. host # None => host \in Nat
    BY BridgeAssumption
  <2>3. ParsePort(text, LoginDataPort) \in 0..MaxPort
    BY ParsePortType
  <2>4. given' \in [ipv4 : Nat, port : 0..MaxPort]
    BY <2>1, <2>2, <2>3
  <2>5. endpoint' = endpoint
    BY <1>1 DEF ReadConfiguration, hookVars
  <2> QED
    BY <2>4, <2>5
<1>2. CASE ConfigureEndpoint
  BY <1>2 DEF ConfigureEndpoint, bridgeVars
<1>3. CASE DestroyState
  <2>1. CASE DestroyKey
    BY <1>3, <2>1 DEF DestroyState, DestroyKey
  <2>2. CASE DestroyFlag
    BY <1>3, <2>2 DEF DestroyState, DestroyFlag
  <2>3. CASE DestroyIpv4
    BY <1>3, <2>3 DEF DestroyState, DestroyIpv4
  <2>4. CASE DestroyPort
    BY <1>3, <2>4, NoPort DEF DestroyState, DestroyPort
  <2> QED
    BY <1>3, <2>1, <2>2, <2>3, <2>4 DEF DestroyState
<1>4. CASE PreSetup \/ NothingConfigured \/ ConfigurationIncomplete \/ Authenticated
           \/ AuthenticationFails \/ GenerateMapSessionKey \/ ConfigureMapKey \/ ConfigureFails
           \/ ConfigureBootstrap \/ InstallHooks \/ PreSetupEnds
  BY <1>4 DEF PreSetup, NothingConfigured, ConfigurationIncomplete, Authenticated,
     AuthenticationFails, GenerateMapSessionKey, ConfigureMapKey, ConfigureFails,
     ConfigureBootstrap, InstallHooks, PreSetupEnds, bridgeVars, hookVars
<1>5. CASE PostLoad \/ StopStateTrace \/ JoinStateTrace \/ EndRuntime \/ DestroyBridge
           \/ Connect \/ CoordinatorEnds
  BY <1>5 DEF PostLoad, StopStateTrace, JoinStateTrace, EndRuntime, DestroyBridge, Connect,
     CoordinatorEnds, bridgeVars, hookVars
<1>6. ASSUME NEW g \in Guests, SendMissingPort(g) \/ LoadPort(g) \/ LoadIpv4(g)
      PROVE  UNCHANGED <<given, endpoint>>
  BY <1>6 DEF SendMissingPort, LoadPort, LoadIpv4, SendUnchanged, bridgeVars, hookVars
<1>7. CASE LoadLobbyModule \/ ControllerEntry \/ WriteWord
  BY <1>7 DEF LoadLobbyModule, ControllerEntry, StoreObject, StoreReady, WriteWord,
     GuestUnchanged, bridgeVars, hookVars
<1>8. CASE Tracer
  BY <1>8 DEF Tracer, TracerStops, FindModule, SeeReady, LoadObject, TracerFull, ReadFirstWord,
     CompareSample, TracerUnchanged, bridgeVars, hookVars
<1>9. CASE UNCHANGED <<given, endpoint>>
  BY <1>9
<1> QED
  BY <1>1, <1>2, <1>3, <1>4, <1>5, <1>6, <1>7, <1>8, <1>9
     DEF Next, Configure, vars, bridgeVars, hookVars

(* Which steps a group of variables is left alone by.                      *)
LEMMA ConfigureFrame == Configure => UNCHANGED <<guestVars, controllerVars, traceVars>>
BY DEF Configure, PreSetup, NothingConfigured, ConfigurationIncomplete, ReadConfiguration,
   Authenticated, AuthenticationFails, GenerateMapSessionKey, ConfigureMapKey,
   ConfigureEndpoint, ConfigureFails, ConfigureBootstrap, InstallHooks, PreSetupEnds,
   OutsideConfigure

LEMMA ApplicationFrame ==
  PostLoad \/ StopStateTrace \/ JoinStateTrace \/ EndRuntime \/ DestroyBridge \/ DestroyState
    \/ Connect \/ CoordinatorEnds
  => UNCHANGED <<guestVars, controllerVars>>
BY DEF PostLoad, StopStateTrace, JoinStateTrace, EndRuntime, DestroyBridge, DestroyState,
   Connect, CoordinatorEnds

LEMMA SendFrame ==
  ASSUME NEW g \in Guests, SendMissingPort(g) \/ LoadPort(g) \/ LoadIpv4(g)
  PROVE  UNCHANGED <<main, given, network, controllerVars, traceVars>> /\ runtime = "running"
BY DEF SendMissingPort, LoadPort, LoadIpv4, SendUnchanged, bridgeVars, hookVars

LEMMA GuestFrame ==
  LoadLobbyModule \/ ControllerEntry \/ WriteWord
  => UNCHANGED <<main, given, network, guestVars, traceVars>>
BY DEF LoadLobbyModule, ControllerEntry, StoreObject, StoreReady, WriteWord, GuestUnchanged,
   bridgeVars, hookVars

LEMMA TracerFrame == Tracer => UNCHANGED <<main, given, network, guestVars, controllerVars, stop>>
BY DEF Tracer, TracerStops, FindModule, SeeReady, LoadObject, TracerFull, ReadFirstWord,
   CompareSample, TracerUnchanged, bridgeVars, hookVars

LEMMA SendTypeStep == EndpointType /\ SendType /\ [Next]_vars => SendType'
<1> SUFFICES ASSUME EndpointType, SendType, [Next]_vars PROVE SendType'
  OBVIOUS
<1>1. ASSUME NEW g \in Guests, SendMissingPort(g) \/ LoadPort(g) \/ LoadIpv4(g) PROVE SendType'
  <2>1. /\ endpoint.ipv4 \in Nat /\ endpoint.port \in 0..MaxPort /\ 0 \in 0..MaxPort
        /\ send[g].port \in 0..MaxPort
    BY <1>1, NoPort DEF EndpointType, SendType
  <2> USE <2>1 DEF SendType
  <2>2. CASE SendMissingPort(g)
    BY <2>2 DEF SendMissingPort
  <2>3. CASE LoadPort(g)
    BY <2>3 DEF LoadPort
  <2>4. CASE LoadIpv4(g)
    <3>1. [pc |-> "idle", port |-> 0] \in [pc : {"idle", "port", "ipv4"}, port : 0..MaxPort]
      OBVIOUS
    <3>2. [ipv4 |-> endpoint.ipv4, port |-> send[g].port] \in [ipv4 : Nat, port : 0..MaxPort]
      OBVIOUS
    <3> QED
      BY <2>4, <3>1, <3>2 DEF LoadIpv4
  <2> QED
    BY <1>1, <2>2, <2>3, <2>4
<1>2. CASE UNCHANGED guestVars
  BY <1>2 DEF SendType, guestVars
<1> QED
  BY <1>1, <1>2, ConfigureFrame, ApplicationFrame, GuestFrame, TracerFrame DEF Next, vars

LEMMA ControllerTypeStep == ControllerType /\ [Next]_vars => ControllerType'
<1> SUFFICES ASSUME ControllerType, [Next]_vars PROVE ControllerType'
  OBVIOUS
<1> USE DEF ControllerType
<1>1. CASE LoadLobbyModule
  BY <1>1 DEF LoadLobbyModule
<1>2. CASE StoreObject
  BY <1>2 DEF StoreObject
<1>3. CASE StoreReady
  BY <1>3 DEF StoreReady
<1>4. CASE WriteWord
  BY <1>4 DEF WriteWord, Words
<1>5. CASE UNCHANGED controllerVars
  BY <1>5 DEF controllerVars
<1> QED
  BY <1>1, <1>2, <1>3, <1>4, <1>5, ConfigureFrame, ApplicationFrame, SendFrame, TracerFrame
     DEF Next, ControllerEntry, vars

LEMMA TraceTypeStep ==
  ControllerType /\ TraceType /\ TraceInv /\ [Next]_vars => TraceType'
<1> SUFFICES ASSUME ControllerType, TraceType, TraceInv, [Next]_vars PROVE TraceType'
  OBVIOUS
<1> USE DEF TraceType, TracerUnchanged
<1>1. CASE TracerStops \/ FindModule \/ SeeReady \/ TracerFull
  BY <1>1 DEF TracerStops, FindModule, SeeReady, TracerFull
<1>2. CASE LoadObject
  <2>1. controller.object \in BOOLEAN
    BY DEF ControllerType
  <2> QED
    BY <1>2, <2>1 DEF LoadObject
<1>3. CASE ReadFirstWord
  <2>1. words[1] \in Values
    BY DEF ControllerType, Words
  <2> QED
    BY <1>3, <2>1 DEF ReadFirstWord
<1>4. CASE CompareSample
  <2> DEFINE current == [i \in {1, 2} |-> IF i = 1 THEN sample.first ELSE words[2]]
  <2>1. current \in Words
    BY DEF ControllerType, Words
  <2> HIDE DEF current
  <2>2. /\ tracer' = "poll" /\ previous' = current
        /\ changes' = IF current # previous THEN changes + 1 ELSE changes
        /\ sample' = sample /\ stop' = stop
    BY <1>4 DEF CompareSample, Report, current
  <2>3. changes' \in 0..MaxChanges
    BY <1>4, <2>2, BridgeAssumption DEF TraceInv, CompareSample
  <2> QED
    BY <2>1, <2>2, <2>3
<1>5. CASE PostLoad \/ StopStateTrace
  BY <1>5 DEF PostLoad, StopStateTrace
<1>6. CASE JoinStateTrace \/ EndRuntime \/ DestroyBridge \/ DestroyState \/ Connect
           \/ CoordinatorEnds
  BY <1>6 DEF JoinStateTrace, EndRuntime, DestroyBridge, DestroyState, Connect,
     CoordinatorEnds, traceVars
<1>7. CASE UNCHANGED traceVars
  BY <1>7 DEF traceVars
<1> QED
  BY <1>1, <1>2, <1>3, <1>4, <1>5, <1>6, <1>7, ConfigureFrame, SendFrame, GuestFrame
     DEF Next, Tracer, vars

-----------------------------------------------------------------------------
(* The configuration.                                                      *)

LEMMA ConfigStep == IInv /\ [Next]_vars => ConfigInv'
<1> SUFFICES ASSUME IInv, [Next]_vars PROVE ConfigInv'
  OBVIOUS
<1>0. TypeOK /\ ConfigInv
  BY DEF IInv
<1> USE <1>0 DEF ConfigInv, ConfigureInv, OwnersInv, RuntimeInv, Nothing, Late, Full
<1>1. CASE Configure
  <2> USE DEF OutsideConfigure, MainAt, MainFree, bridgeVars, hookVars
  <2>1. CASE PreSetup
    BY <2>1 DEF PreSetup
  <2>2. CASE NothingConfigured
    BY <2>2 DEF NothingConfigured
  <2>3. CASE ConfigurationIncomplete
    BY <2>3 DEF ConfigurationIncomplete
  <2>4. CASE ReadConfiguration
    <3>1. /\ main = "environment" /\ main' \in {"authenticate", "refused"}
          /\ UNCHANGED <<owners, dying, keyed, endpoint, armed, network, runtime>>
      BY <2>4 DEF ReadConfiguration
    <3> QED
      BY <3>1
  <2>5. CASE Authenticated
    BY <2>5 DEF Authenticated
  <2>6. CASE AuthenticationFails
    BY <2>6 DEF AuthenticationFails
  <2>7. CASE GenerateMapSessionKey
    BY <2>7 DEF GenerateMapSessionKey
  <2>8. CASE ConfigureMapKey
    BY <2>8 DEF ConfigureMapKey
  <2>9. CASE ConfigureEndpoint
    BY <2>9 DEF ConfigureEndpoint
  <2>10. CASE ConfigureFails
    BY <2>10 DEF ConfigureFails, Release
  <2>11. CASE ConfigureBootstrap
    BY <2>11 DEF ConfigureBootstrap
  <2>12. CASE InstallHooks
    BY <2>12 DEF InstallHooks, HookShares
  <2>13. CASE PreSetupEnds
    BY <2>13 DEF PreSetupEnds
  <2> QED
    BY <1>1, <2>1, <2>2, <2>3, <2>4, <2>5, <2>6, <2>7, <2>8, <2>9, <2>10, <2>11, <2>12, <2>13
       DEF Configure
<1>2. CASE PostLoad
  BY <1>2 DEF PostLoad, MainAt, bridgeVars, hookVars
<1>3. CASE StopStateTrace
  BY <1>3 DEF StopStateTrace, MainAt, bridgeVars, hookVars
<1>4. CASE JoinStateTrace
  BY <1>4 DEF JoinStateTrace, MainAt, bridgeVars, hookVars
<1>5. CASE EndRuntime
  BY <1>5 DEF EndRuntime, Release, MainFree, hookVars
<1>6. CASE DestroyBridge
  BY <1>6 DEF DestroyBridge, Release, MainAt, MainFree, hookVars
<1>7. CASE DestroyState
  <2>1. /\ owners = {} /\ owners' = {} /\ dying # "no" /\ dying' # "no"
        /\ dying # "done"
        /\ UNCHANGED <<main, given, armed, network, runtime>>
    BY <1>7 DEF DestroyState, DestroyKey, DestroyFlag, DestroyIpv4, DestroyPort
  <2>2. main \in {"failed", "gone"}
    <3>1. "bridge" \notin owners /\ dying \notin {"no", "done"}
      BY <2>1
    <3>2. Late => main = "gone"
      BY <3>1
    <3>3. ~Late => main = "failed"
      BY <3>1, <2>1 DEF TypeOK
    <3> QED
      BY <3>2, <3>3
  <2>3. CASE main = "failed"
    BY <1>7, <2>1, <2>3
       DEF DestroyState, DestroyKey, DestroyFlag, DestroyIpv4, DestroyPort, NoEndpoint
  <2>4. CASE main = "gone"
    BY <2>1, <2>4
  <2> QED
    BY <2>2, <2>3, <2>4
<1>8. CASE Connect
  BY <1>8 DEF Connect, hookVars
<1>9. CASE CoordinatorEnds
  BY <1>9 DEF CoordinatorEnds, Release, hookVars
<1>10. ASSUME NEW g \in Guests, SendMissingPort(g) \/ LoadPort(g) \/ LoadIpv4(g)
       PROVE  UNCHANGED <<main, bridgeVars, hookVars, runtime>>
  BY <1>10 DEF SendMissingPort, LoadPort, LoadIpv4, SendUnchanged
<1>11. CASE LoadLobbyModule \/ ControllerEntry \/ WriteWord
  BY <1>11 DEF LoadLobbyModule, ControllerEntry, StoreObject, StoreReady, WriteWord,
     GuestUnchanged, bridgeVars, hookVars
<1>12. CASE Tracer
  BY <1>12 DEF Tracer, TracerStops, FindModule, SeeReady, LoadObject, TracerFull, ReadFirstWord,
     CompareSample, TracerUnchanged, bridgeVars, hookVars
<1>13. CASE UNCHANGED <<main, bridgeVars, hookVars, runtime>>
  BY <1>13 DEF bridgeVars, hookVars
<1> QED
  BY <1>1, <1>2, <1>3, <1>4, <1>5, <1>6, <1>7, <1>8, <1>9, <1>10, <1>11, <1>12, <1>13
     DEF Next, vars

-----------------------------------------------------------------------------
(* The send hook.                                                          *)

(* While guest code runs with a network, the endpoint is the configured.   *)
LEMMA EndpointHeld ==
  ASSUME ConfigInv, runtime = "running", network
  PROVE  endpoint = Full /\ Late /\ EndpointAccepts(given.ipv4, given.port)
BY DEF ConfigInv, ConfigureInv, OwnersInv, RuntimeInv, Late

LEMMA SendStep == IInv /\ [Next]_vars => SendInv'
<1> SUFFICES ASSUME IInv, [Next]_vars PROVE SendInv'
  OBVIOUS
<1>0. TypeOK /\ ConfigInv /\ SendInv
  BY DEF IInv
<1>1. ASSUME UNCHANGED guestVars, UNCHANGED given \/ ~Late, Late => Late' /\ network' = network
      PROVE  SendInv'
  BY <1>0, <1>1 DEF SendInv, guestVars
<1>2. ASSUME NEW g \in Guests, SendMissingPort(g) \/ LoadPort(g) \/ LoadIpv4(g) PROVE SendInv'
  <2>1. UNCHANGED <<main, given, network>> /\ runtime = "running"
    BY <1>2 DEF SendMissingPort, LoadPort, LoadIpv4, SendUnchanged, bridgeVars, hookVars
  <2>2. Late' = Late
    BY <2>1 DEF Late
  <2>3. network
    <3>1. CASE SendMissingPort(g)
      BY <1>0, <2>1, <3>1 DEF SendMissingPort, ConfigInv, OwnersInv, RuntimeInv, Late, Nothing, NoEndpoint
    <3>2. CASE LoadPort(g) \/ LoadIpv4(g)
      BY <1>0, <3>2 DEF LoadPort, LoadIpv4, SendInv
    <3> QED
      BY <1>2, <3>1, <3>2
  <2>4. endpoint = Full /\ Late /\ EndpointAccepts(given.ipv4, given.port)
    BY <1>0, <2>1, <2>3, EndpointHeld
  <2>5. /\ endpoint.port = given.port /\ endpoint.ipv4 = given.ipv4
        /\ given = [ipv4 |-> given.ipv4, port |-> given.port]
    BY <1>0, <2>4 DEF Full, TypeOK
  <2>6. SUFFICES ASSUME NEW h \in Guests
                 PROVE  /\ send'[h].pc = "ipv4" => send'[h].port = given.port
                        /\ restored'[h] # None => restored'[h] = given
    BY <2>1, <2>2, <2>3, <2>4 DEF SendInv, EndpointAccepts
  <2>7. CASE h # g
    BY <1>0, <1>2, <2>7 DEF SendMissingPort, LoadPort, LoadIpv4, TypeOK, SendInv
  <2>8. CASE h = g
    <3>1. CASE SendMissingPort(g)
      BY <1>0, <2>8, <3>1 DEF SendMissingPort, TypeOK, SendInv
    <3>2. CASE LoadPort(g)
      BY <1>0, <2>5, <2>8, <3>2 DEF LoadPort, TypeOK, SendInv
    <3>3. CASE LoadIpv4(g)
      BY <1>0, <2>5, <2>8, <3>3 DEF LoadIpv4, TypeOK, SendInv
    <3> QED
      BY <1>2, <3>1, <3>2, <3>3
  <2> QED
    BY <2>7, <2>8
<1>3. CASE Configure
  <2>1. ~Late /\ UNCHANGED guestVars
    BY <1>3 DEF Configure, PreSetup, NothingConfigured, ConfigurationIncomplete, ReadConfiguration,
       Authenticated, AuthenticationFails, GenerateMapSessionKey, ConfigureMapKey,
       ConfigureEndpoint, ConfigureFails, ConfigureBootstrap, InstallHooks, PreSetupEnds,
       MainAt, OutsideConfigure, Late
  <2> QED
    BY <1>1, <2>1
<1>4. CASE PostLoad \/ StopStateTrace \/ JoinStateTrace \/ DestroyBridge
  <2>1. UNCHANGED <<guestVars, given, network>> /\ Late'
    BY <1>4 DEF PostLoad, StopStateTrace, JoinStateTrace, DestroyBridge, MainAt, bridgeVars,
       hookVars, Late
  <2> QED
    BY <1>1, <2>1
<1>5. CASE EndRuntime \/ DestroyState \/ Connect \/ CoordinatorEnds
  <2>1. UNCHANGED <<guestVars, given, network, main>>
    BY <1>5 DEF EndRuntime, DestroyState, Connect, CoordinatorEnds, hookVars
  <2> QED
    BY <1>1, <2>1 DEF Late
<1>6. CASE LoadLobbyModule \/ ControllerEntry \/ WriteWord \/ Tracer \/ UNCHANGED vars
  <2>1. UNCHANGED <<guestVars, given, network, main>>
    BY <1>6 DEF LoadLobbyModule, ControllerEntry, StoreObject, StoreReady, WriteWord,
       GuestUnchanged, Tracer, TracerStops, FindModule, SeeReady, LoadObject, TracerFull,
       ReadFirstWord, CompareSample, TracerUnchanged, bridgeVars, hookVars, vars
  <2> QED
    BY <1>1, <2>1 DEF Late
<1> QED
  BY <1>2, <1>3, <1>4, <1>5, <1>6 DEF Next

-----------------------------------------------------------------------------
(* The state trace.                                                        *)

LEMMA TraceStep == IInv /\ [Next]_vars => TraceInv'
<1> SUFFICES ASSUME IInv, [Next]_vars PROVE TraceInv'
  OBVIOUS
<1>0. TypeOK /\ TraceInv
  BY DEF IInv
<1> USE <1>0 DEF TraceInv
<1>1. CASE Configure
  <2>1. main \notin {"running", "joining"} /\ UNCHANGED <<tracer, changes>>
    BY <1>1 DEF Configure, PreSetup, NothingConfigured, ConfigurationIncomplete, ReadConfiguration,
       Authenticated, AuthenticationFails, GenerateMapSessionKey, ConfigureMapKey,
       ConfigureEndpoint, ConfigureFails, ConfigureBootstrap, InstallHooks, PreSetupEnds,
       MainAt, OutsideConfigure, traceVars
  <2> QED
    BY <2>1
<1>2. CASE PostLoad
  BY <1>2 DEF PostLoad, MainAt
<1>3. CASE StopStateTrace
  BY <1>3 DEF StopStateTrace, MainAt
<1>4. CASE JoinStateTrace
  BY <1>4 DEF JoinStateTrace, traceVars
<1>5. CASE DestroyBridge
  BY <1>5 DEF DestroyBridge, MainAt, traceVars
<1>6. CASE EndRuntime \/ DestroyState \/ Connect \/ CoordinatorEnds
  BY <1>6 DEF EndRuntime, DestroyState, Connect, CoordinatorEnds, traceVars
<1>7. ASSUME NEW g \in Guests, SendMissingPort(g) \/ LoadPort(g) \/ LoadIpv4(g)
      PROVE  UNCHANGED <<main, traceVars>>
  BY <1>7 DEF SendMissingPort, LoadPort, LoadIpv4, SendUnchanged
<1>8. CASE LoadLobbyModule \/ ControllerEntry \/ WriteWord
  BY <1>8 DEF LoadLobbyModule, ControllerEntry, StoreObject, StoreReady, WriteWord,
     GuestUnchanged, traceVars
<1>9. CASE Tracer
  BY <1>9 DEF Tracer, TracerStops, FindModule, SeeReady, LoadObject, TracerFull, ReadFirstWord,
     CompareSample, TracerUnchanged
<1>10. CASE UNCHANGED <<main, traceVars>>
  BY <1>10 DEF traceVars
<1> QED
  BY <1>1, <1>2, <1>3, <1>4, <1>5, <1>6, <1>7, <1>8, <1>9, <1>10 DEF Next, vars

-----------------------------------------------------------------------------
(* The theorems.                                                           *)

(* The inductive invariant holds from the start of the application to its  *)
(* end.                                                                    *)
THEOREM Invariance == Spec => []IInv
<1>1. IInv /\ [Next]_vars => IInv'
  <2> SUFFICES ASSUME IInv, [Next]_vars PROVE IInv'
    OBVIOUS
  <2>1. ConfigType' /\ EndpointType' /\ SendType' /\ ControllerType' /\ TraceType'
    BY TypeParts, ConfigTypeStep, EndpointTypeStep, SendTypeStep, ControllerTypeStep,
       TraceTypeStep DEF IInv
  <2>2. TypeOK'
    BY <2>1 DEF TypeOK, ConfigType, EndpointType, SendType, ControllerType, TraceType
  <2> QED
    BY <2>2, ConfigStep, SendStep, TraceStep DEF IInv
<1> QED
  BY InitIInv, <1>1, PTL DEF Spec

(* Every part of the bridge and of the hooks it sets keeps its type.       *)
THEOREM TypeCorrect == Spec => []TypeOK
<1>1. IInv => TypeOK
  BY DEF IInv
<1> QED
  BY <1>1, Invariance, PTL

(* Configure enables everything or leaves nothing (state_.reset, ~State).  *)
THEOREM WholeConfiguration == Spec => []AllOrNothing
<1>1. IInv => AllOrNothing
  <2> SUFFICES ASSUME IInv, main \in {"load", "running", "joining", "shutdown"}
               PROVE  IF network
                      THEN /\ "bridge" \in owners
                           /\ keyed
                           /\ endpoint = Full
                           /\ armed
                      ELSE Nothing
    BY DEF AllOrNothing, Full, Nothing
  <2> QED
    BY DEF IInv, ConfigInv, OwnersInv, Late
<1> QED
  BY <1>1, Invariance, PTL

(* RevanaTraceWorldSendTarget never fills in an endpoint that ~State is    *)
(* taking apart.                                                           *)
THEOREM WholeTarget == Spec => []RestoredTargetIsWhole
<1>1. IInv => RestoredTargetIsWhole
  BY DEF IInv, SendInv, RestoredTargetIsWhole
<1> QED
  BY <1>1, Invariance, PTL

(* The state trace's thread ends before the runtime it points to.          *)
THEOREM TraceEndsFirst == Spec => []TracerInsideRuntime
<1>1. IInv => TracerInsideRuntime
  BY DEF IInv, TypeOK, ConfigInv, RuntimeInv, TraceInv, TracerInsideRuntime
<1> QED
  BY <1>1, Invariance, PTL

=============================================================================
