------------------------- MODULE MqttServiceProofs -------------------------
(***************************************************************************)
(* Theorems about MqttService composed with WifiService, for every queue   *)
(* size, retry limit and set of handles:                                   *)
(*   - the composition implements WifiSpec, so the theorems about          *)
(*     WifiService hold of it;                                             *)
(*   - who can misuse a handle, and while who is inside connect();         *)
(*   - the attempt to reach the broker is never given up.                  *)
(***************************************************************************)
EXTENDS MqttService, WifiServiceProofs

-----------------------------------------------------------------------------
(* Where the loop's task is determines the event it handles.               *)
LoopPc ==
  /\ InConnect("loop") => current = "WIFI_CONNECTED"
  /\ pc["loop"] = "publish" => current = "PUBLISH"
  /\ pc["timer"] # "publish"

LEMMA CallerMembers == "loop" \in Caller /\ "timer" \in Caller /\ "loop" # "timer"
                       /\ \A p \in Caller : p = "loop" \/ p = "timer"
BY DEF Caller

LEMMA MqttEventMembers ==
  /\ MqttEvent \subseteq AppEvent
  /\ {"MQTT_CONNECTED", "MQTT_DISCONNECTED", "READY", "PUBLISH", "DNS_CONFIG"} \subseteq AppEvent
  /\ UserEvent \subseteq AppEvent
BY MqttAssumption DEF MqttEvent

(* The part of the type invariant that never depends on the loop. *)
THEOREM MqttTypeStep == MqttTypeOK /\ [MqttNext]_vars => MqttTypeOK'
<1> SUFFICES ASSUME MqttTypeOK, [MqttNext]_vars PROVE MqttTypeOK'
  OBVIOUS
<1> USE CallerMembers
<1>1. CASE Running /\ WifiStep
  BY <1>1 DEF WifiStep, mqttOwnVars, connVars, callVars, MqttTypeOK
<1>2. CASE Running /\ MqttHandler
  <2>1. CASE OnWifiConnected
    BY <2>1 DEF OnWifiConnected, Enter, InConnect, MqttTypeOK
  <2>2. CASE OnWifiDisconnected
    BY <2>2 DEF OnWifiDisconnected, connVars, callVars, MqttTypeOK
  <2>3. CASE OnMqttConnected
    BY <2>3 DEF OnMqttConnected, connVars, callVars, MqttTypeOK
  <2>4. CASE OnMqttDisconnectedWifiDown \/ OnReady
    BY <2>4 DEF OnMqttDisconnectedWifiDown, OnReady, mqttOwnVars, connVars, callVars, MqttTypeOK
  <2>5. CASE OnMqttDisconnected
    BY <2>5 DEF OnMqttDisconnected, ArmTimer, callVars, MqttTypeOK
  <2>6. CASE PublishCheck
    BY <2>6 DEF PublishCheck, callVars, MqttTypeOK
  <2>7. CASE PublishCall
    BY <2>7 DEF PublishCall, Return, MqttTypeOK
  <2> QED
    BY <1>2, <2>1, <2>2, <2>3, <2>4, <2>5, <2>6, <2>7 DEF MqttHandler
<1>3. CASE Running /\ (LookupAnswered \/ SetupDone)
  BY <1>3 DEF LookupAnswered, SetupDone, mqttOwnVars, connVars, callVars, MqttTypeOK
<1>4. CASE Running /\ TimerFires
  BY <1>4 DEF TimerFires, Enter, InConnect, MqttTypeOK
<1>5. ASSUME NEW p \in Caller, Running /\ ConnectStep(p) PROVE MqttTypeOK'
  <2>1. CASE ConnectWithoutUri(p)
    BY <2>1 DEF ConnectWithoutUri, Return, callVars, MqttTypeOK
  <2>2. CASE DestroyBegin(p)
    <3>1. CASE client = NULL
      BY <2>2, <3>1 DEF DestroyBegin, MqttTypeOK
    <3>2. CASE client # NULL
      <4>1. client \in Handle /\ stopping[client] \in BOOLEAN
        BY <3>2 DEF MqttTypeOK
      <4>2. fault' \in Caller \cup {"client", "registrar", "none"}
        BY <2>2, <3>2, <4>1 DEF DestroyBegin, MqttTypeOK
      <4>3. stopping' \in [Handle -> BOOLEAN]
        BY <2>2, <3>2, <4>1 DEF DestroyBegin, MqttTypeOK
      <4>4. /\ victim' \in [Caller -> Handle \cup {NULL}]
            /\ pc' \in [Caller -> {"idle", "check", "stopping", "clear", "init", "register",
                                 "start", "publish"}]
        BY <2>2, <3>2, <4>1 DEF DestroyBegin, MqttTypeOK
      <4>5. UNCHANGED <<hasUri, setupDone, state, client, listening, status, mqttReady, armed,
                        subscribed, overlapped>>
        BY <2>2 DEF DestroyBegin
      <4> QED
        BY <4>2, <4>3, <4>4, <4>5 DEF MqttTypeOK
    <3> QED
      BY <3>1, <3>2
  <2>3. CASE DestroyEnd(p)
    BY <2>3 DEF DestroyEnd, callVars, MqttTypeOK
  <2>4. CASE ClearClient(p)
    BY <2>4 DEF ClearClient, callVars, MqttTypeOK
  <2>5. CASE InitClient(p)
    BY <2>5 DEF InitClient, callVars, MqttTypeOK
  <2>6. CASE RegisterEvents(p)
    BY <2>6 DEF RegisterEvents, ClientGone, MqttTypeOK
  <2>7. CASE StartClient(p)
    BY <2>7 DEF StartClient, Return, ClientGone, MqttTypeOK
  <2> QED
    BY <1>5, <2>1, <2>2, <2>3, <2>4, <2>5, <2>6, <2>7 DEF ConnectStep
<1>6. ASSUME NEW h \in Handle, Running /\ ClientStep(h) PROVE MqttTypeOK'
  BY <1>6 DEF ClientStep, ClientConnects, ClientSubscribes, ClientSubscribed, callVars,
              ClientAnnouncesUp, ClientFails, ClientAnnouncesDown, ClientStops, MqttTypeOK
<1>8. CASE Running /\ LateSubscribe
  BY <1>8 DEF LateSubscribe, MqttTypeOK
<1>7. CASE UNCHANGED vars
  BY <1>7 DEF vars, mqttOwnVars, connVars, callVars, MqttTypeOK
<1> QED
  BY <1>1, <1>2, <1>3, <1>4, <1>5, <1>6, <1>7, <1>8 DEF MqttNext

(* Every variable of the service keeps its type. *)
THEOREM MqttTypeCorrect == MqttSpec => []MqttTypeOK
<1>1. MqttInit => MqttTypeOK
  BY DEF MqttInit, MqttTypeOK
<1> QED
  BY <1>1, MqttTypeStep, PTL DEF MqttSpec

-----------------------------------------------------------------------------
(* A step of the loop that leaves the handler it is in, or that belongs to *)
(* another task, keeps LoopPc.                                             *)
THEOREM LoopPcStep == MqttTypeOK /\ LoopPc /\ [MqttNext]_vars => LoopPc'
<1> SUFFICES ASSUME MqttTypeOK, LoopPc, [MqttNext]_vars PROVE LoopPc'
  OBVIOUS
<1> USE CallerMembers, EventMembers, MqttEventMembers DEF LoopPc, InConnect
<1>1. CASE Running /\ WifiStep
  <2>1. pc' = pc
    BY <1>1 DEF WifiStep, mqttOwnVars, connVars, callVars
  <2>2. CASE current' = current
    BY <2>1, <2>2
  <2>3. CASE WifiTake \/ WifiHandler
    <3>1. current \notin {"WIFI_CONNECTED", "PUBLISH"}
      BY <2>3 DEF WifiTake, Take, WifiHandler, ConfigReady, StaStart, StaDisconnected,
                  StaRetry, GotIp, OpenConfig, SystemEvent
    <3> QED
      BY <2>1, <3>1
  <2> QED
    BY <1>1, <2>2, <2>3 DEF WifiStep, DriverStep, DriverStarted, Joined, LinkFails, Left,
                            AddressChanges, OtherTaskPosts, Post
<1>2. CASE Running /\ MqttHandler
  <2>1. CASE OnWifiConnected
    BY <2>1 DEF OnWifiConnected, Enter, Handling, wifiVars, loopVars, MqttTypeOK
  <2>2. CASE OnWifiDisconnected \/ OnMqttConnected \/ OnMqttDisconnectedWifiDown
             \/ OnMqttDisconnected \/ OnReady
    BY <2>2 DEF OnWifiDisconnected, OnMqttConnected, OnMqttDisconnectedWifiDown,
                OnMqttDisconnected, ArmTimer, OnReady, Handling, mqttOwnVars, connVars, callVars
  <2>3. CASE PublishCheck
    BY <2>3 DEF PublishCheck, Handling, MqttTypeOK
  <2>4. CASE PublishCall
    BY <2>4 DEF PublishCall, Return, MqttTypeOK
  <2> QED
    BY <1>2, <2>1, <2>2, <2>3, <2>4 DEF MqttHandler
<1>3. CASE Running /\ (LookupAnswered \/ SetupDone)
  BY <1>3 DEF LookupAnswered, SetupDone, Handling, wifiVars, loopVars, mqttOwnVars, connVars, callVars
<1>4. CASE Running /\ TimerFires
  BY <1>4 DEF TimerFires, Enter, wifiVars, loopVars, MqttTypeOK
<1>5. ASSUME NEW p \in Caller, Running /\ ConnectStep(p) PROVE LoopPc'
  BY <1>5 DEF ConnectStep, ConnectWithoutUri, DestroyBegin, DestroyEnd, ClearClient,
              InitClient, RegisterEvents, StartClient, Return, loopVars, MqttTypeOK
<1>6. ASSUME NEW h \in Handle, Running /\ ClientStep(h) PROVE LoopPc'
  BY <1>6 DEF ClientStep, ClientConnects, ClientSubscribes, ClientSubscribed,
              ClientAnnouncesUp, ClientFails, ClientAnnouncesDown, ClientStops, Post,
              wifiVars, loopVars
<1>8. CASE Running /\ LateSubscribe
  BY <1>8 DEF LateSubscribe, wifiVars, loopVars
<1>7. CASE UNCHANGED vars
  BY <1>7 DEF vars, wifiVars, loopVars, mqttOwnVars, connVars, callVars
<1> QED
  BY <1>1, <1>2, <1>3, <1>4, <1>5, <1>6, <1>7, <1>8 DEF MqttNext

LEMMA LoopPcInit == MqttInit => LoopPc
BY CallerMembers DEF MqttInit, LoopPc, InConnect

(* Every step of the composition is a step of WifiService or a stutter.    *)
THEOREM MqttStepIsWifiStep ==
  MqttTypeOK /\ LoopPc /\ [MqttNext]_vars => [WifiNext]_wifiVars
<1> SUFFICES ASSUME MqttTypeOK, LoopPc, [MqttNext]_vars PROVE [WifiNext]_wifiVars
  OBVIOUS
<1> USE CallerMembers, MqttEventMembers
<1>1. CASE Running /\ WifiStep
  BY <1>1 DEF WifiStep, WifiNext
<1>a. ASSUME current \in WifiStatus \cup AppEvent, UNCHANGED <<queue, dropped, wifiOwnVars>>,
             current' = NoEvent
      PROVE  WifiNext
  BY <1>a DEF WifiNext, OtherHandlerDone, Done
<1>b. ASSUME NEW e \in AppEvent, current \in WifiStatus \cup AppEvent, PostFromLoop(e),
             UNCHANGED wifiOwnVars, current' = NoEvent
      PROVE  WifiNext
  BY <1>b DEF WifiNext, OtherHandlerPosts
<1>2. CASE Running /\ MqttHandler
  <2>1. CASE OnWifiConnected
    BY <2>1 DEF OnWifiConnected
  <2>2. CASE OnWifiDisconnected \/ OnMqttDisconnectedWifiDown \/ OnMqttDisconnected
    BY <2>2, <1>a DEF OnWifiDisconnected, OnMqttDisconnectedWifiDown, OnMqttDisconnected, ArmTimer,
                      Handling, Done, WifiStatus
  <2>3. CASE OnMqttConnected \/ OnReady
    BY <2>3, <1>b DEF OnMqttConnected, OnReady, Handling, Done
  <2>4. CASE PublishCheck
    <3>1. CASE mqttReady \/ wifiReady \/ setupDone
      BY <2>4, <3>1 DEF PublishCheck, wifiVars, loopVars
    <3>2. CASE ~(mqttReady \/ wifiReady \/ setupDone)
      BY <2>4, <3>2, <1>a DEF PublishCheck, Handling, Done
    <3> QED
      BY <3>1, <3>2
  <2>5. CASE PublishCall
    BY <2>5, <1>a DEF PublishCall, Return, LoopPc
  <2> QED
    BY <1>2, <2>1, <2>2, <2>3, <2>4, <2>5 DEF MqttHandler
<1>3. CASE Running /\ (LookupAnswered \/ SetupDone)
  BY <1>3, <1>a DEF LookupAnswered, SetupDone, Handling, Done
<1>4. CASE Running /\ (TimerFires \/ LateSubscribe)
  BY <1>4 DEF TimerFires, LateSubscribe
<1>5. ASSUME NEW p \in Caller, Running /\ ConnectStep(p) PROVE [WifiNext]_wifiVars
  <2>1. CASE \/ DestroyBegin(p) \/ DestroyEnd(p) \/ ClearClient(p)
             \/ InitClient(p) \/ RegisterEvents(p)
    BY <2>1 DEF DestroyBegin, DestroyEnd, ClearClient, InitClient, RegisterEvents, wifiVars
  <2>2. CASE p = "loop" /\ (ConnectWithoutUri(p) \/ StartClient(p))
    <3>1. current \in WifiStatus
      BY <2>2 DEF ConnectWithoutUri, StartClient, LoopPc, InConnect, WifiStatus
    <3>2. CASE ConnectWithoutUri(p)
      BY <2>2, <3>1, <3>2, <1>b DEF ConnectWithoutUri, Return
    <3>3. CASE StartClient(p)
      BY <2>2, <3>1, <3>3, <1>a DEF StartClient, Return, wifiVars, loopVars
    <3> QED
      BY <2>2, <3>2, <3>3
  <2>3. CASE p = "timer" /\ ConnectWithoutUri(p)
    <3>1. OtherTaskPosts("DNS_CONFIG")
      BY <2>3 DEF ConnectWithoutUri, Return, OtherTaskPosts, Post
    <3> QED
      BY <3>1 DEF WifiNext
  <2>4. CASE p = "timer" /\ StartClient(p)
    BY <2>4 DEF StartClient, Return, wifiVars, loopVars
  <2> QED
    BY <1>5, <2>1, <2>2, <2>3, <2>4 DEF ConnectStep
<1>6. ASSUME NEW h \in Handle, Running /\ ClientStep(h) PROVE [WifiNext]_wifiVars
  <2>1. CASE \/ ClientConnects(h) \/ ClientSubscribes(h) \/ ClientSubscribed(h)
             \/ ClientFails(h) \/ ClientStops(h)
    BY <2>1 DEF ClientConnects, ClientSubscribes, ClientSubscribed, ClientFails, ClientStops
  <2>2. CASE ClientAnnouncesUp(h)
    BY <2>2 DEF ClientAnnouncesUp, OtherTaskPosts, WifiNext
  <2>3. CASE ClientAnnouncesDown(h)
    BY <2>3 DEF ClientAnnouncesDown, OtherTaskPosts, WifiNext
  <2> QED
    BY <1>6, <2>1, <2>2, <2>3 DEF ClientStep
<1>7. CASE UNCHANGED vars
  BY <1>7 DEF vars
<1> QED
  BY <1>1, <1>2, <1>3, <1>4, <1>5, <1>6, <1>7 DEF MqttNext

(* The composition implements WifiService: adding the MQTT service, its    *)
(* timer and its clients leaves every promise of WifiService standing.     *)
THEOREM MqttImplementsWifi == MqttSpec => WifiSpec
<1>1. MqttInit => WifiInit
  BY DEF MqttInit
<1> QED
  BY <1>1, LoopPcInit, LoopPcStep, MqttStepIsWifiStep, MqttTypeCorrect, PTL
     DEF MqttSpec, WifiSpec

-----------------------------------------------------------------------------
(***************************************************************************)
(* Handles.  FaultNeedsOverlap is not inductive: that a caller meets a     *)
(* handle that is being destroyed, freed or missing must be traced to what *)
(* another caller is doing.  Each part names that caller: a handle being   *)
(* destroyed has one that waits for its task, a freed handle left in       *)
(* _client has one about to clear it, a null _client has one about to      *)
(* create the next client, or there has never been one, and a client whose *)
(* events go nowhere has one about to register the handler.  Until two     *)
(* calls of connect() overlap there is no client but _client (Alone).      *)
(***************************************************************************)
StoppingHasCaller ==
  \A h \in Handle : stopping[h] => \E p \in Caller : pc[p] = "stopping" /\ victim[p] = h

VictimKnown == \A p \in Caller : pc[p] = "stopping" => victim[p] \in Handle

FreedHasCaller ==
  client # NULL /\ status[client] = "free" => \E p \in Caller : pc[p] = "clear"

NullHasCaller ==
  client = NULL =>
    \/ \E p \in Caller : pc[p] = "init"
    \/ /\ \A h \in Handle : status[h] = "free"
       /\ \A p \in Caller : pc[p] \notin {"register", "start"}
       /\ ~subscribed

SilentHasCaller ==
  client # NULL /\ status[client] # "free" /\ client \notin listening =>
    \E p \in Caller : pc[p] = "register"

Alone ==
  ~overlapped =>
    /\ ~(InConnect("loop") /\ InConnect("timer"))
    /\ \A h \in Handle : status[h] # "free" => h = client
    /\ (\E p \in Caller : pc[p] \in {"clear", "init"}) => \A h \in Handle : status[h] = "free"

HandleInv ==
  /\ StoppingHasCaller /\ VictimKnown /\ FreedHasCaller
  /\ NullHasCaller /\ SilentHasCaller /\ Alone

LEMMA HandleInit == MqttInit => HandleInv
BY CallerMembers
   DEF MqttInit, HandleInv, StoppingHasCaller, VictimKnown, FreedHasCaller, NullHasCaller,
       SilentHasCaller, Alone, InConnect

(* The steps of connect(), each of which moves one caller. *)
LEMMA HandleConnectStep ==
  ASSUME MqttTypeOK, LoopPc, HandleInv, NEW p \in Caller, ConnectStep(p)
  PROVE  HandleInv'
<1> USE CallerMembers, MqttAssumption DEF MqttTypeOK, HandleInv
<1>1. CASE ConnectWithoutUri(p)
  BY <1>1 DEF ConnectWithoutUri, Return, callVars, StoppingHasCaller, VictimKnown,
              FreedHasCaller, NullHasCaller, SilentHasCaller, Alone, InConnect
<1>2. CASE DestroyBegin(p)
  <2>1. StoppingHasCaller'
    BY <1>2 DEF DestroyBegin, StoppingHasCaller
  <2>2. VictimKnown'
    BY <1>2 DEF DestroyBegin, VictimKnown
  <2>3. FreedHasCaller' /\ SilentHasCaller'
    BY <1>2 DEF DestroyBegin, FreedHasCaller, SilentHasCaller
  <2>4. NullHasCaller'
    BY <1>2 DEF DestroyBegin, NullHasCaller
  <2>5. Alone'
    BY <1>2 DEF DestroyBegin, Alone, InConnect
  <2> QED
    BY <2>1, <2>2, <2>3, <2>4, <2>5
<1>3. CASE DestroyEnd(p)
  <2> DEFINE v == victim[p]
  <2>1. v \in Handle /\ status[v] \in {"created", "ended"}
    BY <1>3 DEF DestroyEnd, VictimKnown
  <2>2. StoppingHasCaller'
    BY <1>3 DEF DestroyEnd, StoppingHasCaller
  <2>3. VictimKnown'
    BY <1>3 DEF DestroyEnd, VictimKnown
  <2>4. FreedHasCaller'
    BY <1>3 DEF DestroyEnd, FreedHasCaller
  <2>5. NullHasCaller'
    BY <1>3, <2>1 DEF DestroyEnd, NullHasCaller, callVars
  <2>6. SilentHasCaller'
    BY <1>3, <2>1 DEF DestroyEnd, SilentHasCaller
  <2>7. Alone'
    BY <1>3, <2>1 DEF DestroyEnd, Alone, InConnect, callVars
  <2> QED
    BY <2>2, <2>3, <2>4, <2>5, <2>6, <2>7
<1>4. CASE ClearClient(p)
  BY <1>4 DEF ClearClient, callVars, StoppingHasCaller, VictimKnown, FreedHasCaller,
              NullHasCaller, SilentHasCaller, Alone, InConnect
<1>5. CASE InitClient(p)
  <2>1. PICK h \in Handle :
          status[h] = "free" /\ client' = h /\ status' = [status EXCEPT ![h] = "created"]
    BY <1>5 DEF InitClient
  <2>2. StoppingHasCaller' /\ VictimKnown'
    BY <1>5 DEF InitClient, StoppingHasCaller, VictimKnown
  <2>3. FreedHasCaller' /\ NullHasCaller' /\ SilentHasCaller'
    BY <1>5, <2>1 DEF InitClient, FreedHasCaller, NullHasCaller, SilentHasCaller
  <2>4. Alone'
    BY <1>5, <2>1 DEF InitClient, Alone, InConnect, callVars
  <2> QED
    BY <2>2, <2>3, <2>4
<1>6. CASE RegisterEvents(p)
  <2>1. StoppingHasCaller' /\ VictimKnown' /\ FreedHasCaller'
    BY <1>6 DEF RegisterEvents, StoppingHasCaller, VictimKnown, FreedHasCaller
  <2>2. NullHasCaller' /\ SilentHasCaller'
    BY <1>6 DEF RegisterEvents, ClientGone, NullHasCaller, SilentHasCaller
  <2>3. Alone'
    BY <1>6 DEF RegisterEvents, Alone, InConnect
  <2> QED
    BY <2>1, <2>2, <2>3
<1>7. CASE StartClient(p)
  <2>1. UNCHANGED <<client, listening, stopping, victim, subscribed, overlapped>>
    BY <1>7 DEF StartClient
  <2>2. \A h \in Handle : status'[h] = "free" <=> status[h] = "free"
    BY <1>7 DEF StartClient, ClientGone
  <2>3. pc[p] = "start" /\ (pc' = pc \/ (client # NULL /\ pc' = [pc EXCEPT ![p] = "idle"]))
    BY <1>7 DEF StartClient, Return, ClientGone
  <2>4. StoppingHasCaller' /\ VictimKnown'
    BY <2>1, <2>3 DEF StoppingHasCaller, VictimKnown
  <2>5. FreedHasCaller' /\ NullHasCaller' /\ SilentHasCaller'
    BY <2>1, <2>2, <2>3 DEF FreedHasCaller, NullHasCaller, SilentHasCaller
  <2>6. Alone'
    BY <2>1, <2>2, <2>3 DEF Alone, InConnect
  <2> QED
    BY <2>4, <2>5, <2>6
<1> QED
  BY <1>1, <1>2, <1>3, <1>4, <1>5, <1>6, <1>7 DEF ConnectStep

(* A caller enters connect(): from here on the calls may have overlapped. *)
LEMMA HandleEnterStep ==
  ASSUME MqttTypeOK, HandleInv, NEW p \in Caller, pc[p] = "idle", Enter(p),
         UNCHANGED <<client, listening, status, stopping, victim, subscribed>>
  PROVE  HandleInv'
<1> USE CallerMembers DEF MqttTypeOK, HandleInv, Enter
<1>1. StoppingHasCaller' /\ VictimKnown'
  BY DEF StoppingHasCaller, VictimKnown
<1>2. FreedHasCaller' /\ NullHasCaller' /\ SilentHasCaller'
  BY DEF FreedHasCaller, NullHasCaller, SilentHasCaller
<1>3. Alone'
  BY DEF Alone, InConnect
<1> QED
  BY <1>1, <1>2, <1>3

(* The steps of a client's task leave it a client. *)
LEMMA ClientKeeps ==
  ASSUME MqttTypeOK, NEW h \in Handle, ClientStep(h)
  PROVE  /\ status[h] # "free"
         /\ UNCHANGED <<client, listening, stopping, pc, victim, overlapped>>
         /\ \A g \in Handle : status'[g] = "free" <=> status[g] = "free"
<1> QED
  BY DEF ClientStep, ClientConnects, ClientSubscribes, ClientSubscribed, ClientAnnouncesUp,
         ClientFails, ClientAnnouncesDown, ClientStops, callVars, MqttTypeOK

THEOREM HandleStep == MqttTypeOK /\ LoopPc /\ HandleInv /\ [MqttNext]_vars => HandleInv'
<1> SUFFICES ASSUME MqttTypeOK, LoopPc, HandleInv, [MqttNext]_vars PROVE HandleInv'
  OBVIOUS
<1> USE CallerMembers
<1>a. ASSUME UNCHANGED <<client, listening, status, stopping, pc, victim, subscribed,
                         overlapped>>
      PROVE  HandleInv'
  BY <1>a DEF HandleInv, StoppingHasCaller, VictimKnown, FreedHasCaller, NullHasCaller,
              SilentHasCaller, Alone, InConnect
(* The publisher comes and goes. *)
<1>b. ASSUME UNCHANGED <<client, listening, status, stopping, victim, subscribed,
                         overlapped>>,
             pc["loop"] \in {"idle", "publish"}, NEW x \in {"idle", "publish"},
             pc' = [pc EXCEPT !["loop"] = x]
      PROVE  HandleInv'
  BY <1>b DEF MqttTypeOK, HandleInv, StoppingHasCaller, VictimKnown, FreedHasCaller,
              NullHasCaller, SilentHasCaller, Alone, InConnect
<1>1. CASE Running /\ WifiStep
  BY <1>1, <1>a DEF WifiStep, mqttOwnVars, connVars, callVars
<1>2. CASE Running /\ MqttHandler
  <2>1. CASE OnWifiConnected
    BY <2>1, HandleEnterStep DEF OnWifiConnected, Handling
  <2>2. CASE OnWifiDisconnected \/ OnMqttConnected \/ OnMqttDisconnectedWifiDown \/ OnReady
             \/ OnMqttDisconnected
    BY <2>2, <1>a DEF OnWifiDisconnected, OnMqttConnected, OnMqttDisconnectedWifiDown,
                      OnReady, OnMqttDisconnected, ArmTimer, mqttOwnVars, connVars, callVars
  <2>3. CASE PublishCheck
    BY <2>3, <1>a, <1>b DEF PublishCheck, Handling, callVars
  <2>4. CASE PublishCall
    BY <2>4, <1>b DEF PublishCall, Return
  <2> QED
    BY <1>2, <2>1, <2>2, <2>3, <2>4 DEF MqttHandler
<1>3. CASE Running /\ (LookupAnswered \/ SetupDone \/ LateSubscribe)
  BY <1>3, <1>a DEF LookupAnswered, SetupDone, LateSubscribe, mqttOwnVars, connVars, callVars
<1>4. CASE Running /\ TimerFires
  BY <1>4, HandleEnterStep DEF TimerFires
<1>5. ASSUME NEW p \in Caller, Running /\ ConnectStep(p) PROVE HandleInv'
  BY <1>5, HandleConnectStep
<1>6. ASSUME NEW h \in Handle, Running /\ ClientStep(h) PROVE HandleInv'
  <2>1. /\ status[h] # "free"
        /\ UNCHANGED <<client, listening, stopping, pc, victim, overlapped>>
        /\ \A g \in Handle : status'[g] = "free" <=> status[g] = "free"
    BY <1>6, ClientKeeps
  <2>2. StoppingHasCaller' /\ VictimKnown' /\ Alone'
    BY <2>1 DEF HandleInv, StoppingHasCaller, VictimKnown, Alone, InConnect
  <2>3. FreedHasCaller' /\ NullHasCaller' /\ SilentHasCaller'
    BY <2>1 DEF MqttTypeOK, HandleInv, FreedHasCaller, NullHasCaller, SilentHasCaller
  <2> QED
    BY <2>2, <2>3 DEF HandleInv
<1>7. CASE UNCHANGED vars
  BY <1>7, <1>a DEF vars, mqttOwnVars, connVars, callVars
<1> QED
  BY <1>1, <1>2, <1>3, <1>4, <1>5, <1>6, <1>7 DEF MqttNext

(* Once there has been a client, there is one while no one is in connect(). *)
LEMMA GoneNeedsConnect ==
  ASSUME MqttTypeOK, HandleInv, ClientGone
  PROVE  NoClient \/ \E p \in Caller : pc[p] \in {"init", "clear"}
BY DEF ClientGone, HandleInv, NullHasCaller, FreedHasCaller, NoClient

(* An esp-mqtt handle is misused only while calls of connect() overlap     *)
(* (MqttService.cpp:155-189, MqttService.h:143-178), by publishing before  *)
(* there is any client, by a consumer registered while connect() runs      *)
(* (MqttService.h:129), or by the task of a client that an earlier overlap *)
(* left behind (MqttService.cpp:60), again while connect() runs.           *)
THEOREM OverlapCorrect == MqttSpec => FaultNeedsOverlap
<1> DEFINE Cause == \/ Busy("loop") /\ Busy("timer")
                    \/ pc["loop"] = "publish" /\ NoClient
           Inside == \E p \in Caller : InConnect(p)
           Excused == /\ fault' \in Caller => Cause
                      /\ fault' = "registrar" => Inside
                      /\ fault' = "client" => overlapped /\ Inside
<1>1. MqttTypeOK /\ LoopPc /\ HandleInv /\ [MqttNext]_vars => [Excused]_vars
  <2> SUFFICES ASSUME MqttTypeOK, LoopPc, HandleInv, MqttNext, fault = "none",
                      fault' # fault
               PROVE  Excused
    BY DEF MqttNext, Running, MqttTypeOK, Caller
  <2> USE CallerMembers
  <2>1. \/ PublishCall
        \/ LateSubscribe
        \/ \E p \in Caller : DestroyBegin(p) \/ RegisterEvents(p) \/ StartClient(p)
        \/ \E h \in Handle : ClientSubscribes(h)
    BY DEF MqttNext, WifiStep, MqttHandler, LookupAnswered, SetupDone, TimerFires, ConnectStep,
           ClientStep, mqttOwnVars, connVars, callVars, OnWifiConnected, OnWifiDisconnected,
           OnMqttConnected, OnMqttDisconnectedWifiDown, OnMqttDisconnected, ArmTimer, OnReady,
           PublishCheck, ConnectWithoutUri, DestroyEnd, ClearClient, InitClient,
           ClientConnects, ClientSubscribed, ClientAnnouncesUp, ClientFails,
           ClientAnnouncesDown, ClientStops
  <2>2. CASE PublishCall
    <3>1. pc["loop"] = "publish" /\ ClientGone /\ fault' = "loop"
      BY <2>2 DEF PublishCall
    <3>2. Cause
      BY <3>1, GoneNeedsConnect DEF Busy
    <3> QED
      BY <3>1, <3>2
  <2>3. CASE LateSubscribe
    <3>1. subscribed /\ ClientGone /\ fault' = "registrar"
      BY <2>3 DEF LateSubscribe
    <3>2. \E p \in Caller : pc[p] \in {"init", "clear"}
      BY <3>1 DEF ClientGone, HandleInv, NullHasCaller, FreedHasCaller
    <3> QED
      BY <3>1, <3>2 DEF InConnect, Caller
  <2>4. ASSUME NEW p \in Caller, DestroyBegin(p) \/ RegisterEvents(p) \/ StartClient(p)
        PROVE  Excused
    <3>1. /\ fault' = p
          /\ pc[p] \in {"check", "register", "start"}
          /\ \/ client \in Handle /\ stopping[client]
             \/ ClientGone /\ (client = NULL => pc[p] # "check")
      BY <2>4 DEF DestroyBegin, RegisterEvents, StartClient, ClientGone, MqttTypeOK
    <3>2. \E q \in Caller : pc[q] \in {"stopping", "clear", "init"}
      BY <3>1 DEF ClientGone, HandleInv, StoppingHasCaller, FreedHasCaller, NullHasCaller
    <3>3. Cause
      BY <3>1, <3>2 DEF Busy
    <3> QED
      BY <3>1, <3>3 DEF Caller
  <2>5. ASSUME NEW h \in Handle, ClientSubscribes(h) PROVE Excused
    <3>1. status[h] = "subscribing" /\ ClientGone /\ fault' = "client"
      BY <2>5 DEF ClientSubscribes
    <3>2. \E p \in Caller : pc[p] \in {"init", "clear"}
      BY <3>1, GoneNeedsConnect DEF NoClient
    <3>3. overlapped
      BY <3>1, MqttAssumption DEF ClientGone, HandleInv, Alone, MqttTypeOK
    <3> QED
      BY <3>1, <3>2, <3>3 DEF InConnect, Caller
  <2> QED
    BY <2>1, <2>2, <2>3, <2>4, <2>5
<1> QED
  BY <1>1, HandleInit, HandleStep, LoopPcInit, LoopPcStep, MqttTypeCorrect, PTL
     DEF MqttSpec, FaultNeedsOverlap

-----------------------------------------------------------------------------
(***************************************************************************)
(* The attempt to reach the broker is never given up (AttemptNeverLost).   *)
(*                                                                         *)
(* The step that is not obvious is "Disconnected, waiting for wifi ready"  *)
(* (MqttService.cpp:209-212): it drops a disconnection because _state says *)
(* that WIFI_DISCONNECTED was handled last.  If the bit is set all the     *)
(* same, a WIFI_CONNECTED must be waiting.  That takes three facts about   *)
(* WifiService (WifiHeardInv), which the composition inherits, and one     *)
(* about _state (StateHeard).                                              *)
(***************************************************************************)

(* About WifiService. *)

(* A connection that was announced, and nothing after it. *)
ReadyAnnounced ==
  wifiReady /\ ~dropped =>
    \/ Latest(queue, WifiStatus, "WIFI_CONNECTED")
    \/ NonePending(queue, WifiStatus) /\ told = "WIFI_CONNECTED"

PausingUnready == pausing => ~wifiReady

HandlesTold == current \in WifiStatus => told = current

WifiHeardInv == PausingHandler /\ PausingUnready /\ HandlesTold /\ ReadyAnnounced

(* Taking the head leaves the youngest event of a kind, unless it was it. *)
LEMMA TakeLatest ==
  ASSUME NEW S, NEW q \in Seq(S), q # <<>>, NEW K, NEW x \in K, Latest(q, K, x)
  PROVE  Latest(Tail(q), K, x) \/ (Head(q) = x /\ NonePending(Tail(q), K))
<1> DEFINE t == Tail(q)
<1>1. /\ Len(q) \in Nat \ {0} /\ Len(t) = Len(q) - 1
      /\ \A i \in 1..Len(t) : t[i] = q[i + 1] /\ i + 1 \in 1..Len(q)
      /\ Head(q) = q[1]
  OBVIOUS
<1>2. PICK i \in 1..Len(q) : q[i] = x /\ \A j \in 1..Len(q) : j > i => q[j] \notin K
  BY DEF Latest
<1>3. CASE i = 1
  <2>1. \A j \in 1..Len(t) : t[j] \notin K
    BY <1>1, <1>2, <1>3
  <2> QED
    BY <1>1, <1>2, <1>3, <2>1 DEF NonePending
<1>4. CASE i > 1
  <2>1. i - 1 \in 1..Len(t) /\ t[i - 1] = x
    BY <1>1, <1>2, <1>4
  <2>2. \A j \in 1..Len(t) : j > i - 1 => t[j] \notin K
    BY <1>1, <1>2
  <2> QED
    BY <2>1, <2>2 DEF Latest
<1> QED
  BY <1>1, <1>3, <1>4

LEMMA HandlesToldStep == HandlesTold /\ [WifiNext]_wifiVars => HandlesTold'
BY EventMembers
   DEF HandlesTold, WifiNext, WifiHandler, DriverStep, WifiTake, Take, ConfigReady,
       StaStart, StaDisconnected, StaRetry, GotIp, OpenConfig, OtherHandlerPosts,
       OtherHandlerDone, OtherTaskPosts, DriverStarted, Joined, LinkFails, Left,
       AddressChanges, Post, Done, WifiStatus, wifiVars, loopVars, wifiOwnVars,
       SystemEvent, DriverEvent, Event

LEMMA PausingUnreadyStep ==
  PausingHandler /\ PausingUnready /\ [WifiNext]_wifiVars => PausingUnready'
BY DEF PausingHandler, PausingUnready, WifiNext, WifiHandler, DriverStep, WifiTake,
       ConfigReady, StaStart, StaDisconnected, StaRetry, GotIp, OpenConfig,
       OtherHandlerPosts, OtherHandlerDone, OtherTaskPosts, DriverStarted, Joined,
       LinkFails, Left, AddressChanges, wifiVars, wifiOwnVars

LEMMA ReadyAnnouncedStep ==
  WifiTypeOK /\ ReadyAnnounced /\ [WifiNext]_wifiVars => ReadyAnnounced'
<1> SUFFICES ASSUME WifiTypeOK, ReadyAnnounced, [WifiNext]_wifiVars, wifiReady', ~dropped'
             PROVE  ReadyAnnounced'
  BY DEF ReadyAnnounced
<1> DEFINE K == WifiStatus
<1> USE EventMembers
<1>a. ~dropped
  BY DroppedStays
<1>b. /\ "WIFI_CONNECTED" \in K
      /\ \A e \in DriverEvent \cup {"OPEN_CONFIG"} \cup AppEvent : e \in Event /\ e \notin K
  BY DEF WifiStatus, SystemEvent, DriverEvent
<1>c. ASSUME UNCHANGED <<wifiReady, told>>, UNCHANGED queue PROVE ReadyAnnounced'
  BY <1>a, <1>c DEF ReadyAnnounced
<1>d. ASSUME UNCHANGED <<wifiReady, told>>,
             NEW e \in DriverEvent \cup {"OPEN_CONFIG"} \cup AppEvent, Post(e) \/ PostFromLoop(e)
      PROVE  ReadyAnnounced'
  <2>1. /\ NonePending(queue', K) <=> NonePending(queue, K)
        /\ Latest(queue', K, "WIFI_CONNECTED") <=> Latest(queue, K, "WIFI_CONNECTED")
    BY <1>b, <1>d, PostOther
  <2> QED
    BY <1>a, <1>d, <2>1 DEF ReadyAnnounced
<1>1. CASE WifiTake
  <2>1. queue \in Seq(Event) /\ queue # <<>> /\ queue' = Tail(queue) /\ wifiReady
    BY <1>1 DEF WifiTake, Take, WifiTypeOK
  <2>2. CASE Latest(queue, K, "WIFI_CONNECTED")
    <3>1. \/ Latest(queue', K, "WIFI_CONNECTED")
          \/ Head(queue) = "WIFI_CONNECTED" /\ NonePending(queue', K)
      BY <1>b, <2>1, <2>2, TakeLatest
    <3> QED
      BY <1>1, <1>b, <3>1 DEF WifiTake, ReadyAnnounced
  <2>3. CASE NonePending(queue, K) /\ told = "WIFI_CONNECTED"
    <3>1. Len(queue) \in Nat \ {0} /\ Len(queue') = Len(queue) - 1 /\ Head(queue) = queue[1]
          /\ \A i \in 1..Len(queue') : queue'[i] = queue[i + 1] /\ i + 1 \in 1..Len(queue)
      BY <2>1
    <3>2. Head(queue) \notin K /\ NonePending(queue', K)
      BY <2>3, <3>1 DEF NonePending
    <3> QED
      BY <1>1, <2>3, <3>2 DEF WifiTake, ReadyAnnounced
  <2> QED
    BY <1>a, <2>1, <2>2, <2>3 DEF ReadyAnnounced
<1>2. CASE ConfigReady
  BY <1>2, <1>c, <1>d DEF ConfigReady
<1>3. CASE StaStart \/ OpenConfig
  BY <1>3, <1>c DEF StaStart, OpenConfig
<1>4. CASE StaDisconnected
  BY <1>4 DEF StaDisconnected
<1>5. CASE StaRetry
  BY <1>5, <1>c, <1>d DEF StaRetry
<1>6. CASE GotIp
  <2>1. Latest(queue', K, "WIFI_CONNECTED")
    BY <1>6, <1>b, PostSame DEF GotIp
  <2> QED
    BY <2>1 DEF ReadyAnnounced
<1>7. CASE DriverStep
  BY <1>7, <1>d DEF DriverStep, DriverStarted, Joined, LinkFails, Left, AddressChanges,
                    wifiOwnVars, DriverEvent
<1>8. ASSUME NEW e \in AppEvent, OtherHandlerPosts(e) \/ OtherTaskPosts(e)
      PROVE  ReadyAnnounced'
  BY <1>8, <1>d DEF OtherHandlerPosts, OtherTaskPosts, wifiOwnVars
<1>9. CASE OtherHandlerDone
  BY <1>9, <1>c DEF OtherHandlerDone, wifiOwnVars
<1>10. CASE UNCHANGED wifiVars
  BY <1>10, <1>c DEF wifiVars, loopVars, wifiOwnVars
<1> QED
  BY <1>1, <1>2, <1>3, <1>4, <1>5, <1>6, <1>7, <1>8, <1>9, <1>10
     DEF WifiNext, WifiHandler

THEOREM WifiHeardCorrect == WifiSpec => []WifiHeardInv
<1>1. WifiInit => WifiHeardInv
  BY EventMembers DEF WifiInit, LoopInit, WifiHeardInv, PausingHandler, PausingUnready,
                      HandlesTold, ReadyAnnounced, WifiStatus
<1>2. WifiTypeOK /\ WifiHeardInv /\ [WifiNext]_wifiVars => WifiHeardInv'
  BY PausingStep, PausingUnreadyStep, HandlesToldStep, ReadyAnnouncedStep DEF WifiHeardInv
<1> QED
  BY <1>1, <1>2, WifiTypeCorrect, PTL DEF WifiSpec

-----------------------------------------------------------------------------
(* _state is S_Wifi_Disconnected only when that is what was heard last.     *)
StateHeard ==
  state = "wifiDown" =>
    /\ ~InConnect("loop")
    /\ current # "WIFI_CONNECTED" => told = "WIFI_DISCONNECTED"

(* What has to be preserved with AttemptNeverLost, and what it may rest on. *)
AttemptInv == LoopPc /\ HandleInv /\ StateHeard /\ AttemptNeverLost
AttemptContext == MqttTypeOK /\ WifiTypeOK /\ WifiHeardInv

LEMMA StateHeardStep ==
  AttemptContext /\ LoopPc /\ StateHeard /\ [MqttNext]_vars => StateHeard'
<1> SUFFICES ASSUME AttemptContext, LoopPc, StateHeard, [MqttNext]_vars PROVE StateHeard'
  OBVIOUS
<1> USE CallerMembers, EventMembers, MqttEventMembers
    DEF StateHeard, InConnect, AttemptContext
(* The event stays or its handler ends, and the loop does not enter connect(). *)
<1>a. ASSUME UNCHANGED <<state, told>>, current' = current \/ current # "WIFI_CONNECTED",
             current' # "WIFI_CONNECTED" \/ current' = current,
             InConnect("loop")' => InConnect("loop")
      PROVE  StateHeard'
  BY <1>a
<1>1. CASE Running /\ WifiStep
  <2>1. UNCHANGED <<state, pc>>
    BY <1>1 DEF WifiStep, mqttOwnVars, connVars, callVars
  <2>2. CASE WifiTake
    <3>1. current = NoEvent /\ current' = Head(queue)
          /\ told' = IF Head(queue) \in WifiStatus THEN Head(queue) ELSE told
      BY <2>2 DEF WifiTake, Take
    <3> QED
      BY <2>1, <3>1 DEF WifiStatus
  <2>3. CASE WifiHandler
    <3>1. current # "WIFI_CONNECTED" /\ current' # "WIFI_CONNECTED" /\ told' = told
      BY <2>3 DEF WifiHandler, ConfigReady, StaStart, StaDisconnected, StaRetry, GotIp,
                  OpenConfig, Done
    <3> QED
      BY <1>a, <2>1, <3>1
  <2>4. CASE UNCHANGED <<current, told>>
    BY <1>a, <2>1, <2>4
  <2> QED
    BY <1>1, <2>2, <2>3, <2>4
       DEF WifiStep, DriverStep, DriverStarted, Joined, LinkFails, Left, AddressChanges,
           OtherTaskPosts, Post, wifiOwnVars
<1>2. CASE Running /\ MqttHandler
  <2>1. CASE OnWifiConnected
    BY <2>1 DEF OnWifiConnected
  <2>2. CASE OnWifiDisconnected
    <3>1. told' = "WIFI_DISCONNECTED" /\ pc' = pc /\ pc["loop"] = "idle"
      BY <2>2 DEF OnWifiDisconnected, Handling, WifiHeardInv, HandlesTold, WifiStatus,
                  wifiOwnVars, connVars
    <3> QED
      BY <3>1
  <2>3. CASE OnMqttConnected
    BY <2>3 DEF OnMqttConnected
  <2>4. CASE OnMqttDisconnected
    BY <2>4 DEF OnMqttDisconnected, ArmTimer
  <2>5. CASE OnMqttDisconnectedWifiDown \/ OnReady
    BY <1>a, <2>5 DEF OnMqttDisconnectedWifiDown, OnReady, Handling, Done, mqttOwnVars,
                      connVars, wifiOwnVars
  <2>6. CASE PublishCheck
    BY <1>a, <2>6 DEF PublishCheck, Handling, Done, wifiOwnVars, MqttTypeOK
  <2>7. CASE PublishCall
    BY <1>a, <2>7 DEF PublishCall, Return, LoopPc, wifiOwnVars, MqttTypeOK
  <2> QED
    BY <1>2, <2>1, <2>2, <2>3, <2>4, <2>5, <2>6, <2>7 DEF MqttHandler
<1>3. CASE Running /\ (LookupAnswered \/ SetupDone)
  BY <1>a, <1>3 DEF LookupAnswered, SetupDone, Handling, Done, wifiVars, loopVars, wifiOwnVars,
                    mqttOwnVars, connVars, callVars
<1>4. CASE Running /\ TimerFires
  BY <1>a, <1>4 DEF TimerFires, Enter, wifiVars, loopVars, wifiOwnVars, MqttTypeOK
<1>5. ASSUME NEW p \in Caller, Running /\ ConnectStep(p) PROVE StateHeard'
  <2>1. UNCHANGED <<state, told>> /\ InConnect(p)
    BY <1>5 DEF ConnectStep, ConnectWithoutUri, DestroyBegin, DestroyEnd, ClearClient,
                InitClient, RegisterEvents, StartClient, loopVars, wifiOwnVars
  <2>2. CASE p = "loop"
    BY <2>1, <2>2
  <2>3. CASE p = "timer"
    <3>1. current' = current /\ pc'["loop"] = pc["loop"]
      BY <1>5, <2>3 DEF ConnectStep, ConnectWithoutUri, DestroyBegin, DestroyEnd,
                        ClearClient, InitClient, RegisterEvents, StartClient, Return,
                        loopVars, MqttTypeOK
    <3> QED
      BY <1>a, <2>1, <3>1
  <2> QED
    BY <2>2, <2>3
<1>6. ASSUME NEW h \in Handle, Running /\ ClientStep(h) PROVE StateHeard'
  BY <1>a, <1>6 DEF ClientStep, ClientConnects, ClientSubscribes, ClientSubscribed,
                    ClientAnnouncesUp, ClientFails, ClientAnnouncesDown, ClientStops, Post,
                    wifiVars, loopVars, wifiOwnVars
<1>8. CASE Running /\ LateSubscribe
  BY <1>a, <1>8 DEF LateSubscribe, wifiVars, loopVars, wifiOwnVars
<1>7. CASE UNCHANGED vars
  BY <1>a, <1>7 DEF vars, wifiVars, loopVars, wifiOwnVars, mqttOwnVars, connVars, callVars
<1> QED
  BY <1>1, <1>2, <1>3, <1>4, <1>5, <1>6, <1>7, <1>8 DEF MqttNext

-----------------------------------------------------------------------------
(* A pending event stays pending unless it is the one the loop takes. *)
LEMMA PendingKept ==
  ASSUME WifiTypeOK, NEW K, [WifiNext]_wifiVars, ~NonePending(queue, K)
  PROVE  ~NonePending(queue', K) \/ (WifiTake /\ current' \in K)
<1> USE EventMembers
<1>1. CASE WifiTake
  <2>1. queue \in Seq(Event) /\ queue # <<>> /\ queue' = Tail(queue)
        /\ current' = Head(queue)
    BY <1>1 DEF WifiTake, Take, WifiTypeOK
  <2>2. NonePending(Tail(queue), K) /\ Head(queue) \notin K => NonePending(queue, K)
    BY <2>1, TakeHead
  <2> QED
    BY <1>1, <2>1, <2>2
<1>2. CASE UNCHANGED queue
  BY <1>2
<1>3. ASSUME NEW e \in Event, Post(e) \/ PostFromLoop(e) PROVE ~NonePending(queue', K)
  BY <1>3, PostKeeps
<1> QED
  BY <1>1, <1>2, <1>3
     DEF WifiNext, WifiHandler, ConfigReady, StaStart, StaDisconnected, StaRetry, GotIp,
         OpenConfig, DriverStep, DriverStarted, Joined, LinkFails, Left, AddressChanges,
         OtherHandlerPosts, OtherHandlerDone, OtherTaskPosts, wifiVars, loopVars

LEMMA AttemptStep ==
  AttemptContext /\ AttemptInv /\ [MqttNext]_vars => AttemptNeverLost'
<1> SUFFICES ASSUME AttemptContext, AttemptInv, [MqttNext]_vars,
                    hasUri', wifiReady', ~dropped', Running'
             PROVE  AttemptNeverLost'
  BY DEF AttemptNeverLost
<1> USE CallerMembers, EventMembers, MqttEventMembers DEF AttemptContext, AttemptInv
<1> DEFINE K == RetryEvent
           Pending == ~NonePending(queue, K)
           Connecting == InConnect("timer") \/ InConnect("loop")
<1>w. [WifiNext]_wifiVars
  BY MqttStepIsWifiStep
<1>a. ~dropped /\ Running
  <2>1. ~dropped
    BY <1>w, DroppedStays
  <2>2. Running
    BY DEF MqttNext, Running, vars, mqttOwnVars, connVars, callVars
  <2> QED
    BY <2>1, <2>2
<1>b. hasUri
  BY DEF MqttNext, WifiStep, MqttHandler, LookupAnswered, SetupDone, TimerFires, ConnectStep,
         ClientStep, mqttOwnVars, connVars, callVars, OnWifiConnected, OnWifiDisconnected,
         OnMqttConnected, OnMqttDisconnectedWifiDown, OnMqttDisconnected, ArmTimer, OnReady,
         PublishCheck, PublishCall, ConnectWithoutUri, DestroyBegin, DestroyEnd,
         ClearClient, InitClient, RegisterEvents, StartClient, LateSubscribe, ClientConnects,
         ClientSubscribes, ClientSubscribed, ClientAnnouncesUp, ClientFails,
         ClientAnnouncesDown, ClientStops, vars
(* What is pending now is pending afterwards, or is the current event. *)
<1>c. Pending => AttemptNeverLost'
  BY <1>w, PendingKept DEF AttemptNeverLost
<1>d. ASSUME NEW e \in K \cap Event, Post(e) \/ PostFromLoop(e) PROVE AttemptNeverLost'
  BY <1>d, PostSame DEF AttemptNeverLost
(* A step that leaves the bit, the client, the timer, connect() and an *)
(* event of the kind as they were.                                     *)
<1>e. ASSUME wifiReady, ClientAlive => ClientAlive', armed => armed',
             Connecting => Connecting', current \in K => current' \in K
      PROVE  AttemptNeverLost'
  BY <1>a, <1>b, <1>c, <1>e DEF AttemptNeverLost
<1>1. CASE Running /\ WifiStep
  <2>1. UNCHANGED <<state, client, status, armed, pc>>
    BY <1>1 DEF WifiStep, mqttOwnVars, connVars, callVars
  <2>2. (ClientAlive => ClientAlive') /\ (armed => armed') /\ (Connecting => Connecting')
    BY <2>1 DEF ClientAlive, InConnect
  <2>3. CASE WifiTake
    BY <1>e, <2>2, <2>3 DEF WifiTake, Take, RetryEvent, BitEvent
  <2>4. CASE ConfigReady \/ StaStart \/ OpenConfig
    BY <1>e, <2>2, <2>4 DEF ConfigReady, StaStart, OpenConfig, RetryEvent, BitEvent
  <2>5. CASE StaDisconnected
    BY <2>5 DEF StaDisconnected
  <2>6. CASE StaRetry
    BY <2>6 DEF StaRetry, WifiHeardInv, PausingUnready
  <2>7. CASE GotIp
    <3>1. "WIFI_CONNECTED" \in K \cap Event
      BY DEF RetryEvent
    <3> QED
      BY <1>d, <2>7, <3>1 DEF GotIp
  <2>8. CASE UNCHANGED <<wifiReady, current>>
    BY <1>e, <2>2, <2>8
  <2> QED
    BY <1>1, <2>3, <2>4, <2>5, <2>6, <2>7, <2>8
       DEF WifiStep, WifiHandler, DriverStep, DriverStarted, Joined, LinkFails, Left,
           AddressChanges, OtherTaskPosts, Post, wifiOwnVars
<1>2. CASE Running /\ MqttHandler
  <2>1. CASE OnWifiConnected
    BY <2>1 DEF OnWifiConnected, Enter, InConnect, MqttTypeOK, AttemptNeverLost
  <2>2. CASE OnWifiDisconnected \/ OnMqttConnected \/ OnReady
    BY <1>e, <2>2 DEF OnWifiDisconnected, OnMqttConnected, OnReady, Handling, wifiOwnVars,
                      mqttOwnVars, connVars, callVars, ClientAlive, InConnect, RetryEvent, BitEvent
  <2>3. CASE OnMqttDisconnectedWifiDown
    <3>1. told # "WIFI_CONNECTED" /\ wifiReady
      BY <2>3 DEF OnMqttDisconnectedWifiDown, Handling, StateHeard, wifiOwnVars
    <3>2. Latest(queue, WifiStatus, "WIFI_CONNECTED")
      BY <1>a, <3>1 DEF WifiHeardInv, ReadyAnnounced
    <3>3. Pending
      BY <3>2 DEF Latest, NonePending, RetryEvent
    <3> QED
      BY <1>c, <3>3
  <2>4. CASE OnMqttDisconnected
    BY <2>4 DEF OnMqttDisconnected, ArmTimer, AttemptNeverLost
  <2>5. CASE PublishCheck
    BY <1>e, <2>5 DEF PublishCheck, Handling, wifiOwnVars, ClientAlive, InConnect,
                      MqttTypeOK, RetryEvent, BitEvent
  <2>6. CASE PublishCall
    BY <1>e, <2>6 DEF PublishCall, Return, LoopPc, wifiOwnVars, ClientAlive, InConnect,
                      MqttTypeOK, RetryEvent, BitEvent
  <2> QED
    BY <1>2, <2>1, <2>2, <2>3, <2>4, <2>5, <2>6 DEF MqttHandler
<1>3. CASE Running /\ (LookupAnswered \/ SetupDone)
  <2>1. UNCHANGED <<wifiReady, client, status, armed, pc>>
    BY <1>3 DEF LookupAnswered, SetupDone, wifiVars, wifiOwnVars, mqttOwnVars, connVars, callVars
  <2>2. current \in K => current' \in K
    BY <1>3 DEF LookupAnswered, SetupDone, Handling, wifiVars, loopVars, RetryEvent, BitEvent
  <2> QED
    BY <1>a, <1>e, <2>1, <2>2 DEF ClientAlive, InConnect, AttemptNeverLost
<1>4. CASE Running /\ TimerFires
  BY <1>4 DEF TimerFires, Enter, InConnect, MqttTypeOK, AttemptNeverLost
<1>5. ASSUME NEW p \in Caller, Running /\ ConnectStep(p) PROVE AttemptNeverLost'
  <2>1. ~ConnectWithoutUri(p)
    BY <1>b DEF ConnectWithoutUri
  <2>2. CASE \/ DestroyBegin(p) \/ DestroyEnd(p) \/ ClearClient(p)
             \/ InitClient(p) \/ RegisterEvents(p)
    <3>1. InConnect(p)'
      BY <2>2 DEF DestroyBegin, DestroyEnd, ClearClient, InitClient, RegisterEvents,
                  InConnect, MqttTypeOK
    <3> QED
      BY <3>1 DEF AttemptNeverLost
  <2>3. CASE StartClient(p)
    <3>1. ~ClientGone
      BY <1>a, <2>3 DEF StartClient, Running, Caller
    <3>2. ClientAlive'
      BY <1>a, <2>3, <3>1 DEF StartClient, ClientGone, ClientAlive, Running, Caller, MqttTypeOK
    <3> QED
      BY <3>2 DEF AttemptNeverLost
  <2> QED
    BY <1>5, <2>1, <2>2, <2>3 DEF ConnectStep
<1>6. ASSUME NEW h \in Handle, Running /\ ClientStep(h) PROVE AttemptNeverLost'
  <2>1. UNCHANGED <<wifiReady, client, armed, pc, current>>
    BY <1>6 DEF ClientStep, ClientConnects, ClientSubscribes, ClientSubscribed,
                ClientAnnouncesUp, ClientFails, ClientAnnouncesDown, ClientStops, Post,
                wifiVars, loopVars, wifiOwnVars
  <2>a. ASSUME NEW p \in Caller, InConnect(p) PROVE AttemptNeverLost'
    BY <2>1, <2>a DEF AttemptNeverLost, InConnect
  <2>2. CASE \/ ClientConnects(h) \/ ClientSubscribes(h) \/ ClientSubscribed(h)
             \/ ClientAnnouncesUp(h) \/ (ClientFails(h) /\ h \in listening)
    <3>1. ClientAlive => ClientAlive'
      BY <2>1, <2>2 DEF ClientConnects, ClientSubscribes, ClientSubscribed,
                        ClientAnnouncesUp, ClientFails, ClientAlive, MqttTypeOK
    <3> QED
      BY <1>e, <2>1, <3>1 DEF InConnect
  <2>3. CASE ClientFails(h) /\ h \notin listening
    <3>1. CASE h = client
      <4>1. client # NULL /\ status[client] # "free"
        BY <2>3, <3>1, MqttAssumption DEF ClientFails
      <4>2. PICK p \in Caller : pc[p] = "register"
        BY <2>3, <3>1, <4>1 DEF HandleInv, SilentHasCaller
      <4> QED
        BY <2>a, <4>2 DEF InConnect
    <3>2. CASE h # client
      <4>1. ClientAlive => ClientAlive'
        BY <2>1, <2>3, <3>2 DEF ClientFails, ClientAlive, MqttTypeOK
      <4> QED
        BY <1>e, <2>1, <4>1 DEF InConnect
    <3> QED
      BY <3>1, <3>2
  <2>4. CASE ClientAnnouncesDown(h)
    BY <1>d, <2>4 DEF ClientAnnouncesDown, RetryEvent
  <2>5. CASE ClientStops(h)
    <3>1. PICK p \in Caller : pc[p] = "stopping"
      BY <2>5 DEF ClientStops, HandleInv, StoppingHasCaller
    <3> QED
      BY <2>a, <3>1 DEF InConnect
  <2> QED
    BY <1>6, <2>2, <2>3, <2>4, <2>5 DEF ClientStep
<1>8. CASE Running /\ LateSubscribe
  BY <1>e, <1>8 DEF LateSubscribe, wifiVars, loopVars, wifiOwnVars, ClientAlive, InConnect
<1>7. CASE UNCHANGED vars
  BY <1>e, <1>7 DEF vars, wifiVars, loopVars, wifiOwnVars, mqttOwnVars, connVars, callVars,
                    ClientAlive, InConnect
<1> QED
  BY <1>1, <1>2, <1>3, <1>4, <1>5, <1>6, <1>7, <1>8 DEF MqttNext

(* While the station has an address, a client is trying or connected, or   *)
(* an event, the timer or a connect() under way leads to one, whatever the *)
(* order of the three tasks, unless a post of the loop was lost.           *)
THEOREM AttemptCorrect == MqttSpec => []AttemptNeverLost
<1>1. MqttInit => AttemptInv
  <2> SUFFICES ASSUME MqttInit PROVE AttemptInv
    OBVIOUS
  <2>1. StateHeard
    BY CallerMembers DEF MqttInit, WifiInit, StateHeard, InConnect
  <2>2. AttemptNeverLost
    BY DEF MqttInit, WifiInit, AttemptNeverLost
  <2> QED
    BY <2>1, <2>2, HandleInit, LoopPcInit DEF AttemptInv
<1>2. AttemptContext /\ AttemptInv /\ [MqttNext]_vars => AttemptInv'
  <2> SUFFICES ASSUME AttemptContext, AttemptInv, [MqttNext]_vars PROVE AttemptInv'
    OBVIOUS
  <2>1. MqttTypeOK /\ LoopPc /\ HandleInv /\ StateHeard
    BY DEF AttemptContext, AttemptInv
  <2> QED
    BY <2>1, LoopPcStep, HandleStep, StateHeardStep, AttemptStep DEF AttemptInv
<1>3. MqttSpec => []AttemptContext
  BY MqttTypeCorrect, MqttImplementsWifi, WifiTypeCorrect, WifiHeardCorrect, PTL
     DEF AttemptContext
<1>4. AttemptInv => AttemptNeverLost
  BY DEF AttemptInv
<1> QED
  BY <1>1, <1>2, <1>3, <1>4, PTL DEF MqttSpec

=============================================================================
