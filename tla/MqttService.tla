---------------------------- MODULE MqttService ----------------------------
(***************************************************************************)
(* The connection side of MqttService (src/system/mqtt/MqttService.cpp),   *)
(* composed with WifiService on the same system loop.                      *)
(*                                                                         *)
(* Three kinds of task meet here: the loop, which runs onEvent() and the   *)
(* publishers; the timer task, which runs the callback of _reconTimer; and *)
(* the task of each esp-mqtt client, which runs eventHandler().  connect() *)
(* is called by the first two without any lock, so it is cut into steps,   *)
(* as are the handlers that read an event bit before they act.             *)
(*                                                                         *)
(* esp-mqtt is external: a client is its handle, what its task is doing    *)
(* and whether the task's events reach eventHandler().                     *)
(* esp_mqtt_client_destroy() stops the task, waits until it has ended and  *)
(* frees the handle; esp_mqtt_client_start() does nothing on a client that *)
(* is running.  A call on a freed or null handle is undefined behaviour:   *)
(* fault says who made it, and the model goes no further, as nothing can   *)
(* be said about the program after it.                                     *)
(***************************************************************************)
EXTENDS WifiService

CONSTANTS
  Handle,   (* handles esp_mqtt_client_init() can return; a freed one is reused *)
  NULL,     (* nullptr                                                          *)
  UserEvent (* events that tasks of the application post: {"PUBLISH"} or none   *)

(* Events of this service, of its users and of ConfigurationService, which *)
(* pass through the same loop.  PUBLISH is any event with a publisher.     *)
MqttEvent == {"MQTT_CONNECTED", "MQTT_DISCONNECTED", "READY", "PUBLISH", "DNS_CONFIG"}
Caller == {"loop", "timer"}

ASSUME MqttAssumption ==
  /\ AppEvent = MqttEvent
  /\ UserEvent \subseteq {"PUBLISH"}
  /\ NULL \notin Handle

VARIABLES
  hasUri,    (* _mqttProperties.uri is not empty; constant after setup          *)
  state,     (* _state                                                          *)
  client,    (* _client                                                         *)
  listening, (* handles with which eventHandler() is registered                 *)
  status,    (* of each handle: what its client's task does                     *)
  stopping,  (* of each handle: esp_mqtt_client_destroy() waits for its task    *)
  mqttReady, (* the SYS_MQTT_READY bit                                          *)
  setupDone, (* the SYS_SETUP_DONE bit, set once by the main task               *)
  armed,     (* _reconTimer is running                                          *)
  pc,        (* of each caller of connect(): where it is                        *)
  victim,    (* of each caller: the handle it passed to esp_mqtt_client_destroy *)
  subscribed,(* _subscribed                                                     *)
  overlapped,(* history: both callers have been inside connect() at once        *)
  fault      (* who called esp-mqtt with a freed or null handle, or "none"      *)

callVars == <<subscribed, overlapped, fault>>
connVars == <<client, listening, status, stopping, mqttReady, armed, pc, victim, callVars>>
mqttOwnVars == <<hasUri, state, setupDone, connVars>>
vars == <<wifiVars, mqttOwnVars>>

MqttTypeOK ==
  /\ hasUri \in BOOLEAN
  /\ state \in {"wifiDown", "waiting", "connected", "disconnected"}
  /\ client \in Handle \cup {NULL}
  /\ listening \subseteq Handle
  /\ status \in [Handle -> {"free", "created", "connecting", "subscribing", "announcingUp",
                            "connected", "unheard", "announcingDown", "ended"}]
  /\ stopping \in [Handle -> BOOLEAN]
  /\ mqttReady \in BOOLEAN
  /\ setupDone \in BOOLEAN
  /\ armed \in BOOLEAN
  /\ pc \in [Caller -> {"idle", "check", "stopping", "clear", "init", "register", "start",
                        "publish"}]
  /\ victim \in [Caller -> Handle \cup {NULL}]
  /\ subscribed \in BOOLEAN
  /\ overlapped \in BOOLEAN
  /\ fault \in Caller \cup {"client", "registrar", "none"}

MqttInit ==
  /\ WifiInit
  /\ hasUri \in BOOLEAN
  /\ state = "wifiDown"
  /\ client = NULL
  /\ listening = {}
  /\ status = [h \in Handle |-> "free"]
  /\ stopping = [h \in Handle |-> FALSE]
  /\ mqttReady = FALSE
  /\ setupDone \in BOOLEAN (* the main task may have run on before the loop *)
  /\ armed = FALSE
  /\ pc = [p \in Caller |-> "idle"]
  /\ victim = [p \in Caller |-> NULL]
  /\ subscribed = FALSE
  /\ overlapped = FALSE
  /\ fault = "none"

(* Nothing runs once a handle has been misused. *)
Running == fault = "none"

(* An esp-mqtt call on _client would be made on nothing. *)
ClientGone == client = NULL \/ status[client] = "free"

-----------------------------------------------------------------------------
(* connect() and destroyConnection(), on the loop or on the timer task.      *)

(* connect() returns; on the loop it was the last thing its handler did. *)
Return(p) ==
  /\ pc' = [pc EXCEPT ![p] = "idle"]
  /\ current' = IF p = "loop" THEN NoEvent ELSE current

(* Without a broker address, ask ConfigurationService to look one up. *)
ConnectWithoutUri(p) ==
  /\ pc[p] = "check" /\ ~hasUri
  /\ IF p = "loop"
     THEN PostFromLoop("DNS_CONFIG")
     ELSE HasRoom /\ queue' = Append(queue, "DNS_CONFIG") /\ UNCHANGED dropped
  /\ Return(p)
  /\ UNCHANGED <<wifiOwnVars, hasUri, setupDone, state, client, listening, status,
                 stopping, mqttReady, armed, victim, callVars>>

(* destroyConnection() reads _client; a handle that is being destroyed, or  *)
(* has been freed, by the other caller must not be destroyed again.         *)
DestroyBegin(p) ==
  /\ pc[p] = "check" /\ hasUri
  /\ IF client = NULL
     THEN pc' = [pc EXCEPT ![p] = "init"] /\ UNCHANGED <<victim, stopping, fault>>
     ELSE /\ pc' = [pc EXCEPT ![p] = "stopping"]
          /\ victim' = [victim EXCEPT ![p] = client]
          /\ stopping' = [stopping EXCEPT ![client] = TRUE]
          /\ fault' = IF stopping[client] \/ ClientGone THEN p ELSE fault
  /\ UNCHANGED <<loopVars, wifiOwnVars, hasUri, setupDone, state, client, listening,
                 status, mqttReady, armed, subscribed, overlapped>>

(* Mutant: the freed handle stays in _client, and connect() ends there. *)
DestroyEndKeepsClient(p) ==
  /\ pc[p] = "stopping" /\ status[victim[p]] \in {"created", "ended"}
  /\ status' = [status EXCEPT ![victim[p]] = "free"]
  /\ listening' = listening \ {victim[p]}
  /\ stopping' = [stopping EXCEPT ![victim[p]] = FALSE]
  /\ victim' = [victim EXCEPT ![p] = NULL]
  /\ Return(p)
  /\ UNCHANGED <<queue, dropped, wifiOwnVars, hasUri, setupDone, state, client,
                 mqttReady, armed, callVars>>

(* No task of the client runs: esp_mqtt_client_destroy() frees the handle. *)
DestroyEnd(p) ==
  /\ pc[p] = "stopping" /\ status[victim[p]] \in {"created", "ended"}
  /\ status' = [status EXCEPT ![victim[p]] = "free"]
  /\ listening' = listening \ {victim[p]}
  /\ stopping' = [stopping EXCEPT ![victim[p]] = FALSE]
  /\ victim' = [victim EXCEPT ![p] = NULL]
  /\ pc' = [pc EXCEPT ![p] = "clear"]
  /\ UNCHANGED <<loopVars, wifiOwnVars, hasUri, setupDone, state, client, mqttReady,
                 armed, callVars>>

ClearClient(p) ==
  /\ pc[p] = "clear"
  /\ client' = NULL
  /\ pc' = [pc EXCEPT ![p] = "init"]
  /\ UNCHANGED <<loopVars, wifiOwnVars, hasUri, setupDone, state, listening, status,
                 stopping, mqttReady, armed, victim, callVars>>

(* _client = esp_mqtt_client_init(): what the other caller put there is lost. *)
InitClient(p) ==
  /\ pc[p] = "init"
  /\ \E h \in Handle :
       /\ status[h] = "free"
       /\ client' = h
       /\ status' = [status EXCEPT ![h] = "created"]
  /\ pc' = [pc EXCEPT ![p] = "register"]
  /\ UNCHANGED <<loopVars, wifiOwnVars, hasUri, setupDone, state, listening, stopping,
                 mqttReady, armed, victim, callVars>>

(* esp_mqtt_client_register_event(_client), which may be the other's by now. *)
RegisterEvents(p) ==
  /\ pc[p] = "register"
  /\ IF ClientGone
     THEN fault' = p /\ UNCHANGED <<listening, pc>>
     ELSE /\ listening' = listening \cup {client}
          /\ pc' = [pc EXCEPT ![p] = "start"]
          /\ UNCHANGED fault
  /\ UNCHANGED <<loopVars, wifiOwnVars, hasUri, setupDone, state, client, status,
                 stopping, mqttReady, armed, victim, subscribed, overlapped>>

(* esp_mqtt_client_start(_client): a task, unless one is running.  A client *)
(* without a task that is being destroyed must not get one.                 *)
StartClient(p) ==
  /\ pc[p] = "start"
  /\ IF ClientGone \/ (stopping[client] /\ status[client] \in {"created", "ended"})
     THEN fault' = p /\ UNCHANGED <<status, pc, current>>
     ELSE /\ status' = IF status[client] \in {"created", "ended"}
                       THEN [status EXCEPT ![client] = "connecting"] ELSE status
          /\ Return(p)
          /\ UNCHANGED fault
  /\ UNCHANGED <<queue, dropped, wifiOwnVars, hasUri, setupDone, state, client, listening,
                 stopping, mqttReady, armed, victim, subscribed, overlapped>>

ConnectStep(p) ==
  \/ ConnectWithoutUri(p)
  \/ DestroyBegin(p)
  \/ DestroyEnd(p)
  \/ ClearClient(p)
  \/ InitClient(p)
  \/ RegisterEvents(p)
  \/ StartClient(p)

(* p is inside connect(). *)
InConnect(p) == pc[p] \in {"check", "stopping", "clear", "init", "register", "start"}

(* p calls connect(); the other caller may be inside it. *)
Enter(p) ==
  /\ pc' = [pc EXCEPT ![p] = "check"]
  /\ overlapped' = (overlapped \/ \E q \in Caller : InConnect(q))

(* _reconTimer.attach(): a timer that is running is replaced by a new one.  *)
ArmTimer == armed' = TRUE

(* _reconTimer expires; its callback runs connect() on the timer task.      *)
TimerFires ==
  /\ armed /\ pc["timer"] = "idle"
  /\ armed' = FALSE
  /\ Enter("timer")
  /\ UNCHANGED <<wifiVars, hasUri, setupDone, state, client, listening, status, stopping,
                 mqttReady, victim, subscribed, fault>>

-----------------------------------------------------------------------------
(* onEvent(SystemEventChanged), on the loop.                                 *)

Handling(e) == current = e /\ pc["loop"] = "idle"

(* Mutant: with a client there already, nothing is done. *)
OnWifiConnectedOnce ==
  /\ Handling("WIFI_CONNECTED")
  /\ state' = "waiting"
  /\ IF client = NULL THEN Enter("loop") /\ UNCHANGED current
     ELSE Done /\ UNCHANGED <<pc, overlapped>>
  /\ UNCHANGED <<queue, dropped, wifiOwnVars, hasUri, setupDone, client, listening,
                 status, stopping, mqttReady, armed, victim, subscribed, fault>>

OnWifiConnected ==
  /\ Handling("WIFI_CONNECTED")
  /\ state' = "waiting"
  /\ Enter("loop")
  /\ UNCHANGED <<wifiVars, hasUri, setupDone, client, listening, status, stopping,
                 mqttReady, armed, victim, subscribed, fault>>

OnWifiDisconnected ==
  /\ Handling("WIFI_DISCONNECTED")
  /\ state' = "wifiDown"
  /\ Done
  /\ UNCHANGED <<queue, dropped, wifiOwnVars, hasUri, setupDone, connVars>>

(* Mutant: the state is taken from the bits, an undeclared value of _state. *)
OnMqttConnectedFromBits ==
  /\ Handling("MQTT_CONNECTED")
  /\ state' = IF mqttReady THEN "connected" ELSE "none"
  /\ PostFromLoop("READY")
  /\ Done
  /\ UNCHANGED <<wifiOwnVars, hasUri, setupDone, connVars>>

OnMqttConnected ==
  /\ Handling("MQTT_CONNECTED")
  /\ state' = "connected"
  /\ PostFromLoop("READY")
  /\ Done
  /\ UNCHANGED <<wifiOwnVars, hasUri, setupDone, connVars>>

(* "Disconnected, waiting for wifi ready": WIFI_CONNECTED will reconnect.    *)
OnMqttDisconnectedWifiDown ==
  /\ Handling("MQTT_DISCONNECTED") /\ state = "wifiDown"
  /\ Done
  /\ UNCHANGED <<queue, dropped, wifiOwnVars, mqttOwnVars>>

(* Mutant: the timer is armed only for a connection that had been up. *)
OnMqttDisconnectedIfConnected ==
  /\ Handling("MQTT_DISCONNECTED") /\ state # "wifiDown"
  /\ wifiReady
  /\ armed' = (armed \/ state = "connected")
  /\ state' = "disconnected"
  /\ Done
  /\ UNCHANGED <<queue, dropped, wifiOwnVars, hasUri, setupDone, client, listening,
                 status, stopping, mqttReady, pc, victim, callVars>>

(* Mutant: xEventGroupWaitBits() clears the bit it waited for. *)
OnMqttDisconnectedTakesBit ==
  /\ Handling("MQTT_DISCONNECTED") /\ state # "wifiDown"
  /\ wifiReady /\ wifiReady' = FALSE
  /\ ArmTimer
  /\ state' = "disconnected"
  /\ Done
  /\ UNCHANGED <<queue, dropped, configured, driver, leaving, retryCount, pausing,
                 told, hasUri, setupDone, client, listening, status, stopping, mqttReady,
                 pc, victim, callVars>>

(* Wait on the loop for SYS_WIFI_READY, without limit, then arm the timer.   *)
OnMqttDisconnected ==
  /\ Handling("MQTT_DISCONNECTED") /\ state # "wifiDown"
  /\ wifiReady
  /\ ArmTimer
  /\ state' = "disconnected"
  /\ Done
  /\ UNCHANGED <<queue, dropped, wifiOwnVars, hasUri, setupDone, client, listening,
                 status, stopping, mqttReady, pc, victim, callVars>>

(* The application reports its version when the system is ready.             *)
OnReady ==
  /\ Handling("READY")
  /\ PostFromLoop("PUBLISH")
  /\ Done
  /\ UNCHANGED <<wifiOwnVars, mqttOwnVars>>

(* The subscriber of registerEventPublisher: look at the bits, then publish. *)
(* xEventGroupWaitBits() with no time to wait returns the whole group, which *)
(* the code takes for a truth value: any bit of it lets the message through. *)
PublishCheck ==
  /\ Handling("PUBLISH")
  /\ IF mqttReady \/ wifiReady \/ setupDone
     THEN pc' = [pc EXCEPT !["loop"] = "publish"] /\ UNCHANGED current
     ELSE Done /\ UNCHANGED pc
  /\ UNCHANGED <<queue, dropped, wifiOwnVars, hasUri, setupDone, state, client,
                 listening, status, stopping, mqttReady, armed, victim, callVars>>

PublishCall ==
  /\ pc["loop"] = "publish"
  /\ fault' = IF ClientGone THEN "loop" ELSE fault
  /\ Return("loop")
  /\ UNCHANGED <<queue, dropped, wifiOwnVars, hasUri, setupDone, state, client,
                 listening, status, stopping, mqttReady, armed, victim, subscribed,
                 overlapped>>

(* ConfigurationService::onEvent(SystemLookupDnsConfig): poll on the loop    *)
(* until the service answers; its address is not used.                       *)
LookupAnswered ==
  /\ Handling("DNS_CONFIG")
  /\ Done
  /\ UNCHANGED <<queue, dropped, wifiOwnVars, mqttOwnVars>>

MqttHandler ==
  \/ OnWifiConnected \/ OnWifiDisconnected \/ OnMqttConnected
  \/ OnMqttDisconnectedWifiDown \/ OnMqttDisconnected
  \/ OnReady \/ PublishCheck \/ PublishCall

-----------------------------------------------------------------------------
(* The task of client h runs eventHandler(), if it is registered by then.    *)

(* MQTT_EVENT_CONNECTED: set the bit, subscribe, then post. *)
ClientConnects(h) ==
  /\ status[h] = "connecting" /\ driver = "up"
  /\ \/ /\ h \in listening
        /\ status' = [status EXCEPT ![h] = "subscribing"]
        /\ mqttReady' = TRUE
     \/ /\ h \notin listening
        /\ status' = [status EXCEPT ![h] = "unheard"]
        /\ UNCHANGED mqttReady
  /\ UNCHANGED <<wifiVars, hasUri, setupDone, state, client, listening, stopping, armed,
                 pc, victim, callVars>>

(* _subscribe() of one of the consumers, on _client, whichever that is now. *)
ClientSubscribes(h) ==
  /\ status[h] = "subscribing"
  /\ fault' = IF ClientGone THEN "client" ELSE fault
  /\ UNCHANGED <<wifiVars, hasUri, setupDone, state, client, listening, status, stopping,
                 mqttReady, armed, pc, victim, subscribed, overlapped>>

ClientSubscribed(h) ==
  /\ status[h] = "subscribing"
  /\ status' = [status EXCEPT ![h] = "announcingUp"]
  /\ subscribed' = TRUE
  /\ UNCHANGED <<wifiVars, hasUri, setupDone, state, client, listening, stopping,
                 mqttReady, armed, pc, victim, overlapped, fault>>

ClientAnnouncesUp(h) ==
  /\ status[h] = "announcingUp"
  /\ Post("MQTT_CONNECTED")
  /\ status' = [status EXCEPT ![h] = "connected"]
  /\ UNCHANGED <<wifiOwnVars, hasUri, setupDone, state, client, listening, stopping,
                 mqttReady, armed, pc, victim, callVars>>

(* MQTT_EVENT_DISCONNECTED, of an attempt or of a connection: clear the bit, *)
(* then post; with disable_auto_reconnect the task ends after that.          *)
ClientFails(h) ==
  /\ status[h] \in {"connecting", "connected", "unheard"}
  /\ \/ /\ h \in listening
        /\ status' = [status EXCEPT ![h] = "announcingDown"]
        /\ mqttReady' = FALSE
     \/ /\ h \notin listening
        /\ status' = [status EXCEPT ![h] = "ended"]
        /\ UNCHANGED mqttReady
  /\ UNCHANGED <<wifiVars, hasUri, setupDone, state, client, listening, stopping, armed,
                 pc, victim, callVars>>

ClientAnnouncesDown(h) ==
  /\ status[h] = "announcingDown"
  /\ Post("MQTT_DISCONNECTED")
  /\ status' = [status EXCEPT ![h] = "ended"]
  /\ UNCHANGED <<wifiOwnVars, hasUri, setupDone, state, client, listening, stopping,
                 mqttReady, armed, pc, victim, callVars>>

(* A task asked to stop leaves its loop without any event. *)
ClientStops(h) ==
  /\ stopping[h] /\ status[h] \in {"connecting", "connected", "unheard"}
  /\ status' = [status EXCEPT ![h] = "ended"]
  /\ UNCHANGED <<wifiVars, hasUri, setupDone, state, client, listening, stopping,
                 mqttReady, armed, pc, victim, callVars>>

ClientStep(h) ==
  \/ ClientConnects(h) \/ ClientSubscribes(h) \/ ClientSubscribed(h)
  \/ ClientAnnouncesUp(h)
  \/ ClientFails(h) \/ ClientAnnouncesDown(h)
  \/ ClientStops(h)

(* registerEventConsumer() on another task, once _subscribed is set. *)
LateSubscribe ==
  /\ subscribed
  /\ fault' = IF ClientGone THEN "registrar" ELSE fault
  /\ UNCHANGED <<wifiVars, hasUri, setupDone, state, client, listening, status, stopping,
                 mqttReady, armed, pc, victim, subscribed, overlapped>>

-----------------------------------------------------------------------------
(* WifiService, the driver and the users of the bus. *)
WifiStep ==
  /\ \/ WifiTake \/ WifiHandler \/ DriverStep
     \/ \E e \in UserEvent : OtherTaskPosts(e)
  /\ UNCHANGED mqttOwnVars

(* Application::setup() has posted SystemConfigReady and returns. *)
SetupDone ==
  /\ ~setupDone /\ setupDone' = TRUE
  /\ UNCHANGED <<wifiVars, hasUri, state, connVars>>

MqttNext ==
  \/ Running /\ WifiStep
  \/ Running /\ MqttHandler
  \/ Running /\ LookupAnswered
  \/ Running /\ SetupDone
  \/ Running /\ TimerFires
  \/ \E p \in Caller : Running /\ ConnectStep(p)
  \/ \E h \in Handle : Running /\ ClientStep(h)
  \/ Running /\ LateSubscribe

MqttSpec == MqttInit /\ [][MqttNext]_vars

(* One step of the loop's task; that a look-up is answered is not assumed. *)
LoopRuns ==
  \/ (WifiTake \/ WifiHandler) /\ UNCHANGED mqttOwnVars
  \/ MqttHandler
  \/ ConnectStep("loop")

(* One step of the timer's task. *)
TimerRuns == TimerFires \/ ConnectStep("timer")

(* The driver answers a start, a disconnection or an attempt. *)
DriverRuns == (DriverStarted \/ Left \/ AttemptAnswered) /\ UNCHANGED mqttOwnVars

(* One step of a client's task; a connection that is up need not fail. *)
ClientRuns(h) ==
  \/ status[h] = "connecting" /\ (ClientConnects(h) \/ ClientFails(h))
  \/ ClientSubscribed(h) \/ ClientAnnouncesUp(h) \/ ClientAnnouncesDown(h)
  \/ ClientStops(h)

(***************************************************************************)
(* Every task runs when it can: it is fair as a whole, since what it can   *)
(* do next is one thing.  Tasks that wait for room in the queue are served *)
(* by priority, and the loop, of a higher priority than the application's  *)
(* tasks, always drains it: strong fairness for the driver and the         *)
(* clients.  Nothing is assumed of the network: an attempt may end in      *)
(* ClientConnects or ClientFails.                                          *)
(***************************************************************************)
MqttFairness ==
  /\ WF_vars(Running /\ LoopRuns)
  /\ WF_vars(Running /\ TimerRuns)
  /\ SF_vars(Running /\ DriverRuns)
  /\ \A h \in Handle : SF_vars(Running /\ ClientRuns(h))

MqttFairSpec == MqttSpec /\ MqttFairness

-----------------------------------------------------------------------------
Busy(p) == pc[p] # "idle"
(* Events whose handlers lead to connect(), or to an event that does. *)
RetryEvent == BitEvent \cup {"WIFI_CONNECTED", "MQTT_DISCONNECTED"}

(* The client in _client has a task, which is trying or connected. *)
ClientAlive == client # NULL /\ status[client] \notin {"free", "created", "ended"}

(***************************************************************************)
(* The broker connection is never given up: while the station has an       *)
(* address, a client is trying or connected, or an event is waiting, the   *)
(* timer is running or connect() is under way that leads to one.  This     *)
(* crosses three tasks: a disconnection posted by the client's task is     *)
(* either answered with the timer or left to a WIFI_CONNECTED to come.     *)
(***************************************************************************)
AttemptNeverLost ==
  hasUri /\ wifiReady /\ ~dropped /\ Running =>
    \/ ClientAlive
    \/ armed \/ InConnect("timer") \/ InConnect("loop")
    \/ current \in RetryEvent \/ ~NonePending(queue, RetryEvent)

(* No client has been created yet, or none is left. *)
NoClient == client = NULL /\ \A h \in Handle : status[h] = "free"

(***************************************************************************)
(* Who can call esp-mqtt on a handle that is freed or null, and when:      *)
(*   - the loop and the timer only while both are inside the client code,  *)
(*     or by a message published before there is any client: whatever the  *)
(*     order of events, neither alone destroys a handle twice, sets up or  *)
(*     publishes on one that is gone;                                      *)
(*   - a task that registers a consumer only while connect() is running,   *)
(*     be it on one task;                                                  *)
(*   - the task of a client, which subscribes on _client and not on its    *)
(*     own handle, only if connect() is running and two calls of it have   *)
(*     overlapped before, as they leave a client that no one destroys.     *)
(***************************************************************************)
FaultNeedsOverlap ==
  [][/\ fault' \in Caller => \/ Busy("loop") /\ Busy("timer")
                             \/ pc["loop"] = "publish" /\ NoClient
     /\ fault' = "registrar" => \E p \in Caller : InConnect(p)
     /\ fault' = "client" => overlapped /\ \E p \in Caller : InConnect(p)]_vars

(***************************************************************************)
(* "Disconnected, waiting for wifi ready" (MqttService.cpp:210): a lost    *)
(* broker connection waits for WiFi by waiting for its event.  The loop    *)
(* itself must never wait for SYS_WIFI_READY while the bit is clear: the   *)
(* handler that sets it runs on the loop.                                  *)
(***************************************************************************)
LoopNeverAwaitsItself ==
  ~(Handling("MQTT_DISCONNECTED") /\ state # "wifiDown" /\ ~wifiReady)

(***************************************************************************)
(* "client not ready" (MqttService.h:184): a message is published only     *)
(* when there is a client to publish it, and dropped otherwise.            *)
(***************************************************************************)
PublishOnClientOnly ==
  pc["loop"] = "publish" => ~ClientGone

(***************************************************************************)
(* The two ways the loop can wait for itself: for a bit its own handler    *)
(* sets, or in esp_mqtt_client_destroy() for a task that waits for room in *)
(* the queue only the loop empties.                                        *)
(***************************************************************************)
LoopStuck ==
  \/ ~LoopNeverAwaitsItself
  \/ /\ pc["loop"] = "stopping" /\ ~HasRoom
     /\ status[victim["loop"]] \in {"announcingUp", "announcingDown"}

(* Overlapping calls of connect() have leaked every handle there is: memory  *)
(* is exhausted, and the next esp_mqtt_client_init() has nothing to return.  *)
HandlesExhausted ==
  /\ \E p \in Caller : pc[p] = "init"
  /\ \A h \in Handle : status[h] # "free"

NetworkFault == LinkFails \/ AddressChanges \/ \E h \in Handle : ClientFails(h)

(* Overlapping calls again: one caller started the client of the other before  *)
(* its handler was registered, so the connection came up and nobody was told.  *)
Unheard == client # NULL /\ status[client] = "unheard"

(***************************************************************************)
(* Recovery: when the network stops failing, the broker connection comes   *)
(* up and stays, unless the loop is stuck in one of the two ways above or  *)
(* overlapping calls of connect() have used up the handles or brought up a *)
(* connection unheard.  A post lost to a full queue, a misused handle and  *)
(* a station that has run into RetryLimit are left out.                    *)
(***************************************************************************)
ConnectionRecovers ==
  (/\ configured /\ hasUri
   /\ <>[][~NetworkFault]_vars
   /\ <>[](~dropped /\ Running /\ retryCount < RetryLimit))
  => \/ <>[](client # NULL /\ status[client] = "connected" /\ mqttReady)
     \/ <>[](LoopStuck \/ HandlesExhausted \/ Unheard)

=============================================================================
