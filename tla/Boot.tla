-------------------------------- MODULE Boot --------------------------------
(***************************************************************************)
(* Application::setup() of the example (src/Application.h, example/main/   *)
(* esp8266-rtos-app.cpp): what the main task builds, in which order, while *)
(* the loop and the console's task already run.                            *)
(*                                                                         *)
(* The main task constructs the services, starts them one by one, loads    *)
(* the property files and posts SystemConfigReady.  The console's task     *)
(* exists as soon as its service is started, and the loop dispatches from  *)
(* the first post on, over a subscriber list the main task still extends.  *)
(*                                                                         *)
(* What the services do with an event is kept to what it tells the others: *)
(* WifiService, MqttService and smart config have modules of their own,    *)
(* and are the environment here once they are started.  What can stop the  *)
(* loop in one of their handlers for ever, or abort the program, is here:  *)
(* whether it does is left open.                                           *)
(***************************************************************************)
EXTENDS SystemLoop, Settings

CONSTANTS
  Files,     (* what the flash may hold: of each name, the items of its file, *)
             (* or Nothing: there is none, or it does not parse               *)
  MaxTyped,  (* bound: lines typed at the console               *)
  MaxUps,    (* bound: connections to the broker                *)
  Nothing    (* no file; a portal that was never opened         *)

-----------------------------------------------------------------------------
(* Events and their ids (src/Event.h, src/EventBus.h). *)

(* enum SystemEventId; SystemEventChanged carries a SystemStatus. *)
EventId ==
  [STATUS_CHANGED |-> 0, TIMER |-> 1, OTA_NEW_VERSION |-> 2, OTA_REPORT_VERSION |-> 3,
   APP_REPORT_VERSION |-> 4, CONFIG_READY |-> 5, MISSING_MQTT |-> 6, OPEN_CONFIG |-> 7,
   DNS_CONFIG |-> 8, SHUTDOWN |-> 9]

Status == {"READY", "WIFI_CONNECTED", "WIFI_DISCONNECTED", "MQTT_CONNECTED",
           "MQTT_DISCONNECTED"}
BootEvent == Status \cup (DOMAIN EventId \ {"STATUS_CHANGED"})

(* DEF_MSG_ID: one byte each for the event, the system and the parameter. *)
DefMsgId(id, sys, params) == id + 256 * (sys % 256) + 65536 * (params % 256)

TypeOf(e) == IF e \in Status THEN "STATUS_CHANGED" ELSE e
MsgId(type) == DefMsgId(EventId[type], 1, 0)

ASSUME BootAssumption ==
  /\ \A f \in Files : DOMAIN f = Name /\ \A k \in Name : f[k] = Nothing \/ f[k] \in Seq(Item)
  /\ MaxTyped \in Nat /\ MaxUps \in Nat
  /\ NoEvent \notin BootEvent

-----------------------------------------------------------------------------
(* What userSetup() constructs, in order: the application subscribes itself, *)
(* then come the services and the publisher of OtaVersion.                   *)

Order == <<"app", "wifi", "console", "config", "command", "mqtt", "ota", "publisher">>
Services == SubSeq(Order, 2, 7)
Part == ToSet(Order)

(* The event types in the template lists of the TEventSubscribers. *)
Declares ==
  [app       |-> {"STATUS_CHANGED"},
   wifi      |-> {"CONFIG_READY"},
   console   |-> {},
   config    |-> {"MISSING_MQTT", "OPEN_CONFIG", "DNS_CONFIG"},
   command   |-> {},
   mqtt      |-> {"STATUS_CHANGED"},
   ota       |-> {"APP_REPORT_VERSION"},
   publisher |-> {"OTA_REPORT_VERSION"}]

IsSubscriber(s) == Declares[s] # {}

(* register_console_command() in the constructors. *)
CommandsOf(s) ==
  CASE s = "config"  -> <<"setup_wifi", "setup_mqtt", "config_file", "file", "reset_conf">>
    [] s = "command" -> <<"restart", "mem", "info", "version", "config">>
    [] OTHER         -> <<>>

Loads == <<"wifi", "mqtt", "app">>

VARIABLES
  files,      (* of each name: the items of its file, or Nothing: not parsed    *)
  portal,     (* the build has CONFIG_SUPPORT_CONFIG_PORTAL; constant           *)
  stage,      (* what the main task does                                        *)
  n,          (* the next part, service or file of that stage                   *)
  entries,    (* EventBus::_subscribers: of whom, and through which view        *)
  consumers,  (* PropertiesLoader::_consumers                                   *)
  commands,   (* ConsoleService::commands                                       *)
  registered, (* the commands esp_console knows                                 *)
  reading,    (* the console's task runs                                        *)
  typed,      (* lines typed so far                                             *)
  held,       (* of each consumer: the property sets applied to it              *)
  at,         (* position of the dispatch in entries                            *)
  served,     (* history: how often each part handled the current event         *)
  started,    (* WifiService::start() was called                                *)
  stopped,    (* a handler waits on the loop for what never comes               *)
  pending,    (* smart config tasks before esp_smartconfig_start()              *)
  smart,      (* esp_smartconfig: "off", "running", or "aborted": the program is *)
  shown,      (* the settings ConfigPortal was constructed with, or Nothing     *)
  early,      (* history: the portal was opened before the files were loaded    *)
  mqttUp,     (* the client is connected                                        *)
  ups,        (* connections so far                                             *)
  offered,    (* history: a message on /ota/device/upgrade came                 *)
  reported,   (* OtaService::_reported                                          *)
  versions    (* history: of each OtaVersion the publisher got, whether the client *)
              (* was connected and it went out                                     *)

mainVars == <<stage, n>>
registryVars == <<entries, consumers, commands, registered, reading, held>>
serviceVars == <<started, shown, early, reported, versions>>
haltVars == <<stopped, pending, smart>>
linkVars == <<mqttUp, ups, offered>>
bootVars == <<loopVars, files, portal, mainVars, registryVars, typed, at, served,
              serviceVars, haltVars, linkVars>>

Entry == [of : Part, view : {"own", "raw"}]
Command == (UNION {ToSet(CommandsOf(s)) : s \in Part}) \cup {"smart_config"}
Stage == {"construct", "start", "load", "announce", "return", "done"}

BootTypeOK ==
  /\ queue \in Seq(BootEvent) /\ Len(queue) <= QueueSize
  /\ current \in BootEvent \cup {NoEvent}
  /\ dropped \in BOOLEAN
  /\ portal \in BOOLEAN
  /\ stage \in Stage /\ n \in 1..Len(Order)
  /\ entries \in Seq(Entry) /\ Len(entries) <= 2 * Len(Order)
  /\ consumers \in Seq(DOMAIN Consumes)
  /\ commands \in Seq(Command)
  /\ registered \subseteq Command
  /\ reading \in BOOLEAN
  /\ typed \in 0..MaxTyped
  /\ held \in [DOMAIN Consumes -> [Name -> UNION {Props(f) : f \in Name}]]
  /\ at \in 0..(Len(entries) + 1)
  /\ served \in [Part -> Nat]
  /\ started \in BOOLEAN
  /\ stopped \in BOOLEAN /\ pending \in Nat /\ smart \in {"off", "running", "aborted"}
  /\ shown \in {Nothing} \cup [{"wifi", "app"} -> UNION {Props(f) : f \in Name}]
  /\ early \in BOOLEAN
  /\ mqttUp \in BOOLEAN /\ ups \in 0..MaxUps /\ offered \in BOOLEAN
  /\ reported \in BOOLEAN
  /\ versions \in Seq(BOOLEAN)

NoneServed == [p \in Part |-> 0]

(* The flash holds what earlier runs of the program left in it. *)
BootInit ==
  /\ LoopInit(<<>>)
  /\ files \in Files
  /\ portal \in BOOLEAN
  /\ stage = "construct" /\ n = 1
  /\ entries = <<>> /\ consumers = <<>> /\ commands = <<>> /\ registered = {}
  /\ reading = FALSE /\ typed = 0
  /\ held = [c \in DOMAIN Consumes |-> [f \in Name |-> NoProps(f)]]
  /\ at = 0 /\ served = NoneServed
  /\ started = FALSE /\ stopped = FALSE /\ pending = 0 /\ smart = "off"
  /\ shown = Nothing /\ early = FALSE
  /\ mqttUp = FALSE /\ ups = 0 /\ offered = FALSE
  /\ reported = FALSE /\ versions = <<>>

-----------------------------------------------------------------------------
(* The main task. *)

(* Mutant: one item too many. *)
AdvancePast(last, next) ==
  IF n <= last THEN n' = n + 1 /\ UNCHANGED stage ELSE n' = 1 /\ stage' = next

(* The next item of the stage, or the first of the stage after it. *)
Advance(last, next) ==
  IF n < last THEN n' = n + 1 /\ UNCHANGED stage ELSE n' = 1 /\ stage' = next

(* Registry::create() of part s: the constructor adds a consumer and commands, *)
(* and what is a subscriber is then subscribed as what it is.                  *)
AddConsumer(s) ==
  consumers' = IF s \in DOMAIN Consumes THEN Append(consumers, s) ELSE consumers
RegisterCommands(s) == commands' = commands \o CommandsOf(s)
SubscribeNew(s) ==
  entries' = IF IsSubscriber(s)
             THEN Append(entries, [of |-> s, view |-> "own"]) ELSE entries
Create(s) == AddConsumer(s) /\ RegisterCommands(s) /\ SubscribeNew(s)

(* ConsoleService::setup(): register what is in `commands`, and start the task. *)
ConsoleSetup(s) ==
  /\ registered' = IF s = "console" THEN ToSet(commands) ELSE registered
  /\ reading' = (reading \/ s = "console")

(* What ConfigPortal copies when it is constructed. *)
PortalConfig == [f \in {"wifi", "app"} |-> held["config"][f]]

(* Mutant: create() also calls setup(), before the next service is there. *)
ConstructAndSetup ==
  /\ stage = "construct"
  /\ Create(Order[n]) /\ ConsoleSetup(Order[n])
  /\ Advance(Len(Order), "start")
  /\ UNCHANGED <<loopVars, files, portal, held, typed, at, served, serviceVars, haltVars,
                 linkVars>>

(* Mutant: the constructor of ConfigurationService makes the portal, too. *)
ConstructPortal ==
  /\ stage = "construct"
  /\ Create(Order[n])
  /\ shown' = IF Order[n] = "config" /\ portal THEN PortalConfig ELSE shown
  /\ Advance(Len(Order), "start")
  /\ UNCHANGED <<loopVars, files, portal, registered, reading, held, typed, at, served,
                 started, early, reported, versions, haltVars, linkVars>>

(* One call of userSetup(). *)
Construct ==
  /\ stage = "construct"
  /\ Create(Order[n])
  /\ Advance(Len(Order), "start")
  /\ UNCHANGED <<loopVars, files, portal, registered, reading, held, typed, at, served,
                 serviceVars, haltVars, linkVars>>

(* Mutant: TService::subscribe() converts to the subscriber it is. *)
SubscribeAsOwn(s) ==
  entries' = IF IsSubscriber(s)
             THEN Append(entries, [of |-> s, view |-> "own"]) ELSE entries

(* TService::subscribe(): the service once more, but through a pointer whose *)
(* first virtual function is Service::getServiceId().                        *)
Subscribe(s) ==
  entries' = IF IsSubscriber(s)
             THEN Append(entries, [of |-> s, view |-> "raw"]) ELSE entries

(* service->subscribe() and service->setup(); only the console's does anything. *)
StartService ==
  /\ stage = "start"
  /\ Subscribe(Services[n]) /\ ConsoleSetup(Services[n])
  /\ Advance(Len(Services), "load")
  /\ UNCHANGED <<loopVars, files, portal, consumers, commands, held, typed, at, served,
                 serviceVars, haltVars, linkVars>>

(* apply(): a consumer of the set keeps a copy of it. *)
Applied(f, props) ==
  [c \in DOMAIN held |-> IF c \in ToSet(consumers) /\ Takes(c, f)
                         THEN [held[c] EXCEPT ![f] = props] ELSE held[c]]

(* PropertiesLoader::load(): a file that parses is applied to the consumers. *)
LoadFile ==
  /\ stage = "load"
  /\ LET f == Loads[n] IN
       held' = IF files[f] = Nothing THEN held ELSE Applied(f, FromJson(f, files[f]))
  /\ Advance(Len(Loads), "announce")
  /\ UNCHANGED <<loopVars, files, portal, entries, consumers, commands, registered,
                 reading, typed, at, served, serviceVars, haltVars, linkVars>>

(* Mutant: the main task does not wait for room. *)
AnnounceAtOnce ==
  /\ stage = "announce" /\ stage' = "return"
  /\ PostFromLoop("CONFIG_READY")
  /\ UNCHANGED <<current, files, portal, n, registryVars, typed, at, served, serviceVars,
                 haltVars, linkVars>>

(* Post SystemConfigReady; then set SYS_SETUP_DONE and return. *)
Announce ==
  /\ stage = "announce" /\ stage' = "return"
  /\ Post("CONFIG_READY")
  /\ UNCHANGED <<files, portal, n, registryVars, typed, at, served, serviceVars, haltVars,
                 linkVars>>

SetupReturns ==
  /\ stage = "return" /\ stage' = "done"
  /\ UNCHANGED <<loopVars, files, portal, n, registryVars, typed, at, served,
                 serviceVars, haltVars, linkVars>>

MainTask == Construct \/ StartService \/ LoadFile \/ Announce \/ SetupReturns

-----------------------------------------------------------------------------
(* The console's task.  Of the commands, `config` is the one that tells the *)
(* services anything; those that save are in ConfigStore, the rest print.   *)
TypeLine(c) ==
  /\ reading /\ typed < MaxTyped
  /\ typed' = typed + 1
  /\ IF c = "config" /\ c \in registered
     THEN Post("OPEN_CONFIG") ELSE UNCHANGED loopVars
  /\ UNCHANGED <<files, portal, mainVars, registryVars, at, served, serviceVars, haltVars,
                 linkVars>>

-----------------------------------------------------------------------------
(* The loop: EventBus::handleMessage() over the entries. *)

TakeEvent ==
  /\ Take
  /\ at' = 1
  /\ served' = NoneServed
  /\ UNCHANGED <<files, portal, mainVars, registryVars, typed, serviceVars, haltVars,
                 linkVars>>

(* TEventSubscriber::onEventHandle(): is the event one of those declared? *)
(* A raw entry runs getServiceId(), which handles nothing.                *)
Handles(entry, e) ==
  entry.view = "own" /\ \E type \in Declares[entry.of] : MsgId(type) = MsgId(TypeOf(e))

(* The onEvent() functions. *)
NoPost == UNCHANGED <<queue, dropped>>

(* What the handlers change beside the queue and the commands. *)
callVars == <<serviceVars, stopped, pending, mqttUp>>

WifiOnEvent ==
  /\ started' = TRUE
  /\ IF held["wifi"]["wifi"]["ssid"] = Empty THEN PostFromLoop("OPEN_CONFIG") ELSE NoPost
  /\ UNCHANGED <<commands, shown, early, reported, versions, stopped, pending, mqttUp>>

(* SystemOpenConfig opens the portal, once, with what was applied so far; or  *)
(* smart config, whose constructor adds its command and whose setup() creates *)
(* a task each time, unless xTaskCreate() fails.  The look-up of the broker   *)
(* goes on until a service answers.                                           *)
ConfigOnEvent ==
  /\ IF current = "OPEN_CONFIG" /\ portal
     THEN /\ shown' = IF shown = Nothing THEN PortalConfig ELSE shown
          /\ early' = (early \/ (shown = Nothing /\ stage \in {"start", "load"}))
     ELSE UNCHANGED <<shown, early>>
  /\ IF current = "OPEN_CONFIG" /\ ~portal
     THEN commands' = Append(commands, "smart_config") /\ pending' \in {pending, pending + 1}
     ELSE UNCHANGED <<commands, pending>>
  /\ stopped' \in IF current = "DNS_CONFIG" THEN BOOLEAN ELSE {FALSE}
  /\ NoPost
  /\ UNCHANGED <<started, reported, versions, mqttUp>>

(* MqttService::connect() on the loop.  It destroys the client, for which it *)
(* waits for a task that may itself wait for room in the queue.              *)
MqttConnect ==
  IF held["mqtt"]["mqtt"]["uri"] = Empty
  THEN PostFromLoop("DNS_CONFIG") /\ UNCHANGED <<mqttUp, stopped>>
  ELSE NoPost /\ mqttUp' = FALSE /\ stopped' \in BOOLEAN

(* MQTT_DISCONNECTED waits for SYS_WIFI_READY, unless _state says that the   *)
(* station is down: without the bit, which the loop itself would set, always. *)
MqttOnEvent ==
  /\ \/ current = "WIFI_CONNECTED" /\ MqttConnect
     \/ /\ current = "MQTT_CONNECTED"
        /\ PostFromLoop("READY") /\ UNCHANGED <<mqttUp, stopped>>
     \/ /\ current = "MQTT_DISCONNECTED"
        /\ NoPost /\ stopped' \in BOOLEAN /\ UNCHANGED mqttUp
     \/ /\ current \notin {"WIFI_CONNECTED", "MQTT_CONNECTED", "MQTT_DISCONNECTED"}
        /\ NoPost /\ UNCHANGED <<mqttUp, stopped>>
  /\ UNCHANGED <<commands, serviceVars, pending>>

AppOnEvent ==
  /\ IF current = "READY" THEN PostFromLoop("APP_REPORT_VERSION") ELSE NoPost
  /\ UNCHANGED <<commands, callVars>>

(* Mutant: the test the wrong way round. *)
OtaOnEventInverted ==
  /\ IF reported THEN PostFromLoop("OTA_REPORT_VERSION") ELSE NoPost
  /\ reported' = TRUE
  /\ UNCHANGED <<commands, started, shown, early, versions, stopped, pending, mqttUp>>

OtaOnEvent ==
  /\ IF reported THEN NoPost ELSE PostFromLoop("OTA_REPORT_VERSION")
  /\ reported' = TRUE
  /\ UNCHANGED <<commands, started, shown, early, versions, stopped, pending, mqttUp>>

(* The publisher of OtaVersion: without a connection the version is lost. *)
PublisherOnEvent ==
  /\ versions' = Append(versions, mqttUp)
  /\ NoPost
  /\ UNCHANGED <<commands, started, shown, early, reported, stopped, pending, mqttUp>>

OnEvent(p) ==
  \/ p = "app" /\ AppOnEvent
  \/ p = "wifi" /\ WifiOnEvent
  \/ p = "config" /\ ConfigOnEvent
  \/ p = "mqtt" /\ MqttOnEvent
  \/ p = "ota" /\ OtaOnEvent
  \/ p = "publisher" /\ PublisherOnEvent

CallEntry ==
  /\ current # NoEvent /\ ~stopped /\ at <= Len(entries)
  /\ LET entry == entries[at] IN
       IF Handles(entry, current)
       THEN OnEvent(entry.of) /\ served' = [served EXCEPT ![entry.of] = @ + 1]
       ELSE UNCHANGED <<queue, dropped, commands, callVars, served>>
  /\ at' = at + 1
  /\ UNCHANGED <<current, files, portal, mainVars, entries, consumers, registered, reading,
                 held, typed, smart, ups, offered>>

EventDone ==
  /\ current # NoEvent /\ ~stopped /\ at > Len(entries)
  /\ Done
  /\ at' = 0
  /\ UNCHANGED <<queue, dropped, files, portal, mainVars, registryVars, typed, served,
                 serviceVars, haltVars, linkVars>>

-----------------------------------------------------------------------------
(* The services, once the station is started. *)

(* WifiService announces the link, between two events of the bus.  What it *)
(* asks for at its retry limit is Provisioning's.                          *)
LinkReported(status) ==
  /\ started /\ current = NoEvent
  /\ PostFromLoop(status)
  /\ UNCHANGED <<current, files, portal, mainVars, registryVars, typed, at, served,
                 serviceVars, haltVars, linkVars>>

(* The client of MqttService, with a broker address. *)
ClientUp ==
  /\ started /\ ~mqttUp /\ ups < MaxUps
  /\ held["mqtt"]["mqtt"]["uri"] # Empty
  /\ Post("MQTT_CONNECTED")
  /\ mqttUp' = TRUE /\ ups' = ups + 1
  /\ UNCHANGED <<files, portal, mainVars, registryVars, typed, at, served, serviceVars,
                 haltVars, offered>>

(* The connection is lost, or the timer's connect() ends it and tells nobody. *)
ClientDown ==
  /\ mqttUp
  /\ Post("MQTT_DISCONNECTED") \/ UNCHANGED loopVars
  /\ mqttUp' = FALSE
  /\ UNCHANGED <<files, portal, mainVars, registryVars, typed, at, served, serviceVars,
                 haltVars, ups, offered>>

(* The consumer of OtaEvent: a message on its topic is posted as one. *)
UpdateOffered ==
  /\ mqttUp /\ ~offered
  /\ Post("OTA_NEW_VERSION")
  /\ offered' = TRUE
  /\ UNCHANGED <<files, portal, mainVars, registryVars, typed, at, served, serviceVars,
                 haltVars, mqttUp, ups>>

(* smartconfig_example_task: esp_smartconfig_start() may refuse when it runs *)
(* or before esp_wifi_init(), and ESP_ERROR_CHECK then aborts.               *)
SmartConfigTask ==
  /\ pending > 0 /\ pending' = pending - 1
  /\ smart' \in {"running"} \cup (IF smart = "off" /\ started THEN {} ELSE {"aborted"})
  /\ UNCHANGED <<loopVars, files, portal, mainVars, registryVars, typed, at, served,
                 serviceVars, stopped, linkVars>>

Running == smart # "aborted"

BootNext ==
  /\ Running
  /\ \/ MainTask
     \/ \E c \in {"config", "smart_config"} : TypeLine(c)
     \/ TakeEvent \/ CallEntry \/ EventDone
     \/ \E status \in {"WIFI_CONNECTED", "WIFI_DISCONNECTED"} : LinkReported(status)
     \/ ClientUp \/ ClientDown \/ UpdateOffered
     \/ SmartConfigTask

(***************************************************************************)
(* The main task and the loop run when they can.  A post of the main task  *)
(* waits for room behind tasks of a higher priority, but the loop always   *)
(* makes room again: strong fairness for Announce.                         *)
(***************************************************************************)
BootFairness ==
  /\ WF_bootVars(Running /\ (Construct \/ StartService \/ LoadFile \/ SetupReturns))
  /\ SF_bootVars(Running /\ Announce)
  /\ WF_bootVars(Running /\ (TakeEvent \/ CallEntry \/ EventDone))

BootSpec == BootInit /\ [][BootNext]_bootVars /\ BootFairness

-----------------------------------------------------------------------------
(***************************************************************************)
(* Every service is in the list twice, once as the subscriber it is        *)
(* (Registry.h:79) and once through a reinterpreted pointer (Registry.h:   *)
(* 132), the second added while the loop may be dispatching.  Even so each *)
(* event is handled exactly once by each part that declares its type, and  *)
(* by no other: also one that is posted during the boot.                   *)
(***************************************************************************)
HandledExactlyOnce ==
  current # NoEvent /\ at > Len(entries) =>
    \A p \in Part : served[p] = IF TypeOf(current) \in Declares[p] THEN 1 ELSE 0

(***************************************************************************)
(* When the station is started, every consumer holds what the files say of *)
(* the property sets it takes, and nothing else: the last string of each   *)
(* key, the empty string for a key that is missing, and for every key of a *)
(* file that does not parse.                                               *)
(***************************************************************************)
SettingsAreHeld ==
  started \/ current = "CONFIG_READY" =>
    \A c \in DOMAIN Consumes, f \in Name : \A k \in Keys(f) :
      held[c][f][k] = IF f \in ToSet(Consumes[c]) /\ files[f] # Nothing
                      THEN Says(files[f], k) ELSE Empty

(***************************************************************************)
(* What a user can type is there from the first prompt on: the console     *)
(* registers its commands once, before most services are started, and must *)
(* find those of every service.  Only the command of SmartConfigService,   *)
(* which is constructed on SystemOpenConfig, comes too late.               *)
(***************************************************************************)
ConsoleIsComplete ==
  reading => ToSet(commands) \ {"smart_config"} = registered

(***************************************************************************)
(* The portal shows, for as long as it runs, the settings it was           *)
(* constructed with.  They are those in force unless it was opened from    *)
(* the console while the main task was still starting services or loading. *)
(***************************************************************************)
PortalShowsSettings ==
  shown # Nothing /\ ~early /\ stage \in {"announce", "return", "done"} =>
    \A f \in {"wifi", "app"} : shown[f] = held["config"][f]

(***************************************************************************)
(* The boot comes to its end: whatever is typed meanwhile, and however     *)
(* full the queue, SystemConfigReady arrives and the station is started.   *)
(* Only a build without the portal may not get there, when `config` was    *)
(* typed before: esp_smartconfig_start() then comes too early, and aborts. *)
(***************************************************************************)
StationIsStarted ==
  <>(started \/ (smart = "aborted" /\ ~portal /\ "smart_config" \in ToSet(commands)))

(***************************************************************************)
(* The version is handed to the publisher at most once in a run of the     *)
(* program, however often the broker is reached; and once it is reached,   *)
(* the version gets there, and goes out if the first connection lasts,     *)
(* unless MqttService stops the loop or smart config aborts the program.   *)
(* _reported is set before the event is handled, so nothing tries again    *)
(* when a post of the loop is lost to a full queue, or that connection is. *)
(***************************************************************************)
VersionIsPublished ==
  /\ [](Len(versions) <= 1)
  /\ mqttUp ~> (versions # <<>> \/ dropped \/ stopped \/ ~Running)
  /\ mqttUp /\ ups = 1 ~>
       \/ \E i \in DOMAIN versions : versions[i]
       \/ dropped \/ ~mqttUp \/ stopped \/ ~Running

=============================================================================
