---------------------------- MODULE WifiService ----------------------------
(***************************************************************************)
(* WifiService (src/system/wifi/WifiService.cpp) with the station driver   *)
(* it commands and the system loop it runs on.                             *)
(*                                                                         *)
(* The service has no thread: eventHandler and onEvent(SystemConfigReady)  *)
(* run on the loop, and the 1 s pause between a disconnection and the next *)
(* esp_wifi_connect() is spent in the handler, so the loop takes no event  *)
(* meanwhile while other tasks go on posting.  The driver is external: it  *)
(* is modelled by the calls the code makes to it and by the events the     *)
(* code handles.                                                           *)
(***************************************************************************)
EXTENDS SystemLoop

CONSTANTS
  RetryLimit, (* the literal 60 of eventHandler                            *)
  AppEvent    (* events of the other services, which pass through the loop *)

(* Events of the driver. *)
DriverEvent == {"STA_START", "STA_DISCONNECTED", "GOT_IP"}
(* What eventHandler tells the other services (SystemEventChanged). *)
WifiStatus == {"WIFI_CONNECTED", "WIFI_DISCONNECTED"}
SystemEvent == DriverEvent \cup WifiStatus \cup {"CONFIG_READY", "OPEN_CONFIG"}
Event == SystemEvent \cup AppEvent

ASSUME WifiAssumption ==
  /\ RetryLimit \in Nat \ {0}
  /\ AppEvent \cap SystemEvent = {}
  /\ NoEvent \notin Event

VARIABLES
  configured, (* _ssid is not empty: set before the first event, then constant *)
  driver,     (* "off", "starting", "idle", "connecting" or "up"               *)
  leaving,    (* esp_wifi_disconnect() was called, the driver has yet to obey  *)
  retryCount, (* _retryCount, counted up to RetryLimit: the code only compares *)
  wifiReady,  (* the SYS_WIFI_READY bit                                        *)
  pausing,    (* eventHandler is in vTaskDelay(1000) after a disconnection     *)
  told        (* history: the last WIFI_* status the loop gave to its handlers *)

wifiOwnVars == <<configured, driver, leaving, retryCount, wifiReady, pausing, told>>
wifiVars == <<loopVars, wifiOwnVars>>

WifiTypeOK ==
  /\ queue \in Seq(Event) /\ Len(queue) \in 0..QueueSize
  /\ current \in Event \cup {NoEvent}
  /\ dropped \in BOOLEAN
  /\ configured \in BOOLEAN
  /\ driver \in {"off", "starting", "idle", "connecting", "up"}
  /\ leaving \in BOOLEAN
  /\ retryCount \in 0..RetryLimit
  /\ wifiReady \in BOOLEAN
  /\ pausing \in BOOLEAN
  /\ told \in WifiStatus

(* Application::setup() has loaded the properties and posted SystemConfigReady. *)
WifiInit ==
  /\ LoopInit(<<"CONFIG_READY">>)
  /\ configured \in BOOLEAN
  /\ driver = "off"
  /\ leaving = FALSE
  /\ retryCount = 0
  /\ wifiReady = FALSE
  /\ pausing = FALSE
  /\ told = "WIFI_DISCONNECTED"

-----------------------------------------------------------------------------
(* Calls to the driver. *)

(* esp_wifi_connect(): without an SSID, or when not idle, it changes nothing. *)
Connect ==
  driver' = IF driver = "idle" /\ configured THEN "connecting" ELSE driver

(* esp_wifi_start(): a started station stays as it is. *)
Start == driver' = IF driver = "off" THEN "starting" ELSE driver

-----------------------------------------------------------------------------
(* The loop. *)

WifiTake ==
  /\ Take
  /\ told' = IF Head(queue) \in WifiStatus THEN Head(queue) ELSE told
  /\ UNCHANGED <<configured, driver, leaving, retryCount, wifiReady, pausing>>

(* Mutant: a station without an SSID is left alone. *)
ConfigReadySilent ==
  /\ current = "CONFIG_READY"
  /\ Done
  /\ IF configured THEN Start ELSE UNCHANGED driver
  /\ UNCHANGED <<queue, dropped, configured, leaving, retryCount, wifiReady, pausing,
                 told>>

(* onEvent(SystemConfigReady): start the station, or ask for provisioning. *)
ConfigReady ==
  /\ current = "CONFIG_READY"
  /\ Done
  /\ \/ configured /\ Start /\ UNCHANGED <<queue, dropped>>
     \/ ~configured /\ PostFromLoop("OPEN_CONFIG") /\ UNCHANGED driver
  /\ UNCHANGED <<configured, leaving, retryCount, wifiReady, pausing, told>>

(* Mutant: the started station is not told to connect. *)
StaStartOnly ==
  /\ current = "STA_START"
  /\ Done
  /\ UNCHANGED <<queue, dropped, wifiOwnVars>>

StaStart ==
  /\ current = "STA_START"
  /\ Done
  /\ Connect
  /\ UNCHANGED <<queue, dropped, configured, leaving, retryCount, wifiReady,
                 pausing, told>>

(* Mutant: the bit stays set through a disconnection. *)
StaDisconnectedKeepsBit ==
  /\ current = "STA_DISCONNECTED" /\ ~pausing
  /\ PostFromLoop("WIFI_DISCONNECTED")
  /\ pausing' = TRUE
  /\ UNCHANGED <<current, configured, driver, leaving, retryCount, wifiReady, told>>

(* Mutant: a disconnection is announced only after the first retry failed. *)
StaDisconnectedQuiet ==
  /\ current = "STA_DISCONNECTED" /\ ~pausing
  /\ IF retryCount > 0
     THEN PostFromLoop("WIFI_DISCONNECTED") ELSE UNCHANGED <<queue, dropped>>
  /\ wifiReady' = FALSE
  /\ pausing' = TRUE
  /\ UNCHANGED <<current, configured, driver, leaving, retryCount, told>>

(* First half of the disconnection: announce, clear the bit, start the pause. *)
StaDisconnected ==
  /\ current = "STA_DISCONNECTED" /\ ~pausing
  /\ PostFromLoop("WIFI_DISCONNECTED")
  /\ wifiReady' = FALSE
  /\ pausing' = TRUE
  /\ UNCHANGED <<current, configured, driver, leaving, retryCount, told>>

(* Mutant: at the limit it asks for provisioning instead of connecting. *)
StaRetryGivesUp ==
  /\ current = "STA_DISCONNECTED" /\ pausing
  /\ retryCount' = IF retryCount < RetryLimit THEN retryCount + 1 ELSE RetryLimit
  /\ IF retryCount' >= RetryLimit
     THEN PostFromLoop("OPEN_CONFIG") /\ UNCHANGED driver
     ELSE Connect /\ UNCHANGED <<queue, dropped>>
  /\ pausing' = FALSE
  /\ Done
  /\ UNCHANGED <<configured, leaving, wifiReady, told>>

(* Second half: count, give up on the credentials after RetryLimit, connect. *)
StaRetry ==
  /\ current = "STA_DISCONNECTED" /\ pausing
  /\ retryCount' = IF retryCount < RetryLimit THEN retryCount + 1 ELSE RetryLimit
  /\ IF retryCount' >= RetryLimit
     THEN PostFromLoop("OPEN_CONFIG") ELSE UNCHANGED <<queue, dropped>>
  /\ Connect
  /\ pausing' = FALSE
  /\ Done
  /\ UNCHANGED <<configured, leaving, wifiReady, told>>

GotIp ==
  /\ current = "GOT_IP"
  /\ retryCount' = 0
  /\ PostFromLoop("WIFI_CONNECTED")
  /\ wifiReady' = TRUE
  /\ Done
  /\ UNCHANGED <<configured, driver, leaving, pausing, told>>

(* ConfigurationService opens smart config (the build without a portal): what *)
(* startSmartConfig() does to the station is to leave the network and start.  *)
(* The rest of it, and the command that posts the event, are in Provisioning. *)
OpenConfig ==
  /\ current = "OPEN_CONFIG"
  /\ leaving' = (leaving \/ driver \in {"connecting", "up"})
  /\ Start
  /\ Done
  /\ UNCHANGED <<queue, dropped, configured, retryCount, wifiReady, pausing, told>>

(* Handlers of the other services, for the events WifiService does not handle: *)
(* a step may post an event of theirs and may be the last of the event.        *)
OtherHandlerPosts(e) ==
  /\ current \in WifiStatus \cup AppEvent
  /\ PostFromLoop(e)
  /\ current' \in {current, NoEvent}
  /\ UNCHANGED wifiOwnVars

OtherHandlerDone ==
  /\ current \in WifiStatus \cup AppEvent
  /\ Done
  /\ UNCHANGED <<queue, dropped, wifiOwnVars>>

(* Another task posts an event of its own. *)
OtherTaskPosts(e) == Post(e) /\ UNCHANGED wifiOwnVars

-----------------------------------------------------------------------------
(* The driver's task.  It posts like any other task, and a change it has not *)
(* been able to post yet is not visible to the code.                         *)

DriverStarted ==
  /\ driver = "starting"
  /\ Post("STA_START")
  /\ driver' = "idle"
  /\ UNCHANGED <<configured, leaving, retryCount, wifiReady, pausing, told>>

Joined ==
  /\ driver = "connecting" /\ ~leaving
  /\ Post("GOT_IP")
  /\ driver' = "up"
  /\ UNCHANGED <<configured, leaving, retryCount, wifiReady, pausing, told>>

(* The attempt fails or the link breaks. *)
LinkFails ==
  /\ driver \in {"connecting", "up"} /\ ~leaving
  /\ Post("STA_DISCONNECTED")
  /\ driver' = "idle"
  /\ UNCHANGED <<configured, leaving, retryCount, wifiReady, pausing, told>>

(* The driver obeys esp_wifi_disconnect(). *)
Left ==
  /\ leaving
  /\ Post("STA_DISCONNECTED")
  /\ driver' = "idle"
  /\ leaving' = FALSE
  /\ UNCHANGED <<configured, retryCount, wifiReady, pausing, told>>

(* The lease is renewed with another address: GOT_IP again, no disconnection. *)
AddressChanges ==
  /\ driver = "up" /\ ~leaving
  /\ Post("GOT_IP")
  /\ UNCHANGED wifiOwnVars

-----------------------------------------------------------------------------
WifiHandler ==
  \/ ConfigReady \/ StaStart \/ StaDisconnected \/ StaRetry \/ GotIp \/ OpenConfig

DriverStep == DriverStarted \/ Joined \/ LinkFails \/ Left \/ AddressChanges

WifiNext ==
  \/ WifiTake
  \/ WifiHandler
  \/ DriverStep
  \/ \E e \in AppEvent : OtherHandlerPosts(e)
  \/ OtherHandlerDone
  \/ \E e \in AppEvent : OtherTaskPosts(e)

WifiSpec == WifiInit /\ [][WifiNext]_wifiVars

(***************************************************************************)
(* The outcome of one esp_wifi_connect().  What the modules that compose   *)
(* this service assume of it (MqttService, Provisioning): the loop's task  *)
(* runs whenever it has an event, and no handler of the other services     *)
(* runs for ever.  The driver answers start, connect and disconnect; it    *)
(* waits for room by priority, ahead of the application's tasks, hence     *)
(* strong fairness.  That an attempt succeeds is never assumed, only that  *)
(* it is answered.                                                         *)
(***************************************************************************)
AttemptAnswered == driver = "connecting" /\ (Joined \/ LinkFails)

-----------------------------------------------------------------------------
(* Events whose handlers end in esp_wifi_connect(). *)
ConnectEvent == {"STA_START", "STA_DISCONNECTED"}
(* Events whose handlers write SYS_WIFI_READY. *)
BitEvent == {"STA_DISCONNECTED", "GOT_IP"}

(***************************************************************************)
(* The station is never left idle: as long as it has credentials and is    *)
(* not connecting, an event is on its way whose handler will call          *)
(* esp_wifi_start() or esp_wifi_connect().  Nothing else in the program    *)
(* would ever connect it again.                                            *)
(***************************************************************************)
ReconnectNeverLost ==
  configured =>
    /\ driver = "off" => ~NonePending(queue, {"CONFIG_READY"}) \/ current = "CONFIG_READY"
    /\ driver = "idle" => ~NonePending(queue, ConnectEvent) \/ current \in ConnectEvent

(***************************************************************************)
(* SYS_WIFI_READY follows the link: whenever the loop has handled every    *)
(* link event, the bit says whether the station has an address; and what   *)
(* the queue still holds always ends with the event that will make it so.  *)
(***************************************************************************)
WifiBitTracksLink ==
  /\ Latest(queue, BitEvent, "GOT_IP") => driver = "up"
  /\ Latest(queue, BitEvent, "STA_DISCONNECTED") => driver # "up"
  /\ NonePending(queue, BitEvent) =>
       /\ current = "GOT_IP" => driver = "up"
       /\ current = "STA_DISCONNECTED" /\ ~pausing => driver # "up"
       /\ current \notin BitEvent \/ pausing => (wifiReady <=> driver = "up")

(***************************************************************************)
(* The services hear the truth in the end: the last WIFI_* status posted   *)
(* (or, with none waiting, the last one they were given) says what the bit *)
(* says, unless a post of the loop was lost to a full queue.               *)
(***************************************************************************)
AnnouncementsTrackBit ==
  ~dropped =>
    /\ Latest(queue, WifiStatus, "WIFI_CONNECTED") => wifiReady
    /\ Latest(queue, WifiStatus, "WIFI_DISCONNECTED") => ~wifiReady
    /\ NonePending(queue, WifiStatus) => (wifiReady <=> told = "WIFI_CONNECTED")

(***************************************************************************)
(* Recovery: once the network stops failing, and as long as the service    *)
(* has not run into RetryLimit, a configured station ends up connected and *)
(* its services are told, unless a post was lost to a full queue.          *)
(***************************************************************************)
LinkRecovers ==
  (/\ <>[][~LinkFails]_wifiVars
   /\ <>[](configured /\ retryCount < RetryLimit /\ ~dropped))
  => <>[](driver = "up" /\ wifiReady /\ told = "WIFI_CONNECTED")

=============================================================================
