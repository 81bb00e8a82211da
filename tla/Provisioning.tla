---------------------------- MODULE Provisioning ----------------------------
(***************************************************************************)
(* Smart config (src/system/smart_config/SmartConfigService.cpp) on top of *)
(* WifiService: the build without a portal, where SystemOpenConfig starts  *)
(* it.  WifiService asks for it without an SSID and at every disconnection *)
(* from the RetryLimit-th on, and so does the command `config`, which can  *)
(* come before SystemConfigReady.                                          *)
(*                                                                         *)
(* esp_smartconfig is external.  It must not be started twice, nor before  *)
(* esp_wifi_init(): it may refuse, and ESP_ERROR_CHECK then aborts, which  *)
(* reboots the device.  What a phone sends is posted to the loop, whose    *)
(* handler saves it and restarts, so that SC_EVENT_SEND_ACK_DONE is never  *)
(* handled and the task, its event group and its bits wait until the       *)
(* restart.  The save may fail, which the handler does not look at, and    *)
(* power may go until it is done; ConfigStore has its parts, and the other *)
(* tasks that save and restart.                                            *)
(***************************************************************************)
EXTENDS WifiService

CONSTANT MaxTyped (* bound: times `config` is typed, over all boots *)

(* SC_EVENT_GOT_SSID_PSWD passes through the loop like any other event; only a *)
(* phone has it posted.  The loop starts with room for what setup() posts.     *)
ASSUME ProvAssumption ==
  /\ MaxTyped \in Nat
  /\ QueueSize >= 2
  /\ "GOT_SSID_PSWD" \in AppEvent

VARIABLES
  inited,    (* esp_wifi_init() was called                                   *)
  flash,     (* the wifi file has an SSID: configured after the next boot    *)
  unsaved,   (* history: what a phone sent last did not get to the file      *)
  typed,     (* `config` commands so far                                     *)
  opened,    (* SystemOpenConfig events handled since the boot, up to 2      *)
  early,     (* history: one of them was handled before esp_wifi_init()      *)
  refused,   (* history: xTaskCreate() failed for one of them                *)
  starting,  (* smart config tasks before esp_smartconfig_start(), up to 2   *)
  sc,        (* esp_smartconfig: "off", "running" or "got": told by a phone  *)
  device     (* "up", "saving", "restarting": system_restart() delays, or    *)
             (* "aborted"                                                    *)

saveVars == <<flash, unsaved>>
scVars == <<opened, early, refused, starting, sc>>
provOwnVars == <<inited, saveVars, typed, scVars, device>>
provVars == <<wifiVars, provOwnVars>>

ProvTypeOK ==
  /\ WifiTypeOK
  /\ inited \in BOOLEAN /\ flash \in BOOLEAN /\ unsaved \in BOOLEAN
  /\ early \in BOOLEAN /\ refused \in BOOLEAN
  /\ typed \in 0..MaxTyped
  /\ opened \in 0..2 /\ starting \in 0..2
  /\ sc \in {"off", "running", "got"}
  /\ device \in {"up", "saving", "restarting", "aborted"}

(* setup() has posted SystemConfigReady, perhaps behind a `config`. *)
ProvInit ==
  /\ WifiInit
  /\ flash = configured /\ unsaved = FALSE
  /\ typed = 0
  /\ inited = FALSE
  /\ opened = 0 /\ early = FALSE /\ refused = FALSE
  /\ starting = 0 /\ sc = "off"
  /\ device = "up"

(* The program starts again, with what the wifi file holds. *)
Boot ==
  /\ \/ queue' = <<"CONFIG_READY">> /\ UNCHANGED typed
     \/ /\ typed < MaxTyped /\ typed' = typed + 1
        /\ queue' = <<"OPEN_CONFIG", "CONFIG_READY">>
  /\ current' = NoEvent /\ dropped' = FALSE
  /\ configured' = flash
  /\ driver' = "off" /\ leaving' = FALSE
  /\ retryCount' = 0 /\ wifiReady' = FALSE /\ pausing' = FALSE
  /\ told' = "WIFI_DISCONNECTED"
  /\ inited' = FALSE
  /\ opened' = 0 /\ early' = FALSE /\ refused' = FALSE
  /\ starting' = 0 /\ sc' = "off"
  /\ device' = "up"
  /\ UNCHANGED flash

-----------------------------------------------------------------------------
(* The loop. *)

(* WifiService::start() begins with esp_wifi_init(). *)
StartWifi ==
  /\ ConfigReady
  /\ inited' = TRUE
  /\ UNCHANGED <<saveVars, typed, scVars, device>>

WifiHandles ==
  /\ StaStart \/ StaDisconnected \/ StaRetry \/ GotIp
  /\ UNCHANGED provOwnVars

UpTo2(i) == IF i < 2 THEN i + 1 ELSE 2

(* startSmartConfig(): the results of the calls to the driver, which fail *)
(* before esp_wifi_init(), and of xTaskCreate() are not looked at.        *)
StartSmartConfig ==
  /\ current = "OPEN_CONFIG"
  /\ Done
  /\ IF inited THEN Start /\ leaving' = (leaving \/ driver \in {"connecting", "up"})
               ELSE UNCHANGED <<driver, leaving>>
  /\ \/ starting' = UpTo2(starting) /\ UNCHANGED refused
     \/ refused' = TRUE /\ UNCHANGED starting
  /\ opened' = UpTo2(opened)
  /\ early' = (early \/ ~inited)
  /\ UNCHANGED <<queue, dropped, configured, retryCount, wifiReady, pausing, told,
                 inited, saveVars, typed, sc, device>>

(* Mutant: what was received is used, and not saved. *)
GotPasswordUnsaved ==
  /\ current = "GOT_SSID_PSWD" /\ device = "up"
  /\ device' = "restarting"
  /\ UNCHANGED <<wifiVars, inited, saveVars, typed, scVars>>

(* sc_event_handler: setupWifi() saves and asks for the restart.  The handler *)
(* does not return before it.  fopen() empties the file, or fails and leaves  *)
(* it as it is.                                                               *)
GotPassword ==
  /\ current = "GOT_SSID_PSWD" /\ device = "up"
  /\ \/ device' = "saving" /\ flash' = FALSE /\ UNCHANGED unsaved
     \/ device' = "restarting" /\ unsaved' = TRUE /\ UNCHANGED flash
  /\ UNCHANGED <<wifiVars, inited, typed, scVars>>

(* The parts are written and the file closed, or one of the calls fails. *)
PasswordWritten ==
  /\ device = "saving"
  /\ \/ flash' = TRUE /\ UNCHANGED unsaved
     \/ unsaved' = TRUE /\ UNCHANGED flash
  /\ device' = "restarting"
  /\ UNCHANGED <<wifiVars, inited, typed, scVars>>

LoopTakes == WifiTake /\ UNCHANGED provOwnVars

(* Events of the other services. *)
OtherEvent == AppEvent \ {"GOT_SSID_PSWD"}

OtherHandler ==
  /\ current # "GOT_SSID_PSWD"
  /\ OtherHandlerDone \/ \E e \in OtherEvent : OtherHandlerPosts(e)
  /\ UNCHANGED provOwnVars

-----------------------------------------------------------------------------
(* The other tasks. *)

(* Mutant: esp_smartconfig_start() within the task's loop. *)
SmartConfigStartsAgain ==
  /\ starting > 0
  /\ sc' = IF sc = "off" THEN "running" ELSE sc
  /\ UNCHANGED <<wifiVars, inited, saveVars, typed, opened, early, refused,
                 starting, device>>

(* smartconfig_example_task: esp_smartconfig_start() succeeds. *)
SmartConfigStarts ==
  /\ starting > 0
  /\ starting' = starting - 1
  /\ sc' = IF sc = "off" THEN "running" ELSE sc
  /\ UNCHANGED <<wifiVars, inited, saveVars, typed, opened, early, refused, device>>

(* ... or it refuses, and ESP_ERROR_CHECK aborts. *)
SmartConfigRefuses ==
  /\ starting > 0
  /\ sc # "off" \/ ~inited
  /\ device' = "aborted"
  /\ UNCHANGED <<wifiVars, inited, saveVars, typed, scVars>>

(* A phone sends the name and the password of a network. *)
PhoneSends ==
  /\ sc = "running"
  /\ Post("GOT_SSID_PSWD")
  /\ sc' = "got"
  /\ unsaved' = FALSE
  /\ UNCHANGED <<wifiOwnVars, inited, flash, typed, opened, early, refused, starting,
                 device>>

Driver == DriverStep /\ UNCHANGED provOwnVars

(* The command `config`. *)
TypeConfig ==
  /\ typed < MaxTyped
  /\ Post("OPEN_CONFIG")
  /\ typed' = typed + 1
  /\ UNCHANGED <<wifiOwnVars, inited, saveVars, scVars, device>>

OtherTask == (\E e \in OtherEvent : OtherTaskPosts(e)) /\ UNCHANGED provOwnVars

Reboot == device \in {"restarting", "aborted"} /\ Boot /\ UNCHANGED unsaved

(* Power goes before what a phone sent is saved. *)
PowerLoss ==
  /\ current = "GOT_SSID_PSWD" /\ device \in {"up", "saving"}
  /\ Boot
  /\ unsaved' = TRUE

ProvNext ==
  \/ /\ device # "aborted"
     /\ \/ LoopTakes \/ StartWifi \/ WifiHandles \/ StartSmartConfig \/ GotPassword
        \/ PasswordWritten \/ OtherHandler
        \/ SmartConfigStarts \/ SmartConfigRefuses \/ PhoneSends
        \/ Driver \/ TypeConfig \/ OtherTask
  \/ Reboot
  \/ PowerLoss

(***************************************************************************)
(* As said at AttemptAnswered; the task created runs, the handler comes to *)
(* its end and a device that restarts or has aborted boots.  Nobody has to *)
(* use a phone.                                                            *)
(***************************************************************************)
ProvFairness ==
  /\ WF_provVars(/\ device = "up"
                 /\ LoopTakes \/ StartWifi \/ WifiHandles \/ StartSmartConfig \/ GotPassword)
  /\ WF_provVars(/\ device = "up" /\ current # "GOT_SSID_PSWD"
                 /\ OtherHandlerDone /\ UNCHANGED provOwnVars)
  /\ WF_provVars(device = "up" /\ (SmartConfigStarts \/ SmartConfigRefuses))
  /\ WF_provVars(PasswordWritten)
  /\ WF_provVars(Reboot)
  /\ SF_provVars(device = "up" /\ DriverStarted /\ UNCHANGED provOwnVars)
  /\ SF_provVars(device = "up" /\ Left /\ UNCHANGED provOwnVars)
  /\ SF_provVars(device = "up" /\ AttemptAnswered /\ UNCHANGED provOwnVars)

ProvSpec == ProvInit /\ [][ProvNext]_provVars /\ ProvFairness

-----------------------------------------------------------------------------
(***************************************************************************)
(* One SystemOpenConfig is harmless: the device aborts in                  *)
(* esp_smartconfig_start() only when provisioning was opened twice since   *)
(* the boot, or from the console before the station was initialised.       *)
(***************************************************************************)
AbortNeedsReopen == device = "aborted" => opened = 2 \/ early

(***************************************************************************)
(* The device never aborts: ESP_ERROR_CHECK(esp_smartconfig_start(&cfg))   *)
(* (SmartConfigService.cpp:18) asserts that it succeeds.                   *)
(***************************************************************************)
NeverAborts == device # "aborted"

(***************************************************************************)
(* What a phone sent is used: a device without credentials whose loop has  *)
(* taken them comes up again with them and starts the station, unless it   *)
(* aborts before, or they did not get to the file: one of the calls of the *)
(* save failed, or power went before it was done.                          *)
(***************************************************************************)
ReceivedIsUsed ==
  current = "GOT_SSID_PSWD" /\ ~configured ~>
    (configured /\ driver # "off") \/ device = "aborted" \/ unsaved

(***************************************************************************)
(* A device that cannot join its network, or that has none, offers         *)
(* provisioning again and again: it never ends up waiting with neither,    *)
(* unless the loop's post or the task was lost.                            *)
(***************************************************************************)
StrandedIsOffered ==
  <>[][~Joined]_wifiVars =>
    []<>(sc # "off" \/ driver = "up" \/ dropped \/ refused)

=============================================================================
