------------------------- MODULE ProvisioningProofs -------------------------
(***************************************************************************)
(* Theorems about Provisioning for every queue size, retry limit, number   *)
(* of commands and set of application events.  Every step is a step of     *)
(* WifiService, or one of the three that it does not have: `config` is     *)
(* typed, provisioning is opened before esp_wifi_init(), the device boots. *)
(* So the invariants of WifiService hold here too, across every reboot,    *)
(* and what is left is to look at those three.                             *)
(***************************************************************************)
EXTENDS Provisioning, WifiServiceProofs

(* The handler of OPEN_CONFIG runs before the station was initialised.     *)
OpenedEarly == StartSmartConfig /\ ~inited

LEMMA StepIsWifiStep ==
  ASSUME [ProvNext]_provVars
  PROVE  [WifiNext]_wifiVars \/ TypeConfig \/ OpenedEarly \/ Boot
<1>1. CASE LoopTakes
  BY <1>1 DEF LoopTakes, WifiNext
<1>2. CASE StartWifi
  BY <1>2 DEF StartWifi, WifiNext, WifiHandler
<1>3. CASE WifiHandles
  BY <1>3 DEF WifiHandles, WifiNext, WifiHandler
<1>4. CASE StartSmartConfig /\ inited
  <2>1. OpenConfig
    BY <1>4 DEF StartSmartConfig, OpenConfig
  <2> QED
    BY <2>1 DEF WifiNext, WifiHandler
<1>5. CASE GotPassword \/ PasswordWritten \/ SmartConfigStarts \/ SmartConfigRefuses
  BY <1>5 DEF GotPassword, PasswordWritten, SmartConfigStarts, SmartConfigRefuses
<1>6. CASE OtherHandler
  BY <1>6 DEF OtherHandler, OtherEvent, WifiNext
<1>7. CASE PhoneSends
  <2>1. OtherTaskPosts("GOT_SSID_PSWD")
    BY <1>7 DEF PhoneSends, OtherTaskPosts, wifiOwnVars
  <2> QED
    BY <2>1, ProvAssumption DEF WifiNext
<1>8. CASE Driver
  BY <1>8 DEF Driver, WifiNext
<1>9. CASE OtherTask
  BY <1>9 DEF OtherTask, OtherEvent, WifiNext
<1>10. CASE UNCHANGED provVars
  BY <1>10 DEF provVars
<1>11. CASE Reboot \/ PowerLoss
  BY <1>11 DEF Reboot, PowerLoss
<1> QED
  BY <1>1, <1>2, <1>3, <1>4, <1>5, <1>6, <1>7, <1>8, <1>9, <1>10, <1>11
     DEF ProvNext, OpenedEarly

(* What the three steps of its own do to the variables of WifiService.     *)
LEMMA TypeConfigPosts ==
  ASSUME TypeConfig
  PROVE  Post("OPEN_CONFIG") /\ UNCHANGED <<current, dropped, wifiOwnVars>>
BY DEF TypeConfig, Post

LEMMA OpenedEarlyEnds ==
  ASSUME OpenedEarly
  PROVE  /\ current = "OPEN_CONFIG" /\ current' = NoEvent
         /\ UNCHANGED <<queue, dropped, wifiOwnVars>>
BY DEF OpenedEarly, StartSmartConfig, Done, wifiOwnVars

(* A boot leaves one SystemConfigReady, and nothing that tells of a link.  *)
LEMMA BootQueue ==
  ASSUME NEW q \in {<<"CONFIG_READY">>, <<"OPEN_CONFIG", "CONFIG_READY">>}
  PROVE  /\ q \in Seq(Event) /\ Len(q) \in 0..QueueSize
         /\ \A K : "CONFIG_READY" \in K => ~NonePending(q, K)
         /\ \A K : "OPEN_CONFIG" \notin K /\ "CONFIG_READY" \notin K =>
              NonePending(q, K) /\ \A x \in K : ~Latest(q, K, x)
<1>1. /\ q \in Seq(Event)
      /\ Len(q) \in {1, 2}
      /\ \A i \in 1..Len(q) : q[i] \in {"OPEN_CONFIG", "CONFIG_READY"}
      /\ q[Len(q)] = "CONFIG_READY"
  <2>1. CASE q = <<"CONFIG_READY">>
    BY <2>1, EventMembers
  <2>2. CASE q = <<"OPEN_CONFIG", "CONFIG_READY">>
    BY <2>2, EventMembers
  <2> QED
    BY <2>1, <2>2
<1>2. Len(q) \in 0..QueueSize
  BY <1>1, ProvAssumption, QueueSizeAssumption
<1>3. ASSUME NEW K, "CONFIG_READY" \in K PROVE ~NonePending(q, K)
  <2>1. Len(q) \in 1..Len(q)
    BY <1>1
  <2> QED
    BY <1>1, <1>3, <2>1 DEF NonePending
<1>4. ASSUME NEW K, "OPEN_CONFIG" \notin K, "CONFIG_READY" \notin K
      PROVE  NonePending(q, K) /\ \A x \in K : ~Latest(q, K, x)
  <2>1. \A i \in 1..Len(q) : q[i] \notin K
    BY <1>1, <1>4
  <2> QED
    BY <2>1 DEF NonePending, Latest
<1> QED
  BY <1>1, <1>2, <1>3, <1>4

-----------------------------------------------------------------------------
THEOREM ProvTypeStep == ProvTypeOK /\ [ProvNext]_provVars => ProvTypeOK'
<1> SUFFICES ASSUME ProvTypeOK, [ProvNext]_provVars PROVE ProvTypeOK'
  OBVIOUS
<1>1. WifiTypeOK'
  <2>1. CASE [WifiNext]_wifiVars
    BY <2>1, WifiTypeStep DEF ProvTypeOK
  <2>2. CASE TypeConfig
    BY <2>2, TypeConfigPosts, PostBounded, EventMembers
       DEF ProvTypeOK, WifiTypeOK, wifiOwnVars
  <2>3. CASE OpenedEarly
    BY <2>3, OpenedEarlyEnds DEF ProvTypeOK, WifiTypeOK, wifiOwnVars
  <2>4. CASE Boot
    <3>1. queue' \in {<<"CONFIG_READY">>, <<"OPEN_CONFIG", "CONFIG_READY">>}
      BY <2>4 DEF Boot
    <3>2. queue' \in Seq(Event) /\ Len(queue') \in 0..QueueSize
      BY <3>1, BootQueue
    <3>3. 0 \in 0..RetryLimit /\ configured' \in BOOLEAN
      BY <2>4, WifiAssumption DEF ProvTypeOK, Boot
    <3> QED
      BY <2>4, <3>2, <3>3 DEF Boot, WifiTypeOK, WifiStatus
  <2> QED
    BY <2>1, <2>2, <2>3, <2>4, StepIsWifiStep
<1>2. UpTo2(opened) \in 0..2 /\ UpTo2(starting) \in 0..2
  BY DEF ProvTypeOK, UpTo2
<1>3. typed < MaxTyped => typed + 1 \in 0..MaxTyped
  BY ProvAssumption DEF ProvTypeOK
<1>4. starting > 0 => starting - 1 \in 0..2
  BY DEF ProvTypeOK
<1>5. CASE LoopTakes \/ WifiHandles \/ OtherHandler \/ Driver \/ OtherTask
           \/ UNCHANGED provVars
  BY <1>1, <1>5 DEF LoopTakes, WifiHandles, OtherHandler, Driver, OtherTask, provVars,
                    provOwnVars, saveVars, scVars, ProvTypeOK
<1>6. CASE StartWifi \/ GotPassword \/ PasswordWritten
  BY <1>1, <1>6 DEF StartWifi, GotPassword, PasswordWritten, saveVars, scVars, ProvTypeOK
<1>7. CASE StartSmartConfig
  BY <1>1, <1>2, <1>7 DEF StartSmartConfig, saveVars, ProvTypeOK
<1>8. CASE SmartConfigStarts \/ SmartConfigRefuses \/ PhoneSends
  BY <1>1, <1>4, <1>8 DEF SmartConfigStarts, SmartConfigRefuses, PhoneSends, saveVars,
                          scVars, ProvTypeOK
<1>9. CASE TypeConfig
  BY <1>1, <1>3, <1>9 DEF TypeConfig, saveVars, scVars, ProvTypeOK
<1>10. CASE Reboot \/ PowerLoss
  <2> Boot /\ (unsaved' = unsaved \/ unsaved' = TRUE)
    BY <1>10 DEF Reboot, PowerLoss
  <2>1. typed' \in 0..MaxTyped
    BY <1>3 DEF Boot, ProvTypeOK
  <2>2. /\ inited' = FALSE /\ flash' = flash /\ early' = FALSE /\ refused' = FALSE
        /\ opened' = 0 /\ starting' = 0 /\ sc' = "off" /\ device' = "up"
    BY DEF Boot
  <2>3. /\ inited' \in BOOLEAN /\ flash' \in BOOLEAN /\ unsaved' \in BOOLEAN
        /\ early' \in BOOLEAN /\ refused' \in BOOLEAN
    BY <2>2, Zenon DEF ProvTypeOK
  <2>4. opened' \in 0..2 /\ starting' \in 0..2
    BY <2>2
  <2> QED
    BY <1>1, <2>1, <2>2, <2>3, <2>4 DEF ProvTypeOK
<1> QED
  BY <1>5, <1>6, <1>7, <1>8, <1>9, <1>10 DEF ProvNext

(* Every variable keeps its type through every reboot: in particular no    *)
(* post, of the console, of a phone or of setup(), overfills the queue.    *)
THEOREM ProvTypeCorrect == ProvSpec => []ProvTypeOK
<1>1. ProvInit => ProvTypeOK
  <2> SUFFICES ASSUME ProvInit PROVE ProvTypeOK
    OBVIOUS
  <2>1. WifiTypeOK /\ configured \in BOOLEAN
    BY WifiTypeInit DEF ProvInit, WifiInit
  <2>2. 0 \in 0..MaxTyped
    BY ProvAssumption
  <2>3. opened \in 0..2 /\ starting \in 0..2
    BY DEF ProvInit
  <2>4. /\ inited \in BOOLEAN /\ flash \in BOOLEAN /\ unsaved \in BOOLEAN
        /\ early \in BOOLEAN /\ refused \in BOOLEAN
    BY <2>1, Zenon DEF ProvInit
  <2> QED
    BY <2>1, <2>2, <2>3, <2>4 DEF ProvInit, ProvTypeOK
<1> QED
  BY <1>1, ProvTypeStep, PTL DEF ProvSpec

-----------------------------------------------------------------------------
(* The invariants of WifiService, with the fact that one of them rests on. *)
WifiInv ==
  /\ PausingHandler
  /\ ReconnectNeverLost
  /\ WifiBitTracksLink
  /\ AnnouncementsTrackBit

LEMMA WifiInvInit == WifiInit => WifiInv
<1> SUFFICES ASSUME WifiInit PROVE WifiInv
  OBVIOUS
<1>1. Len(queue) = 1 /\ queue[1] = "CONFIG_READY"
  BY DEF WifiInit, LoopInit
<1>2. /\ \A x \in BitEvent : ~Latest(queue, BitEvent, x)
      /\ \A x \in WifiStatus : ~Latest(queue, WifiStatus, x)
  BY <1>1 DEF Latest, BitEvent, WifiStatus
<1>3. ~NonePending(queue, {"CONFIG_READY"})
  BY <1>1 DEF NonePending
<1> USE WifiTypeInit, EventMembers
<1>4. current = NoEvent /\ driver = "off" /\ ~wifiReady /\ ~pausing
      /\ told = "WIFI_DISCONNECTED"
  BY DEF WifiInit, LoopInit
<1>5. ReconnectNeverLost
  BY <1>3, <1>4 DEF ReconnectNeverLost
<1>6. WifiBitTracksLink
  BY <1>2, <1>4 DEF WifiBitTracksLink, BitEvent
<1>7. AnnouncementsTrackBit
  BY <1>2, <1>4 DEF AnnouncementsTrackBit, WifiStatus
<1> QED
  BY <1>4, <1>5, <1>6, <1>7 DEF WifiInv, PausingHandler

LEMMA WifiInvStep == ProvTypeOK /\ WifiInv /\ [ProvNext]_provVars => WifiInv'
<1> SUFFICES ASSUME ProvTypeOK, WifiInv, [ProvNext]_provVars PROVE WifiInv'
  OBVIOUS
<1> USE EventMembers
<1>t. WifiTypeOK
  BY DEF ProvTypeOK
<1>k. /\ "OPEN_CONFIG" \notin BitEvent /\ "OPEN_CONFIG" \notin WifiStatus
      /\ "OPEN_CONFIG" \notin ConnectEvent
      /\ "CONFIG_READY" \notin BitEvent /\ "CONFIG_READY" \notin WifiStatus
      /\ NoEvent \notin BitEvent /\ NoEvent \notin ConnectEvent
  BY DEF BitEvent, WifiStatus, ConnectEvent
<1>1. CASE [WifiNext]_wifiVars
  BY <1>1, <1>t, PausingStep, ReconnectStep, WifiBitStep, AnnouncementsStep
     DEF WifiInv
<1>2. CASE TypeConfig
  <2>1. Post("OPEN_CONFIG") /\ UNCHANGED <<current, dropped, wifiOwnVars>>
    BY <1>2, TypeConfigPosts
  <2>3. \A K : ~NonePending(queue, K) => ~NonePending(queue', K)
    BY <1>t, <2>1, PostKeeps
  <2>4. \A K : "OPEN_CONFIG" \notin K =>
          /\ NonePending(queue', K) <=> NonePending(queue, K)
          /\ \A x \in K : Latest(queue', K, x) <=> Latest(queue, K, x)
    BY <1>t, <2>1, PostOther
  <2>5. ReconnectNeverLost'
    BY <2>1, <2>3 DEF wifiOwnVars, WifiInv, ReconnectNeverLost
  <2>6. WifiBitTracksLink'
    BY <2>1, <2>4, <1>k DEF wifiOwnVars, WifiInv, WifiBitTracksLink, BitEvent
  <2>7. AnnouncementsTrackBit'
    BY <2>1, <2>4, <1>k DEF wifiOwnVars, WifiInv, AnnouncementsTrackBit, WifiStatus
  <2> QED
    BY <2>1, <2>5, <2>6, <2>7 DEF wifiOwnVars, WifiInv, PausingHandler
<1>3. CASE OpenedEarly
  <2>1. /\ current = "OPEN_CONFIG" /\ current' = NoEvent
        /\ UNCHANGED <<queue, dropped, wifiOwnVars>>
    BY <1>3, OpenedEarlyEnds
  <2>3. ReconnectNeverLost'
    BY <2>1, <1>k DEF wifiOwnVars, WifiInv, ReconnectNeverLost
  <2>4. WifiBitTracksLink'
    BY <2>1, <1>k DEF wifiOwnVars, WifiInv, WifiBitTracksLink
  <2>5. AnnouncementsTrackBit'
    BY <2>1 DEF wifiOwnVars, WifiInv, AnnouncementsTrackBit
  <2>6. PausingHandler'
    BY <2>1 DEF wifiOwnVars, WifiInv, PausingHandler
  <2> QED
    BY <2>3, <2>4, <2>5, <2>6 DEF WifiInv
<1>4. CASE Boot
  <2>1. Boot
    BY <1>4
  <2>2. /\ current' = NoEvent /\ ~dropped' /\ configured' = flash
        /\ driver' = "off" /\ ~leaving' /\ retryCount' = 0
        /\ ~wifiReady' /\ ~pausing' /\ told' = "WIFI_DISCONNECTED"
        /\ dropped' = FALSE /\ leaving' = FALSE /\ wifiReady' = FALSE
        /\ pausing' = FALSE
    BY <2>1 DEF Boot
  <2>3. queue' \in {<<"CONFIG_READY">>, <<"OPEN_CONFIG", "CONFIG_READY">>}
    BY <2>1 DEF Boot
  <2>4. /\ ~NonePending(queue', {"CONFIG_READY"})
        /\ NonePending(queue', BitEvent) /\ NonePending(queue', WifiStatus)
        /\ \A x \in BitEvent : ~Latest(queue', BitEvent, x)
        /\ \A x \in WifiStatus : ~Latest(queue', WifiStatus, x)
    BY <2>3, <1>k, BootQueue
  <2>6. ReconnectNeverLost' /\ PausingHandler'
    BY <2>2, <2>4 DEF ReconnectNeverLost, PausingHandler
  <2>7. WifiBitTracksLink'
    BY <2>2, <2>4, <1>k DEF WifiBitTracksLink, BitEvent
  <2>8. AnnouncementsTrackBit'
    BY <2>2, <2>4 DEF AnnouncementsTrackBit, WifiStatus
  <2> QED
    BY <2>6, <2>7, <2>8 DEF WifiInv
<1> QED
  BY <1>1, <1>2, <1>3, <1>4, StepIsWifiStep

(* The station is never left idle for ever, across provisioning and every  *)
(* reboot: the handlers that configure it neither lose nor replace the     *)
(* event that connects it.                                                 *)
THEOREM ProvReconnectCorrect == ProvSpec => []ReconnectNeverLost
<1>1. ProvInit => WifiInv
  BY WifiInvInit DEF ProvInit
<1>2. WifiInv => ReconnectNeverLost
  BY DEF WifiInv
<1> QED
  BY <1>1, <1>2, WifiInvStep, ProvTypeCorrect, PTL DEF ProvSpec

(* SYS_WIFI_READY follows the link through provisioning and every reboot.  *)
THEOREM ProvWifiBitCorrect == ProvSpec => []WifiBitTracksLink
<1>1. ProvInit => WifiInv
  BY WifiInvInit DEF ProvInit
<1>2. WifiInv => WifiBitTracksLink
  BY DEF WifiInv
<1> QED
  BY <1>1, <1>2, WifiInvStep, ProvTypeCorrect, PTL DEF ProvSpec

(* The services are told what the bit says, through provisioning and every *)
(* reboot, unless a post of the loop was lost.                             *)
THEOREM ProvAnnouncementsCorrect == ProvSpec => []AnnouncementsTrackBit
<1>1. ProvInit => WifiInv
  BY WifiInvInit DEF ProvInit
<1>2. WifiInv => AnnouncementsTrackBit
  BY DEF WifiInv
<1> QED
  BY <1>1, <1>2, WifiInvStep, ProvTypeCorrect, PTL DEF ProvSpec

-----------------------------------------------------------------------------
(* Until provisioning was opened twice, or too early, at most one task can *)
(* have reached esp_smartconfig_start(), and it did after esp_wifi_init(). *)
OneOpening ==
  /\ ~early /\ opened < 2 =>
       starting + (IF sc = "off" THEN 0 ELSE 1) <= opened
  /\ ~early /\ starting > 0 => inited
  /\ AbortNeedsReopen

LEMMA OneOpeningStep == ProvTypeOK /\ OneOpening /\ [ProvNext]_provVars => OneOpening'
<1> SUFFICES ASSUME ProvTypeOK, OneOpening, [ProvNext]_provVars PROVE OneOpening'
  OBVIOUS
<1> USE DEF OneOpening, AbortNeedsReopen
<1>t. opened \in 0..2 /\ starting \in 0..2 /\ early \in BOOLEAN /\ inited \in BOOLEAN
  BY DEF ProvTypeOK
<1>1. CASE LoopTakes \/ WifiHandles \/ OtherHandler \/ Driver \/ OtherTask \/ TypeConfig
           \/ UNCHANGED provVars
  BY <1>1 DEF LoopTakes, WifiHandles, OtherHandler, Driver, OtherTask, TypeConfig,
              provVars, provOwnVars, scVars
<1>2. CASE StartWifi
  BY <1>2 DEF StartWifi, scVars
<1>3. CASE StartSmartConfig
  <2>1. /\ opened' = UpTo2(opened) /\ UNCHANGED <<inited, sc, device>>
        /\ starting' = UpTo2(starting) \/ starting' = starting
        /\ early' <=> early \/ ~inited
    BY <1>3 DEF StartSmartConfig
  <2>2. ~early' /\ opened' < 2 => starting' + (IF sc' = "off" THEN 0 ELSE 1) <= opened'
    BY <1>t, <2>1 DEF UpTo2
  <2>3. AbortNeedsReopen'
    BY <1>t, <2>1 DEF UpTo2
  <2> QED
    BY <2>1, <2>2, <2>3
<1>4. CASE GotPassword \/ PasswordWritten
  BY <1>4 DEF GotPassword, PasswordWritten, scVars
<1>5. CASE SmartConfigStarts
  BY <1>t, <1>5 DEF SmartConfigStarts
<1>6. CASE SmartConfigRefuses
  BY <1>t, <1>6 DEF SmartConfigRefuses, scVars
<1>7. CASE PhoneSends
  BY <1>t, <1>7 DEF PhoneSends
<1>8. CASE Reboot \/ PowerLoss
  BY <1>8 DEF Reboot, PowerLoss, Boot
<1> QED
  BY <1>1, <1>2, <1>3, <1>4, <1>5, <1>6, <1>7, <1>8 DEF ProvNext

(* esp_smartconfig_start() is refused, and the device aborted, only when   *)
(* provisioning was opened twice since the boot or before esp_wifi_init(). *)
THEOREM AbortCorrect == ProvSpec => []AbortNeedsReopen
<1>1. ProvInit => OneOpening
  BY DEF ProvInit, OneOpening, AbortNeedsReopen
<1>2. OneOpening => AbortNeedsReopen
  BY DEF OneOpening
<1> QED
  BY <1>1, <1>2, OneOpeningStep, ProvTypeCorrect, PTL DEF ProvSpec

=============================================================================
