# TLA+ models of esp8266-rtos-core

These modules model the parts of esp8266-rtos-core in which the order of events
decides whether the device works: the boot, the system loop and its event bus, the
WiFi and MQTT services that run on it, provisioning, the files the configuration is
kept in and what they say, the reassembly and the routing of MQTT messages, and the
web server with the portal's pages and the firmware update. TLC checks each on a
small instance; TLAPS proves the most important invariants for every value of the
constants. Paths below are relative to `src/`, the root of the repository
(the library's code is in `src/src/`).

## 1. The system

An application derives from `Application` (`src/src/Application.h`). `setup()`
initialises the SDK, lets the application construct its services through the
`Registry`, subscribes and starts them one by one, loads the properties from the
files of the storage partition, posts `SystemConfigReady`, sets `SYS_SETUP_DONE` and
returns. The console's task and the loop run while it does so; after that
everything happens in handlers.

### Tasks

| task | runs | posts |
|---|---|---|
| `main` | `Application::setup()` and the user's setup | `SystemConfigReady`, waiting for room |
| `sys_evt` (the loop) | every handler of every service; the WiFi handler sleeps 1 s in it | without waiting |
| the WiFi driver | association, DHCP | `WIFI_EVENT`, `IP_EVENT`, waiting for room |
| an esp-mqtt client's task | `MqttService::eventHandler()` | `MQTT_CONNECTED`, `MQTT_DISCONNECTED`, consumers' events |
| the timer task | callbacks of `EspTimer`, so `MqttService::connect()` | `SystemLookupDnsConfig` |
| the console's task | `setup_wifi`, `setup_mqtt`, `reset_conf`, `restart`, `config` and commands that print | `SystemOpenConfig` (`config`) |
| `httpd` | the portal's three pages and the update handler, one request at a time | - |
| `smartconfig_example_task` | `esp_smartconfig_start()`, then waits | what a phone sends is posted by the SDK |

There are no mutexes. What the tasks share are the event group's bits (`SYS_SETUP_DONE`,
`SYS_WIFI_READY`, `SYS_MQTT_READY`), the members of the services, the files, and the
queue of the loop.

### Components

| component | source | state | operations | correct when |
|---|---|---|---|---|
| Event bus | `EventBus.h`, `Event.h` | subscriber list, loop's queue, heap boxes | `post` (copy / box), `send`, `eventLoop`, `handleMessage` | every accepted event reaches every entry once, in order; a box has one owner and is deleted once |
| Registry, properties | `Registry.h`, `Properties.{h,cpp}` | services, `_subscribers`, `_consumers` | `create`, `subscribe`, `load`, `apply`, `fromJson`, `toJson` | an event is handled once by each part that declares it; each consumer holds what the files say |
| Application boot | `Application.h`, the example | `SYS_SETUP_DONE` | `setup`, `userSetup` | the station is started with the settings of the files, whatever is typed meanwhile |
| WiFi service | `system/wifi/WifiService.cpp` | `_ssid`, `_retryCount`, `SYS_WIFI_READY` | `start`, driver events, retry, announcements | never idle for ever; bit and announcements follow the link |
| MQTT connection | `system/mqtt/MqttService.{h,cpp}` | `_client`, `_state`, `_reconTimer`, `SYS_MQTT_READY` | `connect`, `destroyConnection`, `onEvent`, client callbacks, publisher | the attempt is never given up; no handle used after it is freed; the loop never waits for itself |
| MQTT messages | `MqttService.cpp:72-119` | `buffers`, `currentTopic` | `eventHandlerData` | a message is handed over whole, once |
| MQTT topics, subscriptions | `MqttService.cpp:7-50, 58-65, 237-259`, `MqttService.h:99-133` | `_handlers`, `_subscribed` | `compareTopics`, `_generateFullTopic`, `registerEventConsumer` | the broker's matching and the local one agree; each consumer is subscribed |
| Configuration files | `storage/Storage.h`, `config/*`, `smart_config/*` | three JSON files | save, load, reset, restart | nothing half written is applied; a setup takes effect |
| Provisioning | `ConfigurationService.cpp`, `SmartConfigService.cpp` | task, event group, esp_smartconfig | `SystemOpenConfig`, a phone's answer | offered as long as it is needed; what was received is used; never aborts |
| Portal | `ConfigPortal.cpp` | the server, its handlers, open files, a copy of the settings | `/`, `/get-config.json`, `/save-config.json` | shows the settings in force; saves both halves of a form; closes its files; ends each request |
| HTTP update | `system/ota/esp_httpd_ota.cpp` | partitions, boot partition, the request | `update_post_handler` | always bootable; the firmware changes only by a whole update |
| OTA service | `system/ota/OtaService.*` | `_reported` | version report, download | each boot reported at most once |
| Timers | `Timer.{h,cpp}` | `_callback`, timer handle | `attach`, `detach` | one callback at a time, the last one attached |
| Console, commands | `console/`, `command/` | command table | registration, dispatch | every command of every service is there when the prompt is |
| mDNS, look-up, utilities, FreeRTOS wrappers, `SoftwareTimer` | | | | see section 7 |

### How they interact

- A service posts an event; the loop calls every subscriber for it, in the order
  of the list. The list holds each service twice: `create()` adds it as the subscriber
  it is (`Registry.h:72-82`), `subscribe()` once more through a reinterpreted pointer
  (`:129-136`). The virtual function called through the second one is
  `getServiceId()`, which handles nothing.
- `WifiService` announces `WIFI_CONNECTED`/`WIFI_DISCONNECTED`; `MqttService`
  reacts to both and to its own `MQTT_*` announcements; `READY` makes the
  application report its version, which a publisher of `MqttService` sends.
- `MqttService::connect()` runs on the loop (for `WIFI_CONNECTED`) and on the timer
  task (100 ms after a disconnection), without a lock.
- Without an SSID, at the retry limit and on `config`, `SystemOpenConfig` is posted;
  depending on the build it starts smart config or the portal.
- The console, smart config and the portal write files and restart the device;
  `setup()` reads them again and gives each property set to its consumers.

### What is hard here

Handlers that wait on the only task that could end their wait; a state read on one task
and used after another changed it; announcements that sit in the queue while the truth
changes; a post that fails when the queue is full, unseen by its caller; files cut by a
power loss or by another task's restart; services started one by one while events and
typed lines already arrive; a file read while it is written; provisioning opened again
while it runs; a receive loop without an end; a buffer that keeps the rest of a broken
message. `PROJECT.json` lists each at its line under "hazards".

## 2. The modules

```
  EventDelivery         what the bus promises            SystemLoop    the loop as a service sees it
        ^                                                   ^  ^  ^
        |  DeliversInOrder, EveryEntryIsServed              |  |  | EXTENDS
        +------------- EventBus ----------------------------+  |  +---- WifiService
                              ImplementsSystemLoop             |            ^   ^ EXTENDS
                                                               | EXTENDS    |   +-- Provisioning
                                                   Settings <-- Boot        | EXTENDS; WifiSpec
                                                                            MqttService

  MqttTopics <-- MqttRouting (EXTENDS)       HttpdOta <-- WebServer (EXTENDS; refines OtaSpec)

  ConfigStore      MqttMessages              (independent of the loop)
```

- **SystemLoop**: the queue, the event being handled, and whether a post of the
  loop has failed. `Post` is a post by another task, enabled when there is room;
  `PostFromLoop` is a post by a handler, which fails at once when there is none.
- **EventBus**: `post()` of the two kinds, boxes, nested `send()`, dispatch entry
  by entry (`_subscribers`, `handleMessage`). It is shown to implement both
  abstract specifications: `EventDelivery` (with its own fairness) and
  `SystemLoop`, on which the services are then modelled.
- **Settings**: the three property sets, `fromJson()` and `toJson()` over the items of a
  parsed object (a key may be unknown, come twice or have another type), and which
  consumers take which set. A file is taken to hold a JSON object: the items of an array
  have no key, and `strcmp()` is given a null pointer (`Properties.cpp:7`).
- **Boot** extends both: the main task's `setup()` call by call (construct, subscribe
  and start, load, announce, `SYS_SETUP_DONE`), with the subscriber list, the command
  table and the consumers as they grow; the console's task; the dispatch over the list,
  entry by entry, with each part's `onEvent()` reduced to what it posts and what it
  tells other parts; the broker. `MqttService`'s wait for WiFi can stop the loop
  (`stopped`), and in a build without the portal the task of smart config can abort the
  program when `config` is typed before `esp_wifi_init()` (`SmartConfigTask`). Event ids
  are computed as `DEF_MSG_ID` does, as it is by id that an entry recognises its event.
- **WifiService**: `_ssid` is `configured`, `_retryCount`, the `SYS_WIFI_READY` bit,
  and the driver: `eventHandler()` is split at `vTaskDelay(1000)` (`StaDisconnected`,
  `StaRetry`), during which other tasks post. The driver is external and answers
  as the code expects it to: a connect with success or failure, a disconnect
  always, and a lease may change its address.
- **Provisioning** extends it with smart config: `SystemOpenConfig`, the task that
  starts esp_smartconfig and may abort in `ESP_ERROR_CHECK`, the phone, the save, of
  which each call may fail and during which power may be lost (`unsaved`), the restart,
  and the next boot with what the file then holds.
- **MqttService** extends WifiService: the loop and the timer task as callers of
  `connect()`, which is one action for each of its blocking or interleavable steps
  (`DestroyBegin`, `DestroyEnd`, `ClearClient`, `InitClient`, `RegisterEvents`,
  `StartClient`), each reading `_client` again as the code does; `onEvent()` by event;
  publishers in two steps, check and call; one task for each esp-mqtt handle, which
  subscribes on `_client` between its connection and the announcement of it; and a task
  that registers a consumer late. A client that is started before its handler is
  registered connects unheard. A misuse of a handle (undefined behaviour) sets `fault`,
  to the task that misused it, and ends the behaviour, so that no property rests on what
  happens after it.
- **ConfigStore**: three files, each a sequence of parts; writers at their own
  offsets; power loss in every state; a restart by one task while others write;
  `setup()`, which reads part by part and may do so while a file is written (`beside`);
  what each load gives to the consumers (`applied`). `answer` is the task that answers
  `SystemOpenConfig`: the loop with smart config, or the web server with the portal.
- **HttpdOta**: `update_post_handler()` between its calls to the SDK, the partition
  table, the browser, power loss.
- **WebServer** extends it with the portal: the server started at most once and its
  handlers registered one by one, the page with its `FILE` and its buffer, the form
  with its two saves and its restart. One task serves one request at a time, an
  upload like a page.
- **MqttMessages**: `eventHandlerData()` with its static buffers and topic. The topic is
  read without a terminator, so the key may be the topic or `Garbled`, under which a
  message is kept but reaches no handler.
- **MqttTopics**: `_generateFullTopic()` and `compareTopics()` as functions of topics,
  character by character, as the loop's two iterators are what it can get wrong;
  beside them the broker's matching, level by level, as reference. Where the
  loop steps over an `end()`, the outcome is undefined: either is possible.
- **MqttRouting** uses them: `_handlers` and `_subscribed` between the registering task
  and the client's, the broker's subscriptions of one connection, and the consumers a
  message is given to. A message is compared as its topic was read, which may be past
  its end (`Stray`); the client may refuse a subscription. Registration and the test of
  `_subscribed` are two steps, and so is each subscription of a new connection.
- **...Proofs**: the theorems: one module for each specification, except that those of
  HttpdOta are in `WebServerProofs`, and those of MqttRouting and MqttMessages, with the
  lemmas about MqttTopics, in `MqttClientProofs`.
- **MC...** modules give a specification small constants, with the `.cfg` beside them.

Definitions commented "Mutant" are plausible bugs. Nothing uses them; put in the
place of the definition that follows them they violate the property named in
`PROJECT.json`, which shows that the run can fail.

## 3. The runs

| run | question | result |
|---|---|---|
| `boot` | Is every event handled once by each part that declares it, and every setting held by its consumers, with a line typed and events posted during `setup()`? Are the commands complete, and what the portal shows true? Is the station started, and the version published once? | holds, but for a portal opened before the files are loaded, a build without one that aborts when opened early, and a version whose event or first connection is lost or before which MqttService stopped the loop |
| `provisioning` | Does WiFi keep its promises with smart config beside it, through reboots and aborts? When can `esp_smartconfig_start()` abort? Is what a phone sent used, and is a stranded device offered provisioning again? | holds, but for a save that failed or was cut; aborts need a second opening or an early one |
| `provisioning_abort` | Can the device abort with nothing typed? | it can (section 6) |
| `mqtt_service` | Is a broker attempt ever given up? Who can misuse a handle, and while who is inside `connect()`? | never given up; the loop and the timer only together or by a publisher before the first client, a registering task beside one call, a client's task beside one call after two have overlapped |
| `mqtt_recovery` | Does the connection come up and stay once the network stops failing? Does the composition behave as `WifiSpec`? | holds, except in the two self-waits, when leaked handles have used up the memory and when overlapping calls brought up a connection unheard |
| `mqtt_deadlock` | Can the loop wait for a bit its own handler sets? | it can (section 6) |
| `mqtt_publish` | Can a message be published without a client? | it can (section 6) |
| `event_bus` | Does every accepted event reach every entry, once and in order? Who owns a box? Is this the loop the services rely on? | holds; delivery in the end if handlers return |
| `config_store` | Is a half written file ever applied, or left without a reason? Does a setup command take effect after the restart? | holds with either answer to `SystemOpenConfig`, unless two tasks write, one writes what `setup()` is reading, or a save fails or is cut off |
| `web_server` | With pages and uploads on one server: is the device always bootable? Does firmware change only by a whole update? Is a file left open or a form half saved? Does each request end? | holds, except that both kinds of request wait for a silent browser |
| `mqtt_messages` | Are messages of up to two parts handed over whole? | holds, but for a topic read past its end and for what follows a longer or broken message under the same topic, until a message of one part |
| `mqtt_routing` | Is every consumer subscribed? Does the local matching agree with the broker's? | holds, but for a consumer registered beside the first subscriptions or refused, a topic read past its end, `#`, empty levels and the character after a slash |

WifiService has no run of its own: `provisioning` checks its invariants and
`LinkRecovers` in a larger system, and `mqtt_recovery` that the composition with MQTT
is a behaviour of `WifiSpec`, of which the invariants are proved.

### Bounds

- `QueueSize`: 3 slots in Provisioning, so that two link events and an announcement
  wait together; 2 with MQTT and in EventBus; 1 in Boot, where a line or a handler fills
  it before the main task posts. The example's queue has 64. A
  small queue adds behaviours instead of removing them (posts that fail, tasks that
  wait), and the order of two waiting events is all that the handlers tell apart.
  The theorems hold for every size (from 2 in Provisioning, where each boot begins
  with what `setup()` has posted).
- `NextWithRoom` in `mqtt_service` and `mqtt_recovery`: a behaviour ends with the first
  post that fails. `AttemptNeverLost` and `ConnectionRecovers` say nothing after it;
  `FaultNeedsOverlap` and `WifiSpec` do, and are proved without the bound.
- `RetryLimit`: 2 for the literal 60, so that a lost link is announced and retried
  before the limit, and the connection recovers from it; 1 in `mqtt_deadlock` and
  `mqtt_publish`. `_retryCount` is only compared with it.
- `RecoveryNext`: from the first overlap of two calls of `connect()` on, one event waits
  at a time, and a freed handle's memory is given out before fresh one; the behaviour
  stops short of a misused handle. Without an overlap both slots are used: WiFi is lost
  while MQTT is connected, the disconnection is taken while `_state` is `wifiDown`
  before and after the link is back, and the loop runs into both self-waits. Without
  any of the three exemptions the property fails.
- `MaxTyped`: one line, at every stage. It opens provisioning early or a second time,
  beside what WifiService opens by itself. None in `provisioning_abort`.
- `MaxUps`: two connections to the broker, so that a second could report again.
- `MCFiles`: four flash contents, in which each file is seen as written by the
  program, as edited by hand (a key twice, another type, unknown, missing) or missing,
  with and without a station and a broker address.
- `Handle`: two, so that one is left behind. A third adds only more leaks of the same
  kind.
- `Entries`, `Box`, `Task`, `MaxPosts`, `MaxDepth` in EventBus: two entries, so that an
  event is half delivered; one task beside the loop, as the handlers post too;
  three boxes, so that one waits, one is dispatched and one is being filled; four
  posts; `send()` nested once. The bounds on posts and depth are guards of the
  actions and end a behaviour.
- `Parts`: two, so that a save stops half way, as after the first 1024-byte part
  (`Storage.h:54`), and so does a load, which reads 63 characters at a time; two
  contents, so that they can be mixed.
- `Slot`, `MaxChunks`: two partitions, as in the SDK's table; three reads: a first, a
  middle and a last one. `MaxFiles`: two of the ten, so that one can stay open and
  another be opened.
- `MaxParts`/`MaxMessages`: three and five: a long message spoils a key, another
  topic's passes in between, and more than two follow on the spoiled key.
- `MaxHandlers`: two consumers, with six paths (plain, and each wildcard in the middle
  and at the end) of each type. Topics have one to three levels, each empty, of one
  character or of two: enough to differ before, at and after every character the
  comparison looks at. `Stray`, what is read past a topic's end: nothing, one more
  character of the last level, another level, a wildcard.
- In Provisioning, `opened` and `starting` count up to two: the code cannot tell a
  third task from a second.

### Symmetry and deadlock

Symmetry is used for handles (`mqtt_service`) and topics as names (`mqtt_messages`),
which the code treats alike, and only in runs without liveness properties.
`CHECK_DEADLOCK FALSE` is said of the MqttService runs, which do stop (a misused
handle, and the two self-waits of section 6: the second of them stops the loop with
everybody waiting for room), and of Boot, EventBus and MqttMessages, where
everything comes to rest at the bounds on lines, connections, posts and messages.
The other runs check for deadlock.

## 4. Fairness

- *MqttService* has one condition for each task, as a task has one program: weak for the
  loop and the timer, which stay where they are until they can go on, strong for the
  driver and for each client's task, which wait for room.
- *The loop's task.* It runs when it has an event: weak fairness of taking and
  handling. A handler of another service returns in the end (`OtherHandlerDone`); in
  EventBus a handler of a posted event does, whatever it sends (strong fairness of
  `EntryReturns` at depth 1, as nested sends interrupt it again and again).
- *Posts by other tasks.* They wait for room, and FreeRTOS serves the waiting tasks by
  priority; the driver and the clients are above the application's tasks. Room
  comes and goes, so this is strong fairness.
- *The main task* (Boot) runs. Its one post waits behind tasks of a higher priority,
  but the loop always makes room again: strong fairness of `Announce`. The broker is
  given none: `VersionIsPublished` starts from a connection.
- *The driver* answers start, connect and disconnect; an answer may be a failure
  (`AttemptAnswered`). The network is assumed to stop failing only inside the recovery
  properties, as an antecedent.
- *The broker.* An attempt ends, in `ClientConnects` or in `ClientFails`.
- *The look-up* (`LookupAnswered`) is given no fairness: nothing makes a service answer.
- *Provisioning.* The task created for smart config runs, the save under way ends, and
  a device that restarts or has aborted boots. Nobody has to use a phone, and nothing
  makes a power loss happen or not.
- *Files.* A save under way goes on, a restart asked for happens (the loop makes room
  for `SystemShutdown`, which it posts first), `setup()` reads on and loads; nothing makes
  a user type and nothing prevents a power loss.
- *The web server's task* runs, and a browser that is there sends its body; it may
  leave at any time.

## 5. The proofs

`tlapm` checks every proof; the assumptions on the constants are the named ASSUMEs
of the modules, which TLC evaluates in the runs.

**WifiServiceProofs**: `WifiTypeCorrect`, `ReconnectCorrect`, `WifiBitCorrect`,
`AnnouncementsCorrect`: `WifiSpec => []I` for the types and the three invariants that
`provisioning` checks of the larger system, for every queue size, retry limit and set
of foreign events. They carry over to MqttService. `ReconnectNeverLost` and
`AnnouncementsTrackBit` are preserved by every step from a typed state;
`WifiBitTracksLink` needs in addition that a pause is a pause in a handler of
`STA_DISCONNECTED` (`PausingHandler`), proved beside it. The proof goes by lemmas about the
queue: what `Append` and `Tail` do to "no event of kind K waits" (`NonePending`) and
"the youngest event of kind K is e" (`Latest`), and that a post of the loop is one or
the other. One step per action, under it one per conjunct the action can disturb.

**ProvisioningProofs**: `ProvTypeCorrect`, the same three WiFi invariants
(`ProvReconnectCorrect`, `ProvWifiBitCorrect`, `ProvAnnouncementsCorrect`) and
`AbortCorrect` (`AbortNeedsReopen`), for every queue size from 2, retry limit and number
of lines. A reboot is no step of `WifiSpec`, so the invariants are not inherited.
Instead every step is shown to be a WiFi step or one of three: a line is typed,
provisioning is opened before `esp_wifi_init()`, the device boots (`StepIsWifiStep`);
the first kind preserves the invariants by the lemmas of `WifiServiceProofs`, and the
three are looked at one by one. `AbortNeedsReopen` needs `OneOpening`: until a second
opening the tasks that are to start esp_smartconfig and the run of it are together no
more than one.

**MqttServiceProofs**: `MqttTypeCorrect`; `MqttImplementsWifi` (`MqttSpec => WifiSpec`:
each step of the composition is a WiFi step or leaves the WiFi state alone, so all WiFi
theorems hold of the composition); `OverlapCorrect` (`MqttSpec => FaultNeedsOverlap`):
the loop and the timer misuse a handle only while both are inside the client code, or by
a publisher when there is no client at all (`NoClient`); a task that registers a
consumer only while `connect()` runs, be it once; the task of a client only if, besides,
two calls have overlapped before. The invariant behind it, `HandleInv`: a handle being
destroyed has a caller that destroys it; `_client` points to a freed handle, is null or
has no handler registered only while a caller is at the step of `connect()` that
explains it, or is null before the first client (`FreedHasCaller`, `NullHasCaller`,
`SilentHasCaller`); and as long as no two calls have overlapped, the client in `_client`
is the only one (`Alone`), so that a client's task that finds another there has been
left behind by an overlap.

There too: `AttemptCorrect` (`AttemptNeverLost`), for every queue size, retry limit and
number of handles. It is not inductive: a handler that drops a disconnection because
`_state` says that WiFi is down (`OnMqttDisconnectedWifiDown`) is right only if a
`WIFI_CONNECTED` still waits when the bit is set. The invariant adds what `WifiService`
guarantees about that (`WifiHeardInv`: no pause with the bit set, `told` is the status
being handled, and a set bit has been announced last), proved of `WifiSpec` and
inherited through `MqttImplementsWifi`; that `_state` is `wifiDown` only after
`WIFI_DISCONNECTED` was the last status heard (`StateHeard`); and `HandleInv`.

**WebServerProofs**: of HttpdOta, `OtaTypeCorrect`, `BootableCorrect` (`AlwaysBootable`)
and `SwitchCorrect` (`SwitchNeedsUpdate`), for any number of partitions and reads, from
an invariant that says of every point of the handler what the target partition holds and
that the target is not the running one. Then `WebImplementsOta` (`WebSpec => OtaSpec`:
what the pages do is a stutter of the update, and their restart is a power loss to it),
so that `WebBootable` and `WebSwitch` follow; `WebTypeCorrect`; and
`NothingLeftOverCorrect` (`NothingLeftOver`). That property is about the moments between
two requests; the invariant `WebInv` says what a request has borrowed at each step of
its handler: `FileHeld`, that the page has one `FILE` from its `fopen()` on, and
`FormHeld`, that the form has one of its halves saved.

**ConfigStoreProofs**: `StoreTypeCorrect`, `TornCorrect` (`TornNeedsCause`) and
`AppliedCorrect` (`AppliedIsWhole`), for every number of parts and contents. The invariant
adds, of a file with no overlap, that whoever has it open is alone and has written
exactly the parts before its own (`WritingAlone`), and that all the parts it holds come
from one save (`OneContent`): a file that parses is therefore one content. Of the file
being read it adds that what was read is what the file holds up to that place, unless a
task has written it since it was opened (`ReadInv`, `beside`).

**EventBusProofs**: `BusTypeCorrect`, `OwnerCorrect` (`BoxHasOneOwner`),
`DeliveryCorrect` (`DeliversInOrder`: `BusSpec` implements `EventDelivery`) and
`LoopCorrect` (`ImplementsSystemLoop`), for every queue size and number of entries,
boxes and tasks. `NestInv`: only the loop's own dispatch is of a box, as `send()` is
given an event. `OwnInv`: a box is in one place only of the queue, a posting task and
that dispatch, and lives as long as it is in one. `SeenInv`: what waits is the end of
what was accepted, and each entry has got all that was taken before, and the event under
way if it was called. Each refinement is then one lemma for each action.

**MqttClientProofs**, of MqttRouting: `RoutingTypeCorrect` and `SubscribedCorrect`
(`EveryConsumerSubscribed`), for every set of paths and number of consumers. While the
client's task iterates, an entry is subscribed, still to be visited, half registered,
or one that raced (`ServedInv`); and a connection that is up has set `_subscribed`
(`LinkInv`), so that a late registration subscribes itself.

`MatchedCorrect` (`MatchedIsHandled`) and `AlikeCorrect` (`HandledIsAlike`) are about
`compareTopics()` against the broker's matching, for every path, topic and prefix of any
length. That the comparison is the loop it is written as (`CompareIs`) and the levels
are what extending them character by character gives (`LevelsGrow`) is proved by
induction, over how far the topic has been read. For the first theorem, the levels of a
topic are located in it (`Cut`), and on a path and a topic that match the loop stays at
corresponding characters of corresponding levels (`InStep`, `StepFollows`) until both
end. It speaks of a topic read as it was sent. For the second, which speaks of the topic
as it was read, nothing is known of it: from the place where the loop begins, the proof
builds the topic it takes the message's for (`Fits`), whose levels match those of the
path read so far, and shows of each state of the loop that it refuses, goes on to a
place that fits, or ends in a match (`CharFollows`, `SlashFollows`, `EndMatches`). That
no place past an end is reached needs the two cases the property leaves out: a level of
the path is not empty (`LevelIsNotEmpty`), and a last `+` meets no more levels
(`LastPlusIsLast`). The assumptions about topics (`RoutingAssumption`) are the MQTT
standard's: no wildcard in a message's topic and, for `AlikeCorrect`, a `+` that is a
level of its own, as a broker refuses other filters.

Of MqttMessages: `MessagesTypeCorrect` and `ShortMessagesCorrect`
(`ShortMessagesArrive`), for every number and length of messages. The property speaks of
the event of a last part; the invariant says what the buffers hold between two events:
nothing under a key that is not spoiled (`BuffersClean`), but for the first part of the
message that is coming (`ComingKept`). A key is spoiled by a message that breaks off or
has more than two parts, until a message of one part comes under it.

**BootProofs**: `FromJsonSays` and `RoundTrip` are about the property sets: `fromJson()`
reads of a list of items of any length what `Says` says of each key (the last good
value), and `toJson()` writes what it reads back. Then, for every queue size, flash
content, and number of lines and connections, `BootTypeCorrect`, `HandledCorrect`
(`HandledExactlyOnce`), `SettingsCorrect` (`SettingsAreHeld`), `ConsoleCorrect`
(`ConsoleIsComplete`), `PortalCorrect` (`PortalShowsSettings`) and `VersionOnce`, that
the version is published at most once: the safety part of `VersionIsPublished`. The
invariant `BootInv` says, for every point of `setup()`, who is in the list and how often
(`SubscribedInv`), that before the console's task runs nothing is posted, handled or
started and `config` is no command yet (`QuietInv`), whom the dispatch, which may go
over a list that still grows, has passed (`ServedInv`), which files were read
(`HeldInv`), and in which of queue, dispatch and past the one report of the version is
(`VersionInv`).

*Induction.* The library's induction theorems take an operator as a parameter, which none
of the provers can instantiate. What is used here instead is `NatSetInduction`, about a
set of numbers, proved from the well-foundedness of `<`; recursion is written as
recursive functions, on which it works.

**Only model-checked**: liveness (`LinkRecovers`, `ConnectionRecovers`,
`EveryEntryIsServed`, `SetupTakesEffect`, `StationIsStarted`, `VersionIsPublished`,
`ReceivedIsUsed`, `StrandedIsOffered`, `RequestEnds`), as the prover has no reasoning
under fairness. Every invariant and every other property of the passing runs is stated
by a theorem. `WifiTypeOK` and `OtaTypeOK` are proved and not checked by a run, as the
types of the modules that extend theirs include them.

## 6. What the runs found

Three runs show a disagreement between the code and its own words:

1. `mqtt_deadlock`: `MqttService.cpp:213` waits on the loop, without limit, for
   `SYS_WIFI_READY`. The bit is set by a handler of the same loop. When WiFi is lost
   while the older `MQTT_CONNECTED` still waits in the queue, `_state` is overwritten and
   the disconnection that follows blocks the loop for ever.
2. `mqtt_publish`: the publisher's test (`MqttService.h:143`) asks whether any bit of the
   event group is set, and `SYS_SETUP_DONE` is from the end of `setup()` on: the branch
   that says "client not ready" (`:184`) is never taken. Before the first connection
   `_client` is null; later the timer's `connect()` may be replacing it between test
   and use.
3. `provisioning_abort`: `SmartConfigService.cpp:18` asserts that smart config can be
   started. At the retry limit WifiService asks for it and tries once more; opening it
   disconnects, whose handler asks for it again, and the second
   `esp_smartconfig_start()` fails while the first runs: the device reboots about a
   second after it began to wait for a phone.

Plain from the code, and kept in the models: `MqttService.cpp:92` uses `emplace()` where
the entry must be replaced, so a message of more than two parts is never complete; the
portal answers and logs success whatever the writes did (`ConfigPortal.cpp:94-106`), and
leaves the page's file open when it gets no buffer (`:140`); the update handler retries a
failed receive for ever (`esp_httpd_ota.cpp:64`), does not end the ota handle when it
fails (`:54`) and tells the browser "Done" before
the image is validated (`:98-112`); the case of a broadcast consumer falls through
to that of a suffix consumer (`MqttService.cpp:250-254`); `compareTopics()` does not
compare the character after a slash and can step over an `end()` (`:27-42`);
`OtaService` does not subscribe to `OtaEvent` (`OtaService.h:11`), so an offered version is
delivered and downloaded by nobody; `_reported` is set before the report is known to
have gone out (`OtaService.cpp:78`).

Met while reading, outside the models: `set_number_to_nvs` (`Utils.h:67-80`) inverts
its result; `ConfigurationService.h:7` tests `CONFIG_SUPPROT_CONFIG_PORTAL`, so a build
with `CONFIG_SUPPORT_CONFIG_PORTAL` does not compile (an application can still open a
`ConfigPortal` itself, which is the portal of ConfigStore); the handles
`WifiService::stop()` unregisters are never assigned; the text "Retry after 10s" goes
with 30000 ms (`ConfigurationService.cpp:208-229`, code without a caller);
`esp_httpd_ota.h:25` says `/update`, the code `/upgrade.json`.

## 7. What is not modelled

- *SDK, driver, broker, flash, cJSON.* They are external: modelled by how the code uses
  them (marked so in the map). Assumed: a post of another task waits for room and one of
  the loop's own task fails at once on a full queue; SPIFFS stores the part it is given,
  so that `fclose()` (`Storage.h:74`) has nothing left to lose;
  `esp_mqtt_client_destroy()` waits for the client's task and then frees the handle.
- *Formats.* A file is its items in Settings and parses or does not in ConfigStore;
  addresses and logging are left out. A file that holds an array is left out, as
  section 2 says. Topics are texts in MqttTopics only, and names
  elsewhere.
- *`EspTimer::attach()` beside a callback that runs* (`Timer.cpp:10`). It replaces a
  `std::function` by an equal one: what goes wrong is inside `std::function`, which no
  state of a model has. The timer is `armed` in MqttService.
- *The firmware download over HTTPS* (`OtaService.cpp:9-70`). Nothing reaches it, as
  section 6 says.
- *`_errorCount`* (`MqttService.cpp:120-130`): the 60th error of the uptime restarts the
  device, as a power loss does in ConfigStore and WebServer.
- *Functions nobody calls*: `SoftwareTimer` and `TimerEvent`, `_requestMqttConfig()` and
  `ServerResponse`, `unsubscribe()`, `WifiService::stop()`.
- *Console and commands that print, the line editor, mDNS queries, NVS helpers, Logger,
  Utils*: calls to the SDK and text handling without a state of their own that others
  read.
- *Generated files.* `cmake-build-esp8266-rtos-sdk/` is the output of a build, most of
  it CMake's checks of the compilers, and no part of the program.
- *Memory exhaustion*, except for handles (`HandlesExhausted`), the web server's buffers
  and the smart config task.

## 8. Plan

Written in the order of importance; all of it is in this project.

1. SystemLoop, WifiService. 2. MqttService. 3. EventBus and its two abstract
specifications. 4. ConfigStore. 5. HttpdOta. 6. MqttMessages. 7. MqttTopics and
MqttRouting. 8. Settings and Boot. 9. Provisioning. 10. WebServer.
Theorems of each.

What is left:

- Boot composed with MqttService, so that the version report meets the publisher's
  test and the handles, and not only the broker;
- `_errorCount` and its restart, composed with ConfigStore's saves;
- theorems: the safety parts of the liveness properties that have one, as `VersionOnce`
  is of `VersionIsPublished`.
