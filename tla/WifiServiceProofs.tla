------------------------- MODULE WifiServiceProofs -------------------------
(***************************************************************************)
(* Theorems about WifiService for every queue size, retry limit and set of *)
(* application events.  The inductive invariant is WifiInv, the type       *)
(* invariant together with the three safety invariants; each of them is    *)
(* preserved with the help of WifiTypeOK alone.                            *)
(***************************************************************************)
EXTENDS WifiService, TLAPS

-----------------------------------------------------------------------------
(* Lemmas about the queue: what Append and Tail do to the pending events.  *)

(* An event of another kind appended to the queue hides no pending event.  *)
LEMMA AppendOther ==
  ASSUME NEW S, NEW q \in Seq(S), NEW K, NEW e \in S, e \notin K
  PROVE  /\ NonePending(Append(q, e), K) <=> NonePending(q, K)
         /\ \A x \in K : Latest(Append(q, e), K, x) <=> Latest(q, K, x)
<1> DEFINE r == Append(q, e)
<1>1. /\ Len(q) \in Nat /\ Len(r) = Len(q) + 1
      /\ r[Len(q) + 1] = e
      /\ \A i \in 1..Len(q) : r[i] = q[i]
  OBVIOUS
<1>2. NonePending(r, K) <=> NonePending(q, K)
  BY <1>1 DEF NonePending
<1>3. ASSUME NEW x \in K
      PROVE  Latest(r, K, x) <=> Latest(q, K, x)
  <2>1. ASSUME Latest(r, K, x) PROVE Latest(q, K, x)
    <3>1. PICK i \in 1..Len(r) : r[i] = x /\ \A j \in 1..Len(r) : j > i => r[j] \notin K
      BY <2>1 DEF Latest
    <3>2. i \in 1..Len(q)
      BY <3>1, <1>1
    <3> QED
      BY <3>1, <3>2, <1>1 DEF Latest
  <2>2. ASSUME Latest(q, K, x) PROVE Latest(r, K, x)
    <3>1. PICK i \in 1..Len(q) : q[i] = x /\ \A j \in 1..Len(q) : j > i => q[j] \notin K
      BY <2>2 DEF Latest
    <3>2. \A j \in 1..Len(r) : j > i => r[j] \notin K
      BY <3>1, <1>1
    <3> QED
      BY <3>1, <3>2, <1>1 DEF Latest
  <2> QED
    BY <2>1, <2>2
<1> QED
  BY <1>2, <1>3

(* An event of the kind appended to the queue is pending and the youngest. *)
LEMMA AppendSame ==
  ASSUME NEW S, NEW q \in Seq(S), NEW K, NEW e \in S, e \in K
  PROVE  /\ ~NonePending(Append(q, e), K)
         /\ \A x \in K : Latest(Append(q, e), K, x) <=> x = e
<1> DEFINE r == Append(q, e)
<1>1. /\ Len(q) \in Nat /\ Len(r) = Len(q) + 1
      /\ r[Len(q) + 1] = e
  OBVIOUS
<1>2. ~NonePending(r, K)
  BY <1>1 DEF NonePending
<1>3. ASSUME NEW x \in K, Latest(r, K, x) PROVE x = e
  <2>1. PICK i \in 1..Len(r) : r[i] = x /\ \A j \in 1..Len(r) : j > i => r[j] \notin K
    BY <1>3 DEF Latest
  <2>2. i = Len(q) + 1
    BY <2>1, <1>1
  <2> QED
    BY <2>1, <2>2, <1>1
<1>4. Latest(r, K, e)
  BY <1>1 DEF Latest
<1> QED
  BY <1>2, <1>3, <1>4

(* Taking the head leaves every younger event pending; only the head can   *)
(* have been the last of its kind.                                         *)
LEMMA TakeHead ==
  ASSUME NEW S, NEW q \in Seq(S), q # <<>>, NEW K
  PROVE  /\ \A x \in K : Latest(Tail(q), K, x) => Latest(q, K, x)
         /\ NonePending(Tail(q), K) /\ Head(q) \in K => Latest(q, K, Head(q))
         /\ NonePending(Tail(q), K) /\ Head(q) \notin K => NonePending(q, K)
<1> DEFINE t == Tail(q)
<1>1. /\ Len(q) \in Nat \ {0} /\ Len(t) = Len(q) - 1
      /\ \A i \in 1..Len(t) : t[i] = q[i + 1]
      /\ Head(q) = q[1]
  OBVIOUS
<1>2. \A j \in 1..Len(q) : j > 1 => j - 1 \in 1..Len(t) /\ q[j] = t[j - 1]
  BY <1>1
<1>3. ASSUME NEW x \in K, Latest(t, K, x) PROVE Latest(q, K, x)
  <2>1. PICK i \in 1..Len(t) : t[i] = x /\ \A j \in 1..Len(t) : j > i => t[j] \notin K
    BY <1>3 DEF Latest
  <2>2. i + 1 \in 1..Len(q) /\ q[i + 1] = x
    BY <2>1, <1>1
  <2>3. \A j \in 1..Len(q) : j > i + 1 => q[j] \notin K
    <3> TAKE j \in 1..Len(q)
    <3> HAVE j > i + 1
    <3>1. j - 1 \in 1..Len(t) /\ q[j] = t[j - 1] /\ j - 1 > i
      BY <1>2, <1>1
    <3> QED
      BY <3>1, <2>1
  <2> QED
    BY <2>2, <2>3 DEF Latest
<1>4. ASSUME NonePending(t, K) PROVE \A j \in 1..Len(q) : j > 1 => q[j] \notin K
  BY <1>4, <1>2 DEF NonePending
<1>5. NonePending(t, K) /\ Head(q) \in K => Latest(q, K, Head(q))
  BY <1>4, <1>1 DEF Latest
<1>6. NonePending(t, K) /\ Head(q) \notin K => NonePending(q, K)
  BY <1>4, <1>1 DEF NonePending
<1> QED
  BY <1>3, <1>5, <1>6

-----------------------------------------------------------------------------
(* The four events eventHandler and the driver exchange belong to Event.   *)
LEMMA EventMembers ==
  /\ {"CONFIG_READY", "OPEN_CONFIG", "STA_START", "STA_DISCONNECTED", "GOT_IP",
      "WIFI_CONNECTED", "WIFI_DISCONNECTED"} \subseteq Event
  /\ AppEvent \subseteq Event
  /\ \A e \in AppEvent : e \notin SystemEvent
  /\ NoEvent \notin Event
BY WifiAssumption DEF Event, SystemEvent, DriverEvent, WifiStatus

(* A post keeps the queue a bounded sequence of events. *)
LEMMA AppendBounded ==
  ASSUME NEW q \in Seq(Event), NEW e \in Event, Len(q) < QueueSize
  PROVE  Append(q, e) \in Seq(Event) /\ Len(Append(q, e)) \in 0..QueueSize
BY QueueSizeAssumption

(* Both forms of post, from any task and from the loop, do. *)
LEMMA PostBounded ==
  ASSUME WifiTypeOK, NEW e \in Event, Post(e) \/ PostFromLoop(e)
  PROVE  queue' \in Seq(Event) /\ Len(queue') \in 0..QueueSize /\ dropped' \in BOOLEAN
BY AppendBounded DEF WifiTypeOK, Post, PostFromLoop, HasRoom

THEOREM WifiTypeInit == WifiInit => WifiTypeOK
<1> SUFFICES ASSUME WifiInit PROVE WifiTypeOK
  OBVIOUS
<1>1. queue = <<"CONFIG_READY">> /\ current = NoEvent /\ dropped = FALSE
  BY DEF WifiInit, LoopInit
<1>2. queue \in Seq(Event) /\ Len(queue) = 1
  BY <1>1, EventMembers
<1>3. Len(queue) \in 0..QueueSize /\ 0 \in 0..RetryLimit
  BY <1>2, QueueSizeAssumption, WifiAssumption
<1> QED
  BY <1>1, <1>2, <1>3 DEF WifiInit, WifiTypeOK, WifiStatus

THEOREM WifiTypeStep == WifiTypeOK /\ [WifiNext]_wifiVars => WifiTypeOK'
<1> SUFFICES ASSUME WifiTypeOK, [WifiNext]_wifiVars PROVE WifiTypeOK'
  OBVIOUS
<1> USE EventMembers, WifiAssumption
<1>1. CASE WifiTake
  <2>1. Head(queue) \in Event /\ Tail(queue) \in Seq(Event)
        /\ Len(Tail(queue)) \in 0..QueueSize
    BY <1>1, QueueSizeAssumption DEF WifiTake, Take, WifiTypeOK
  <2> QED
    BY <1>1, <2>1 DEF WifiTake, Take, WifiTypeOK
<1>2. CASE ConfigReady
  BY <1>2, PostBounded DEF ConfigReady, Done, Start, WifiTypeOK
<1>3. CASE StaStart
  BY <1>3 DEF StaStart, Done, Connect, WifiTypeOK
<1>4. CASE StaDisconnected
  BY <1>4, PostBounded DEF StaDisconnected, WifiTypeOK
<1>5. CASE StaRetry
  <2>1. retryCount' \in 0..RetryLimit
    BY <1>5 DEF StaRetry, WifiTypeOK
  <2>2. queue' \in Seq(Event) /\ Len(queue') \in 0..QueueSize /\ dropped' \in BOOLEAN
    BY <1>5, PostBounded DEF StaRetry, WifiTypeOK
  <2> QED
    BY <1>5, <2>1, <2>2 DEF StaRetry, Done, Connect, WifiTypeOK
<1>6. CASE GotIp
  BY <1>6, PostBounded DEF GotIp, Done, WifiTypeOK
<1>7. CASE OpenConfig
  BY <1>7 DEF OpenConfig, Done, Start, WifiTypeOK
<1>8. CASE DriverStep
  <2>1. PICK e \in Event : Post(e)
    BY <1>8 DEF DriverStep, DriverStarted, Joined, LinkFails, Left, AddressChanges
  <2>2. queue' \in Seq(Event) /\ Len(queue') \in 0..QueueSize /\ dropped' \in BOOLEAN
        /\ current' = current
    BY <2>1, PostBounded DEF Post
  <2> QED
    BY <1>8, <2>2 DEF DriverStep, DriverStarted, Joined, LinkFails, Left,
                      AddressChanges, wifiOwnVars, WifiTypeOK
<1>9. ASSUME NEW e \in AppEvent, OtherHandlerPosts(e) \/ OtherTaskPosts(e)
      PROVE  WifiTypeOK'
  <2>1. queue' \in Seq(Event) /\ Len(queue') \in 0..QueueSize /\ dropped' \in BOOLEAN
        /\ current' \in {current, NoEvent}
    BY <1>9, PostBounded DEF OtherHandlerPosts, OtherTaskPosts, Post
  <2> QED
    BY <1>9, <2>1 DEF OtherHandlerPosts, OtherTaskPosts, wifiOwnVars, WifiTypeOK
<1>10. CASE OtherHandlerDone
  BY <1>10 DEF OtherHandlerDone, Done, wifiOwnVars, WifiTypeOK
<1>11. CASE UNCHANGED wifiVars
  BY <1>11 DEF wifiVars, loopVars, wifiOwnVars, WifiTypeOK
<1> QED
  BY <1>1, <1>2, <1>3, <1>4, <1>5, <1>6, <1>7, <1>8, <1>9, <1>10, <1>11
     DEF WifiNext, WifiHandler

(* Every variable keeps its type: in particular no post overfills the queue. *)
THEOREM WifiTypeCorrect == WifiSpec => []WifiTypeOK
BY WifiTypeInit, WifiTypeStep, PTL DEF WifiSpec

-----------------------------------------------------------------------------
(* A post never removes a pending event.                                   *)
LEMMA PostKeeps ==
  ASSUME WifiTypeOK, NEW e \in Event, Post(e) \/ PostFromLoop(e), NEW K,
         ~NonePending(queue, K)
  PROVE  ~NonePending(queue', K)
<1>1. CASE queue' = Append(queue, e)
  BY <1>1, AppendOther, AppendSame DEF WifiTypeOK
<1>2. CASE queue' = queue
  BY <1>2
<1> QED
  BY <1>1, <1>2 DEF Post, PostFromLoop

(* A post of an event of another kind leaves the picture of kind K alone.  *)
LEMMA PostOther ==
  ASSUME WifiTypeOK, NEW K, NEW e \in Event, e \notin K, Post(e) \/ PostFromLoop(e)
  PROVE  /\ NonePending(queue', K) <=> NonePending(queue, K)
         /\ \A x \in K : Latest(queue', K, x) <=> Latest(queue, K, x)
<1>1. CASE queue' = Append(queue, e)
  BY <1>1, AppendOther DEF WifiTypeOK
<1>2. CASE queue' = queue
  BY <1>2
<1> QED
  BY <1>1, <1>2 DEF Post, PostFromLoop

(* A post of an event of kind K that succeeds makes it the youngest.       *)
LEMMA PostSame ==
  ASSUME WifiTypeOK, NEW K, NEW e \in Event, e \in K,
         Post(e) \/ (PostFromLoop(e) /\ ~dropped')
  PROVE  /\ ~NonePending(queue', K)
         /\ \A x \in K : Latest(queue', K, x) <=> x = e
<1>1. queue' = Append(queue, e)
  BY DEF Post, PostFromLoop
<1> QED
  BY <1>1, AppendSame DEF WifiTypeOK

THEOREM ReconnectStep ==
  WifiTypeOK /\ ReconnectNeverLost /\ [WifiNext]_wifiVars => ReconnectNeverLost'
<1> SUFFICES ASSUME WifiTypeOK, ReconnectNeverLost, [WifiNext]_wifiVars
             PROVE  ReconnectNeverLost'
  OBVIOUS
<1> DEFINE Boot == {"CONFIG_READY"}
<1> USE EventMembers
<1>0. configured' = configured
  BY DEF WifiNext, WifiHandler, DriverStep, WifiTake, ConfigReady, StaStart,
         StaDisconnected, StaRetry, GotIp, OpenConfig, OtherHandlerPosts,
         OtherHandlerDone, OtherTaskPosts, DriverStarted, Joined, LinkFails, Left,
         AddressChanges, wifiVars, wifiOwnVars
<1>1. CASE WifiTake
  <2>1. \A K : NonePending(queue', K) /\ current' \notin K => NonePending(queue, K)
    BY <1>1, TakeHead DEF WifiTake, Take, WifiTypeOK
  <2>2. NoEvent \notin Boot /\ NoEvent \notin ConnectEvent
    BY DEF ConnectEvent
  <2> QED
    BY <1>0, <1>1, <2>1, <2>2 DEF WifiTake, Take, ReconnectNeverLost
<1>2. CASE ConfigReady
  BY <1>0, <1>2, PostKeeps DEF ConfigReady, Done, Start, ReconnectNeverLost, ConnectEvent
<1>3. CASE StaStart
  BY <1>0, <1>3 DEF StaStart, Done, Connect, ReconnectNeverLost
<1>4. CASE StaDisconnected
  <2>1. \A K : ~NonePending(queue, K) => ~NonePending(queue', K)
    BY <1>4, PostKeeps DEF StaDisconnected
  <2> QED
    BY <1>0, <1>4, <2>1 DEF StaDisconnected, ReconnectNeverLost
<1>5. CASE StaRetry
  <2>1. \A K : ~NonePending(queue, K) => ~NonePending(queue', K)
    BY <1>5, PostKeeps DEF StaRetry
  <2>2. current # "CONFIG_READY"
    BY <1>5 DEF StaRetry
  <2> QED
    BY <1>0, <1>5, <2>1, <2>2 DEF StaRetry, Connect, ReconnectNeverLost
<1>6. CASE GotIp
  <2>1. \A K : ~NonePending(queue, K) => ~NonePending(queue', K)
    BY <1>6, PostKeeps DEF GotIp
  <2> QED
    BY <1>0, <1>6, <2>1 DEF GotIp, ReconnectNeverLost, ConnectEvent
<1>7. CASE OpenConfig
  BY <1>0, <1>7 DEF OpenConfig, Start, ReconnectNeverLost, ConnectEvent
<1>8. CASE DriverStep
  <2>1. PICK e \in Event : Post(e)
    BY <1>8 DEF DriverStep, DriverStarted, Joined, LinkFails, Left, AddressChanges
  <2>2. /\ \A K : ~NonePending(queue, K) => ~NonePending(queue', K)
        /\ \A K : e \in K => ~NonePending(queue', K)
        /\ current' = current
    BY <2>1, PostKeeps, PostSame DEF Post
  <2>3. CASE DriverStarted
    <3>1. Post("STA_START")
      BY <2>3 DEF DriverStarted
    <3>2. ~NonePending(queue', ConnectEvent)
      BY <3>1, PostSame DEF ConnectEvent
    <3> QED
      BY <1>0, <2>3, <3>2 DEF DriverStarted, ReconnectNeverLost
  <2>4. CASE LinkFails \/ Left
    <3>1. Post("STA_DISCONNECTED")
      BY <2>4 DEF LinkFails, Left
    <3>2. ~NonePending(queue', ConnectEvent)
      BY <3>1, PostSame DEF ConnectEvent
    <3> QED
      BY <1>0, <2>4, <3>2 DEF LinkFails, Left, ReconnectNeverLost
  <2>5. CASE Joined \/ AddressChanges
    BY <1>0, <2>5 DEF Joined, AddressChanges, wifiOwnVars, ReconnectNeverLost
  <2> QED
    BY <1>8, <2>3, <2>4, <2>5 DEF DriverStep
<1>9. ASSUME NEW e \in AppEvent, OtherHandlerPosts(e) \/ OtherTaskPosts(e)
      PROVE  ReconnectNeverLost'
  <2>1. /\ \A K : ~NonePending(queue, K) => ~NonePending(queue', K)
        /\ current' = current \/ current \notin ConnectEvent \cup Boot
    BY <1>9, PostKeeps DEF OtherHandlerPosts, OtherTaskPosts, Post, ConnectEvent,
                           WifiStatus, SystemEvent, DriverEvent
  <2> QED
    BY <1>0, <1>9, <2>1 DEF OtherHandlerPosts, OtherTaskPosts, wifiOwnVars,
                            ReconnectNeverLost
<1>10. CASE OtherHandlerDone
  <2>1. current \notin ConnectEvent /\ current # "CONFIG_READY"
    BY <1>10 DEF OtherHandlerDone, ConnectEvent, WifiStatus, SystemEvent, DriverEvent
  <2> QED
    BY <1>0, <1>10, <2>1 DEF OtherHandlerDone, wifiOwnVars, ReconnectNeverLost
<1>11. CASE UNCHANGED wifiVars
  BY <1>11 DEF wifiVars, loopVars, wifiOwnVars, ReconnectNeverLost
<1> QED
  BY <1>1, <1>2, <1>3, <1>4, <1>5, <1>6, <1>7, <1>8, <1>9, <1>10, <1>11
     DEF WifiNext, WifiHandler

(* No interleaving of the driver, the loop and the other tasks leaves a    *)
(* configured station idle with nobody left to connect it.                 *)
THEOREM ReconnectCorrect == WifiSpec => []ReconnectNeverLost
<1>1. WifiInit => ReconnectNeverLost
  <2> SUFFICES ASSUME WifiInit PROVE ReconnectNeverLost
    OBVIOUS
  <2>1. queue = <<"CONFIG_READY">> /\ driver = "off"
    BY DEF WifiInit, LoopInit
  <2>2. Len(queue) = 1 /\ queue[1] = "CONFIG_READY"
    BY <2>1
  <2> QED
    BY <2>1, <2>2 DEF ReconnectNeverLost, NonePending
<1> QED
  BY <1>1, WifiTypeCorrect, ReconnectStep, PTL DEF WifiSpec

-----------------------------------------------------------------------------
(* The pause belongs to the handler of STA_DISCONNECTED.                   *)
PausingHandler == pausing => current = "STA_DISCONNECTED"

LEMMA PausingStep ==
  PausingHandler /\ [WifiNext]_wifiVars => PausingHandler'
BY EventMembers
   DEF PausingHandler, WifiNext, WifiHandler, DriverStep, WifiTake, Take, ConfigReady,
       StaStart, StaDisconnected, StaRetry, GotIp, OpenConfig, OtherHandlerPosts,
       OtherHandlerDone, OtherTaskPosts, DriverStarted, Joined, LinkFails, Left,
       AddressChanges, Post, Done, WifiStatus, wifiVars, loopVars, wifiOwnVars,
       SystemEvent, DriverEvent

THEOREM WifiBitStep ==
  WifiTypeOK /\ PausingHandler /\ WifiBitTracksLink /\ [WifiNext]_wifiVars
    => WifiBitTracksLink'
<1> SUFFICES ASSUME WifiTypeOK, PausingHandler, WifiBitTracksLink, [WifiNext]_wifiVars
             PROVE  WifiBitTracksLink'
  OBVIOUS
<1> DEFINE K == BitEvent
<1> USE EventMembers
<1>a. "GOT_IP" \in K /\ "STA_DISCONNECTED" \in K /\ NoEvent \notin K
      /\ \A e \in {"WIFI_CONNECTED", "WIFI_DISCONNECTED", "OPEN_CONFIG",
                  "STA_START"} \cup AppEvent : e \in Event /\ e \notin K
  BY DEF BitEvent, SystemEvent, DriverEvent
<1>1. CASE WifiTake
  <2>1. /\ \A x \in K : Latest(queue', K, x) => Latest(queue, K, x)
        /\ NonePending(queue', K) /\ current' \in K => Latest(queue, K, current')
        /\ NonePending(queue', K) /\ current' \notin K => NonePending(queue, K)
    BY <1>1, TakeHead DEF WifiTake, Take, WifiTypeOK
  <2>2. ~pausing /\ current \notin K
    BY <1>1, <1>a DEF WifiTake, Take, PausingHandler
  <2> QED
    BY <1>1, <1>a, <2>1, <2>2 DEF WifiTake, WifiBitTracksLink
<1>2. CASE ConfigReady
  <2>1. /\ NonePending(queue', K) <=> NonePending(queue, K)
        /\ \A x \in K : Latest(queue', K, x) <=> Latest(queue, K, x)
    BY <1>2, <1>a, PostOther DEF ConfigReady
  <2>2. current \notin K /\ current' \notin K
    BY <1>2, <1>a DEF ConfigReady, Done, BitEvent
  <2> QED
    BY <1>2, <1>a, <2>1, <2>2 DEF ConfigReady, Start, WifiBitTracksLink
<1>3. CASE StaStart \/ OpenConfig
  <2>1. current \notin K /\ current' \notin K
    BY <1>3, <1>a DEF StaStart, OpenConfig, Done
  <2> QED
    BY <1>3, <1>a, <2>1 DEF StaStart, OpenConfig, Connect, Start, WifiBitTracksLink
<1>4. CASE StaDisconnected
  <2>1. /\ NonePending(queue', K) <=> NonePending(queue, K)
        /\ \A x \in K : Latest(queue', K, x) <=> Latest(queue, K, x)
    BY <1>4, <1>a, PostOther DEF StaDisconnected
  <2> QED
    BY <1>4, <1>a, <2>1 DEF StaDisconnected, WifiBitTracksLink
<1>5. CASE StaRetry
  <2>1. /\ NonePending(queue', K) <=> NonePending(queue, K)
        /\ \A x \in K : Latest(queue', K, x) <=> Latest(queue, K, x)
    BY <1>5, <1>a, PostOther DEF StaRetry
  <2> QED
    BY <1>5, <1>a, <2>1 DEF StaRetry, Connect, Done, WifiBitTracksLink
<1>6. CASE GotIp
  <2>1. /\ NonePending(queue', K) <=> NonePending(queue, K)
        /\ \A x \in K : Latest(queue', K, x) <=> Latest(queue, K, x)
    BY <1>6, <1>a, PostOther DEF GotIp
  <2> QED
    BY <1>6, <1>a, <2>1 DEF GotIp, Done, WifiBitTracksLink
<1>7. CASE DriverStep
  <2>1. CASE DriverStarted
    <3>1. /\ NonePending(queue', K) <=> NonePending(queue, K)
          /\ \A x \in K : Latest(queue', K, x) <=> Latest(queue, K, x)
      BY <2>1, <1>a, PostOther DEF DriverStarted
    <3> QED
      BY <2>1, <1>a, <3>1 DEF DriverStarted, Post, WifiBitTracksLink
  <2>2. CASE Joined \/ AddressChanges
    <3>1. /\ ~NonePending(queue', K)
          /\ \A x \in K : Latest(queue', K, x) <=> x = "GOT_IP"
      BY <2>2, <1>a, PostSame DEF Joined, AddressChanges
    <3> QED
      BY <2>2, <1>a, <3>1 DEF Joined, AddressChanges, wifiOwnVars, WifiBitTracksLink
  <2>3. CASE LinkFails \/ Left
    <3>1. /\ ~NonePending(queue', K)
          /\ \A x \in K : Latest(queue', K, x) <=> x = "STA_DISCONNECTED"
      BY <2>3, <1>a, PostSame DEF LinkFails, Left
    <3> QED
      BY <2>3, <1>a, <3>1 DEF LinkFails, Left, WifiBitTracksLink
  <2> QED
    BY <1>7, <2>1, <2>2, <2>3 DEF DriverStep
<1>8. ASSUME NEW e \in AppEvent, OtherHandlerPosts(e) \/ OtherTaskPosts(e)
      PROVE  WifiBitTracksLink'
  <2>1. /\ NonePending(queue', K) <=> NonePending(queue, K)
        /\ \A x \in K : Latest(queue', K, x) <=> Latest(queue, K, x)
    BY <1>8, <1>a, PostOther DEF OtherHandlerPosts, OtherTaskPosts
  <2>2. current' = current \/ (current \notin K /\ current' \notin K)
    BY <1>8, <1>a DEF OtherHandlerPosts, OtherTaskPosts, Post, WifiStatus
  <2> QED
    BY <1>8, <1>a, <2>1, <2>2 DEF OtherHandlerPosts, OtherTaskPosts, Post, wifiOwnVars,
                            WifiBitTracksLink
<1>9. CASE OtherHandlerDone
  <2>1. current \notin K /\ current' \notin K
    BY <1>9, <1>a DEF OtherHandlerDone, Done, WifiStatus
  <2> QED
    BY <1>9, <1>a, <2>1 DEF OtherHandlerDone, wifiOwnVars, WifiBitTracksLink
<1>10. CASE UNCHANGED wifiVars
  BY <1>10 DEF wifiVars, loopVars, wifiOwnVars, WifiBitTracksLink
<1> QED
  BY <1>1, <1>2, <1>3, <1>4, <1>5, <1>6, <1>7, <1>8, <1>9, <1>10
     DEF WifiNext, WifiHandler

(* SYS_WIFI_READY never drifts from the link, however the driver's events, *)
(* the pauses of the handler and the posts of other tasks interleave.      *)
THEOREM WifiBitCorrect == WifiSpec => []WifiBitTracksLink
<1> DEFINE IInv == PausingHandler /\ WifiBitTracksLink
<1>1. WifiInit => IInv
  <2> SUFFICES ASSUME WifiInit PROVE IInv
    OBVIOUS
  <2>1. queue = <<"CONFIG_READY">>
    BY DEF WifiInit, LoopInit
  <2>2. Len(queue) = 1 /\ queue[1] = "CONFIG_READY"
    BY <2>1
  <2>3. ~Latest(queue, BitEvent, "GOT_IP") /\ ~Latest(queue, BitEvent, "STA_DISCONNECTED")
    BY <2>2 DEF Latest
  <2> QED
    BY <2>3, EventMembers DEF WifiInit, LoopInit, PausingHandler, WifiBitTracksLink
<1>2. WifiTypeOK /\ IInv /\ [WifiNext]_wifiVars => IInv'
  BY PausingStep, WifiBitStep
<1> QED
  BY <1>1, <1>2, WifiTypeCorrect, PTL DEF WifiSpec

-----------------------------------------------------------------------------
(* A post of the loop that fails is remembered.                            *)
LEMMA DroppedStays ==
  ASSUME [WifiNext]_wifiVars, dropped PROVE dropped'
BY DEF WifiNext, WifiHandler, DriverStep, WifiTake, Take, ConfigReady, StaStart,
       StaDisconnected, StaRetry, GotIp, OpenConfig, OtherHandlerPosts,
       OtherHandlerDone, OtherTaskPosts, DriverStarted, Joined, LinkFails, Left,
       AddressChanges, Post, PostFromLoop, wifiVars, loopVars, wifiOwnVars

THEOREM AnnouncementsStep ==
  WifiTypeOK /\ AnnouncementsTrackBit /\ [WifiNext]_wifiVars => AnnouncementsTrackBit'
<1> SUFFICES ASSUME WifiTypeOK, AnnouncementsTrackBit, [WifiNext]_wifiVars, ~dropped'
             PROVE  AnnouncementsTrackBit'
  BY DEF AnnouncementsTrackBit
<1> DEFINE K == WifiStatus
<1> USE EventMembers
<1>a. ~dropped
  BY DroppedStays
<1>b. /\ "WIFI_CONNECTED" \in K /\ "WIFI_DISCONNECTED" \in K
      /\ \A e \in DriverEvent \cup {"OPEN_CONFIG"} \cup AppEvent : e \in Event /\ e \notin K
  BY DEF WifiStatus, SystemEvent, DriverEvent
(* Nothing changes when wifiReady and told stay and no status is posted. *)
<1>c. ASSUME UNCHANGED <<wifiReady, told>>,
             NonePending(queue', K) <=> NonePending(queue, K),
             \A x \in K : Latest(queue', K, x) <=> Latest(queue, K, x)
      PROVE  AnnouncementsTrackBit'
  BY <1>a, <1>b, <1>c DEF AnnouncementsTrackBit
<1>d. ASSUME UNCHANGED <<wifiReady, told>>,
             NEW e \in DriverEvent \cup {"OPEN_CONFIG"} \cup AppEvent,
             Post(e) \/ PostFromLoop(e)
      PROVE  AnnouncementsTrackBit'
  BY <1>b, <1>c, <1>d, PostOther
<1>1. CASE WifiTake
  <2>1. /\ \A x \in K : Latest(queue', K, x) => Latest(queue, K, x)
        /\ NonePending(queue', K) /\ Head(queue) \in K => Latest(queue, K, Head(queue))
        /\ NonePending(queue', K) /\ Head(queue) \notin K => NonePending(queue, K)
    BY <1>1, TakeHead DEF WifiTake, Take, WifiTypeOK
  <2> QED
    BY <1>1, <1>a, <1>b, <2>1 DEF WifiTake, WifiStatus, AnnouncementsTrackBit
<1>2. CASE ConfigReady
  BY <1>2, <1>c, <1>d DEF ConfigReady
<1>3. CASE StaStart \/ OpenConfig
  BY <1>3, <1>c DEF StaStart, OpenConfig
<1>4. CASE StaDisconnected
  <2>1. /\ ~NonePending(queue', K)
        /\ \A x \in K : Latest(queue', K, x) <=> x = "WIFI_DISCONNECTED"
    BY <1>4, <1>b, PostSame DEF StaDisconnected
  <2> QED
    BY <1>4, <1>b, <2>1 DEF StaDisconnected, AnnouncementsTrackBit
<1>5. CASE StaRetry
  BY <1>5, <1>c, <1>d DEF StaRetry
<1>6. CASE GotIp
  <2>1. /\ ~NonePending(queue', K)
        /\ \A x \in K : Latest(queue', K, x) <=> x = "WIFI_CONNECTED"
    BY <1>6, <1>b, PostSame DEF GotIp
  <2> QED
    BY <1>6, <1>b, <2>1 DEF GotIp, AnnouncementsTrackBit
<1>7. CASE DriverStep
  BY <1>7, <1>d DEF DriverStep, DriverStarted, Joined, LinkFails, Left, AddressChanges,
                    wifiOwnVars, DriverEvent
<1>8. ASSUME NEW e \in AppEvent, OtherHandlerPosts(e) \/ OtherTaskPosts(e)
      PROVE  AnnouncementsTrackBit'
  BY <1>8, <1>d DEF OtherHandlerPosts, OtherTaskPosts, wifiOwnVars
<1>9. CASE OtherHandlerDone
  BY <1>9, <1>c DEF OtherHandlerDone, wifiOwnVars
<1>10. CASE UNCHANGED wifiVars
  BY <1>10, <1>c DEF wifiVars, loopVars, wifiOwnVars
<1> QED
  BY <1>1, <1>2, <1>3, <1>4, <1>5, <1>6, <1>7, <1>8, <1>9, <1>10
     DEF WifiNext, WifiHandler

(* Whatever the order of link changes, the last status the services are    *)
(* given is the state of SYS_WIFI_READY, if no post of the loop was lost.  *)
THEOREM AnnouncementsCorrect == WifiSpec => []AnnouncementsTrackBit
<1>1. WifiInit => AnnouncementsTrackBit
  <2> SUFFICES ASSUME WifiInit PROVE AnnouncementsTrackBit
    OBVIOUS
  <2>1. queue = <<"CONFIG_READY">>
    BY DEF WifiInit, LoopInit
  <2>2. Len(queue) = 1 /\ queue[1] = "CONFIG_READY"
    BY <2>1
  <2>3. \A x \in WifiStatus : ~Latest(queue, WifiStatus, x)
    BY <2>2 DEF Latest, WifiStatus
  <2> QED
    BY <2>3 DEF WifiInit, WifiStatus, AnnouncementsTrackBit
<1> QED
  BY <1>1, WifiTypeCorrect, AnnouncementsStep, PTL DEF WifiSpec

=============================================================================
