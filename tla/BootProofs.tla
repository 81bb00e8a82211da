----------------------------- MODULE BootProofs -----------------------------
(***************************************************************************)
(* Proofs about Settings and Boot.                                         *)
(*                                                                         *)
(* FromJson is a recursive function on the length of the list of items;    *)
(* what it reads is proved by induction on a set of numbers.               *)
(*                                                                         *)
(* The properties of the boot speak of its end, so the invariant BootInv   *)
(* says of every step in between who is in the list of subscribers and how *)
(* often, what an event has still to visit, which consumers hold what the  *)
(* files say, and what is queued.  Its parts are preserved one by one.     *)
(***************************************************************************)
EXTENDS Boot, SequenceTheorems, WellFoundedInduction, TLAPS

-----------------------------------------------------------------------------
(* Induction over the naturals, for a set of numbers: what the library     *)
(* says of well-founded relations, for <.                                  *)
LEMMA NatSetInduction ==
  ASSUME NEW S, 0 \in S, \A k \in Nat : k \in S => k + 1 \in S
  PROVE  Nat \subseteq S
<1> DEFINE R == OpToRel(<, Nat)
<1>1. IsWellFoundedOn(R, Nat)
  BY NatLessThanWellFounded
<1>2. SUFFICES ASSUME Nat \ S # {} PROVE FALSE
  OBVIOUS
<1> HIDE DEF R
<1>3. PICK x \in Nat \ S : \A y \in Nat \ S : <<y, x>> \notin R
  BY <1>1, <1>2, WFMin
<1>4. x # 0 /\ x - 1 \in Nat /\ (x - 1) + 1 = x
  BY <1>3
<1>5. x - 1 \in Nat \ S
  BY <1>3, <1>4
<1>6. <<x - 1, x>> \in R
  BY <1>3, <1>4 DEF R, OpToRel
<1> QED
  BY <1>3, <1>5, <1>6

-----------------------------------------------------------------------------
(* Settings: what fromJson() reads. *)

(* An item that sets a key of a property set. *)
Gives(item, k) == item.key = k /\ item.type = "string"

LEMMA ReadItemIs ==
  ASSUME NEW name \in Name, NEW props \in Props(name), NEW item \in Item
  PROVE  /\ ReadItem(props, item) \in Props(name)
         /\ \A k \in Keys(name) :
              ReadItem(props, item)[k] = IF Gives(item, k) THEN item.value ELSE props[k]
<1>1. DOMAIN props = Keys(name) /\ item.value \in Value \cup {Empty}
  BY DEF Props, Item
<1> QED
  BY <1>1 DEF ReadItem, Gives, Props

LEMMA NoPropsIs ==
  ASSUME NEW name \in Name
  PROVE  NoProps(name) \in Props(name) /\ \A k \in Keys(name) : NoProps(name)[k] = Empty
BY DEF NoProps, Props

(* The loop of fromJson() over the first k items: a function of its turns. *)
Turns(name, items, k, g) ==
  \A i \in 0..k :
    g[i] = IF i = 0 THEN NoProps(name) ELSE ReadItem(g[i - 1], items[i])

LEMMA TurnsExist ==
  ASSUME NEW name \in Name, NEW items \in Seq(Item)
  PROVE  \A k \in 0..Len(items) : \E g \in [0..k -> Props(name)] : Turns(name, items, k, g)
<1> DEFINE S == {k \in Nat : k <= Len(items) =>
                   \E g \in [0..k -> Props(name)] : Turns(name, items, k, g)}
<1>1. 0 \in S
  <2> DEFINE g == [i \in 0..0 |-> NoProps(name)]
  <2>1. g \in [0..0 -> Props(name)]
    BY NoPropsIs
  <2>2. Turns(name, items, 0, g)
    BY DEF Turns
  <2> QED
    BY <2>1, <2>2
<1>2. ASSUME NEW k \in Nat, k \in S PROVE k + 1 \in S
  <2> SUFFICES ASSUME k + 1 <= Len(items)
      PROVE  \E h \in [0..(k + 1) -> Props(name)] : Turns(name, items, k + 1, h)
    OBVIOUS
  <2>1. k <= Len(items) /\ items[k + 1] \in Item
    <3>1. Len(items) \in Nat /\ k + 1 \in 1..Len(items)
      OBVIOUS
    <3> QED
      BY <3>1
  <2>2. PICK g \in [0..k -> Props(name)] : Turns(name, items, k, g)
    BY <2>1, <1>2
  <2> DEFINE h == [i \in 0..(k + 1) |-> IF i <= k THEN g[i] ELSE ReadItem(g[k], items[k + 1])]
  <2>3. g[k] \in Props(name)
    BY <2>2
  <2>4. h \in [0..(k + 1) -> Props(name)]
    BY <2>1, <2>2, <2>3, ReadItemIs
  <2>5. Turns(name, items, k + 1, h)
    <3> SUFFICES ASSUME NEW i \in 0..(k + 1)
        PROVE  h[i] = IF i = 0 THEN NoProps(name) ELSE ReadItem(h[i - 1], items[i])
      BY DEF Turns
    <3>1. CASE i <= k
      <4>1. h[i] = g[i] /\ (i # 0 => h[i - 1] = g[i - 1])
        BY <3>1
      <4>2. g[i] = IF i = 0 THEN NoProps(name) ELSE ReadItem(g[i - 1], items[i])
        BY <2>2, <3>1 DEF Turns
      <4> QED
        BY <4>1, <4>2
    <3>2. CASE i = k + 1
      <4>1. h[i] = ReadItem(g[k], items[k + 1]) /\ h[i - 1] = g[k]
        BY <3>2
      <4> QED
        BY <3>2, <4>1
    <3> QED
      BY <3>1, <3>2
  <2> QED
    BY <2>4, <2>5
<1> HIDE DEF S
<1>3. Nat \subseteq S
  BY <1>1, <1>2, NatSetInduction
<1> QED
  BY <1>3 DEF S

(* fromJson() ends with the last of them. *)
LEMMA FromJsonTurns ==
  ASSUME NEW name \in Name, NEW items \in Seq(Item)
  PROVE  \E g : /\ Turns(name, items, Len(items), g)
                /\ FromJson(name, items) = g[Len(items)]
<1> DEFINE Body(g) == [i \in 0..Len(items) |->
                         IF i = 0 THEN NoProps(name) ELSE ReadItem(g[i - 1], items[i])]
           read == CHOOSE g : g = Body(g)
<1>1. \E g : g = Body(g)
  <2>1. PICK g \in [0..Len(items) -> Props(name)] : Turns(name, items, Len(items), g)
    BY TurnsExist
  <2>2. g = Body(g)
    BY <2>1 DEF Turns
  <2> QED
    BY <2>2
<1>2. read = Body(read)
  BY <1>1
<1>3. FromJson(name, items) = read[Len(items)]
  BY DEF FromJson
<1> HIDE DEF read
<1>4. Turns(name, items, Len(items), read)
  BY <1>2 DEF Turns
<1> QED
  BY <1>3, <1>4

(* After k turns a key has the value of the last item that gives one.      *)
ReadUpTo(name, items, k, props) ==
  \A key \in Keys(name) :
    /\ (\A i \in 1..k : ~Gives(items[i], key)) => props[key] = Empty
    /\ \A i \in 1..k :
         Gives(items[i], key) /\ (\A j \in 1..k : Gives(items[j], key) => j <= i)
           => props[key] = items[i].value
    /\ (\E i \in 1..k : Gives(items[i], key)) =>
         \E i \in 1..k : Gives(items[i], key) /\ \A j \in 1..k : Gives(items[j], key) => j <= i

LEMMA TurnReads ==
  ASSUME NEW name \in Name, NEW items \in Seq(Item), NEW k \in Nat, k + 1 <= Len(items),
         NEW props \in Props(name), ReadUpTo(name, items, k, props)
  PROVE  ReadUpTo(name, items, k + 1, ReadItem(props, items[k + 1]))
<1> DEFINE next == ReadItem(props, items[k + 1])
<1>1. items[k + 1] \in Item
  <2>1. Len(items) \in Nat /\ k + 1 \in 1..Len(items)
    OBVIOUS
  <2> QED
    BY <2>1
<1>2. \A key \in Keys(name) :
        next[key] = IF Gives(items[k + 1], key) THEN items[k + 1].value ELSE props[key]
  BY <1>1, ReadItemIs
<1> HIDE DEF next
<1> SUFFICES ASSUME NEW key \in Keys(name)
    PROVE  /\ (\A i \in 1..(k + 1) : ~Gives(items[i], key)) => next[key] = Empty
           /\ \A i \in 1..(k + 1) :
                Gives(items[i], key) /\ (\A j \in 1..(k + 1) : Gives(items[j], key) => j <= i)
                  => next[key] = items[i].value
           /\ (\E i \in 1..(k + 1) : Gives(items[i], key)) =>
                \E i \in 1..(k + 1) : Gives(items[i], key)
                                      /\ \A j \in 1..(k + 1) : Gives(items[j], key) => j <= i
  BY DEF ReadUpTo, next
<1>3. \A i \in 1..(k + 1) : i = k + 1 \/ i \in 1..k
  OBVIOUS
<1>4. 1..k \subseteq 1..(k + 1) /\ k + 1 \in 1..(k + 1) /\ \A i \in 1..k : i <= k + 1 /\ ~(k + 1 <= i)
  OBVIOUS
<1>5. CASE Gives(items[k + 1], key)
  BY <1>2, <1>3, <1>4, <1>5
<1>6. CASE ~Gives(items[k + 1], key)
  <2>1. \A i \in 1..(k + 1) : Gives(items[i], key) => i \in 1..k
    BY <1>3, <1>6
  <2>2. next[key] = props[key]
    BY <1>2, <1>6
  <2> QED
    BY <1>4, <2>1, <2>2 DEF ReadUpTo
<1> QED
  BY <1>5, <1>6

LEMMA TurnsRead ==
  ASSUME NEW name \in Name, NEW items \in Seq(Item), NEW g,
         Turns(name, items, Len(items), g)
  PROVE  g[Len(items)] \in Props(name) /\ ReadUpTo(name, items, Len(items), g[Len(items)])
<1> DEFINE S == {k \in Nat : k <= Len(items) =>
                   g[k] \in Props(name) /\ ReadUpTo(name, items, k, g[k])}
<1>1. 0 \in S
  <2>1. g[0] = NoProps(name)
    BY DEF Turns
  <2>2. g[0] \in Props(name) /\ ReadUpTo(name, items, 0, g[0])
    BY <2>1, NoPropsIs DEF ReadUpTo
  <2> QED
    BY <2>2
<1>2. ASSUME NEW k \in Nat, k \in S PROVE k + 1 \in S
  <2> SUFFICES ASSUME k + 1 <= Len(items)
      PROVE  g[k + 1] \in Props(name) /\ ReadUpTo(name, items, k + 1, g[k + 1])
    OBVIOUS
  <2>1. k <= Len(items) /\ k + 1 \in 1..Len(items) /\ k + 1 \in 0..Len(items) /\ k + 1 # 0
        /\ (k + 1) - 1 = k
    OBVIOUS
  <2>2. g[k] \in Props(name) /\ ReadUpTo(name, items, k, g[k])
    BY <2>1, <1>2
  <2>3. g[k + 1] = ReadItem(g[k], items[k + 1])
    BY <2>1 DEF Turns
  <2>4. items[k + 1] \in Item
    BY <2>1
  <2> QED
    BY <2>2, <2>3, <2>4, ReadItemIs, TurnReads
<1> HIDE DEF S
<1>3. Len(items) \in Nat /\ Nat \subseteq S
  BY <1>1, <1>2, NatSetInduction
<1>4. Len(items) \in S
  BY <1>3
<1> QED
  BY <1>3, <1>4 DEF S

(***************************************************************************)
(* What is read from a file is a property set, and it is what the file     *)
(* says: of each key the last string given, for a file of any length.      *)
(***************************************************************************)
THEOREM FromJsonSays ==
  ASSUME NEW name \in Name, NEW items \in Seq(Item)
  PROVE  /\ FromJson(name, items) \in Props(name)
         /\ \A k \in Keys(name) : FromJson(name, items)[k] = Says(items, k)
<1> DEFINE read == FromJson(name, items)
<1>1. read \in Props(name) /\ ReadUpTo(name, items, Len(items), read)
  BY FromJsonTurns, TurnsRead
<1> HIDE DEF read
<1>2. ASSUME NEW k \in Keys(name) PROVE read[k] = Says(items, k)
  <2> DEFINE gives == {i \in DOMAIN items : items[i].key = k /\ items[i].type = "string"}
  <2>1. DOMAIN items = 1..Len(items) /\ Len(items) \in Nat
    OBVIOUS
  <2>2. gives = {i \in 1..Len(items) : Gives(items[i], k)}
    BY <2>1 DEF Gives
  <2>3. Says(items, k) = IF gives = {} THEN Empty
                         ELSE items[CHOOSE i \in gives : \A j \in gives : j <= i].value
    BY DEF Says
  <2> HIDE DEF gives
  <2>4. CASE gives = {}
    BY <1>1, <2>2, <2>3, <2>4 DEF ReadUpTo
  <2>5. CASE gives # {}
    <3>1. \E i \in gives : \A j \in gives : j <= i
      BY <1>1, <2>2, <2>5 DEF ReadUpTo
    <3> DEFINE m == CHOOSE i \in gives : \A j \in gives : j <= i
    <3>2. m \in gives /\ \A j \in gives : j <= m
      BY <3>1
    <3> HIDE DEF m
    <3>3. read[k] = items[m].value
      BY <1>1, <2>2, <3>2 DEF ReadUpTo
    <3> QED
      BY <2>3, <2>5, <3>3 DEF m
  <2> QED
    BY <2>4, <2>5
<1> QED
  BY <1>1, <1>2 DEF read

(* The keys of a property set, each once.                                  *)
LEMMA KeyOrderIs ==
  ASSUME NEW name \in Name
  PROVE  /\ KeyOrder[name] \in Seq(Keys(name))
         /\ Keys(name) = {KeyOrder[name][i] : i \in 1..Len(KeyOrder[name])}
         /\ \A i, j \in 1..Len(KeyOrder[name]) :
              KeyOrder[name][i] = KeyOrder[name][j] => i = j
<1>1. CASE name = "wifi"
  <2> DEFINE o == <<"ssid", "password">>
  <2>1. KeyOrder[name] = o
    BY <1>1 DEF KeyOrder
  <2>2. o \in Seq({o[i] : i \in 1..Len(o)}) /\ Len(o) = 2 /\ DOMAIN o = 1..2
    OBVIOUS
  <2>3. /\ o[1] = "ssid" /\ o[2] = "password"
    OBVIOUS
  <2> HIDE DEF o
  <2>4. Keys(name) = {o[i] : i \in 1..2}
    BY <2>1, <2>2 DEF Keys, ToSet
  <2>5. \A i, j \in 1..2 : o[i] = o[j] => i = j
    BY <2>3
  <2> QED
    BY <2>1, <2>2, <2>4, <2>5
<1>2. CASE name = "mqtt"
  <2> DEFINE o == <<"uri", "username", "password", "clientId", "homeId">>
  <2>1. KeyOrder[name] = o
    BY <1>2 DEF KeyOrder
  <2>2. o \in Seq({o[i] : i \in 1..Len(o)}) /\ Len(o) = 5 /\ DOMAIN o = 1..5
    OBVIOUS
  <2>3. /\ o[1] = "uri" /\ o[2] = "username" /\ o[3] = "password"
        /\ o[4] = "clientId" /\ o[5] = "homeId"
    OBVIOUS
  <2> HIDE DEF o
  <2>4. Keys(name) = {o[i] : i \in 1..5}
    BY <2>1, <2>2 DEF Keys, ToSet
  <2>5. \A i, j \in 1..5 : o[i] = o[j] => i = j
    BY <2>3
  <2> QED
    BY <2>1, <2>2, <2>4, <2>5
<1>3. CASE name = "app"
  <2> DEFINE o == <<"api", "type">>
  <2>1. KeyOrder[name] = o
    BY <1>3 DEF KeyOrder
  <2>2. o \in Seq({o[i] : i \in 1..Len(o)}) /\ Len(o) = 2 /\ DOMAIN o = 1..2
    OBVIOUS
  <2>3. /\ o[1] = "api" /\ o[2] = "type"
    OBVIOUS
  <2> HIDE DEF o
  <2>4. Keys(name) = {o[i] : i \in 1..2}
    BY <2>1, <2>2 DEF Keys, ToSet
  <2>5. \A i, j \in 1..2 : o[i] = o[j] => i = j
    BY <2>3
  <2> QED
    BY <2>1, <2>2, <2>4, <2>5
<1> QED
  BY <1>1, <1>2, <1>3 DEF Name

(***************************************************************************)
(* fromJson() reads back what toJson() wrote, for every property set.      *)
(***************************************************************************)
THEOREM RoundTrip ==
  ASSUME NEW name \in Name, NEW props \in Props(name)
  PROVE  FromJson(name, ToJson(name, props)) = props
<1> DEFINE items == ToJson(name, props)
           order == KeyOrder[name]
<1>1. /\ order \in Seq(Keys(name)) /\ Keys(name) = {order[i] : i \in 1..Len(order)}
      /\ \A i, j \in 1..Len(order) : order[i] = order[j] => i = j
  BY KeyOrderIs
<1> HIDE DEF order
<1>2. items = [i \in 1..Len(order) |-> [key |-> order[i], type |-> "string",
                                        value |-> props[order[i]]]]
  BY DEF ToJson, order
<1> HIDE DEF items
<1>3. \A i \in 1..Len(order) : order[i] \in Keys(name) /\ props[order[i]] \in Value \cup {Empty}
  BY <1>1 DEF Props
<1>4. Len(order) \in Nat
  BY <1>1
<1>5. items \in Seq(Item)
  <2>1. \A i \in 1..Len(order) : items[i] \in Item
    <3> TAKE i \in 1..Len(order)
    <3>1. items[i] = [key |-> order[i], type |-> "string", value |-> props[order[i]]]
      BY <1>2
    <3>2. order[i] \in Keys(name) /\ props[order[i]] \in Value \cup {Empty}
      BY <1>3
    <3> QED
      BY <3>1, <3>2 DEF Item
  <2>2. items \in [1..Len(order) -> Item]
    BY <1>2, <2>1
  <2> QED
    BY <1>4, <2>2
<1>6. /\ FromJson(name, items) \in Props(name)
      /\ \A k \in Keys(name) : FromJson(name, items)[k] = Says(items, k)
  BY <1>5, FromJsonSays
<1>7. ASSUME NEW k \in Keys(name) PROVE Says(items, k) = props[k]
  <2>1. PICK i \in 1..Len(order) : order[i] = k
    BY <1>1
  <2>2. {j \in DOMAIN items : items[j].key = k /\ items[j].type = "string"} = {i}
    BY <1>1, <1>2, <2>1
  <2>3. (CHOOSE j \in {i} : \A l \in {i} : l <= j) = i
    OBVIOUS
  <2>4. Says(items, k) = items[i].value
    BY <2>2, <2>3 DEF Says
  <2> QED
    BY <1>2, <2>1, <2>4
<1> QED
  BY <1>6, <1>7 DEF Props, items

(* apply() finds a set in a consumer's list by its id: no two have the same. *)
LEMMA TakesIs ==
  ASSUME NEW c \in DOMAIN Consumes, NEW f \in Name
  PROVE  Takes(c, f) <=> f \in ToSet(Consumes[c])
<1>1. \A g \in Name : PropId(g) = PropId(f) <=> g = f
  BY DEF PropId, Name
<1>2. \A i \in DOMAIN Consumes[c] : Consumes[c][i] \in Name
  <2>1. CASE c = "wifi" \/ c = "mqtt"
    BY <2>1 DEF Consumes, Name
  <2>2. CASE c = "config"
    BY <2>2 DEF Consumes, Name
  <2> QED
    BY <2>1, <2>2 DEF Consumes
<1> QED
  BY <1>1, <1>2 DEF Takes, ToSet

-----------------------------------------------------------------------------
(* The constants of the boot, written out. *)

LEMMA OrderIs ==
  /\ Len(Order) = 8
  /\ Order[1] = "app" /\ Order[2] = "wifi" /\ Order[3] = "console" /\ Order[4] = "config"
  /\ Order[5] = "command" /\ Order[6] = "mqtt" /\ Order[7] = "ota" /\ Order[8] = "publisher"
  /\ Part = {"app", "wifi", "console", "config", "command", "mqtt", "ota", "publisher"}
<1>1. Len(Order) = 8 /\ DOMAIN Order = 1..8
  BY DEF Order
<1>2. /\ Order[1] = "app" /\ Order[2] = "wifi" /\ Order[3] = "console"
      /\ Order[4] = "config" /\ Order[5] = "command" /\ Order[6] = "mqtt"
      /\ Order[7] = "ota" /\ Order[8] = "publisher"
  BY DEF Order
<1>3. Part = {Order[i] : i \in 1..8}
  BY <1>1 DEF Part, ToSet
<1>4. 1..8 = {1, 2, 3, 4, 5, 6, 7, 8}
  OBVIOUS
<1> QED
  BY <1>1, <1>2, <1>3, <1>4

LEMMA ServicesIs ==
  Len(Services) = 6 /\ \A m \in 1..6 : Services[m] = Order[m + 1] /\ Order[m + 1] \in Part
<1>1. Order \in Seq(Part)
  <2>1. Order \in Seq({Order[i] : i \in 1..Len(Order)}) /\ DOMAIN Order = 1..Len(Order)
    BY DEF Order
  <2> QED
    BY <2>1 DEF Part, ToSet
<1>2. Len(Order) = 8 /\ \A m \in 1..8 : Order[m] \in Part
  BY <1>1, OrderIs
<1> HIDE DEF Order
<1>3. Services = SubSeq(Order, 2, 7)
  BY DEF Services
<1>4. Len(Services) = 6 /\ \A m \in 1..6 : Services[m] = Order[m + 1]
  BY <1>1, <1>2, <1>3
<1> QED
  BY <1>2, <1>4

LEMMA LoadsIs == Len(Loads) = 3 /\ Loads[1] = "wifi" /\ Loads[2] = "mqtt" /\ Loads[3] = "app"
BY DEF Loads

LEMMA ConsumersAre == DOMAIN Consumes = {"wifi", "config", "mqtt"}
BY DEF Consumes

LEMMA BootEventIs ==
  /\ BootEvent = Status \cup {"TIMER", "OTA_NEW_VERSION", "OTA_REPORT_VERSION",
                              "APP_REPORT_VERSION", "CONFIG_READY", "MISSING_MQTT",
                              "OPEN_CONFIG", "DNS_CONFIG", "SHUTDOWN"}
  /\ DOMAIN EventId = {"STATUS_CHANGED", "TIMER", "OTA_NEW_VERSION", "OTA_REPORT_VERSION",
                       "APP_REPORT_VERSION", "CONFIG_READY", "MISSING_MQTT",
                       "OPEN_CONFIG", "DNS_CONFIG", "SHUTDOWN"}
<1>1. DOMAIN EventId = {"STATUS_CHANGED", "TIMER", "OTA_NEW_VERSION", "OTA_REPORT_VERSION",
                        "APP_REPORT_VERSION", "CONFIG_READY", "MISSING_MQTT",
                        "OPEN_CONFIG", "DNS_CONFIG", "SHUTDOWN"}
  BY DEF EventId
<1> QED
  BY <1>1 DEF BootEvent

(* What the constructor of a part registers: none is the command that      *)
(* smart config adds.                                                      *)
LEMMA CommandsAre ==
  ASSUME NEW s \in Part
  PROVE  /\ CommandsOf(s) \in Seq(Command)
         /\ "smart_config" \notin ToSet(CommandsOf(s))
<1> DEFINE c == CommandsOf(s)
<1>1. c \in Seq({c[i] : i \in 1..Len(c)}) /\ DOMAIN c = 1..Len(c)
      /\ \A i \in 1..Len(c) : c[i] # "smart_config"
  <2>1. CASE s = "config"
    <3> DEFINE o == <<"setup_wifi", "setup_mqtt", "config_file", "file", "reset_conf">>
    <3>1. c = o
      BY <2>1 DEF CommandsOf
    <3>2. o \in Seq({o[i] : i \in 1..Len(o)}) /\ Len(o) = 5 /\ DOMAIN o = 1..5
      OBVIOUS
    <3>3. \A i \in 1..5 : o[i] # "smart_config"
      OBVIOUS
    <3> HIDE DEF o
    <3> QED
      BY <3>1, <3>2, <3>3
  <2>2. CASE s = "command"
    <3> DEFINE o == <<"restart", "mem", "info", "version", "config">>
    <3>1. c = o
      BY <2>2 DEF CommandsOf
    <3>2. o \in Seq({o[i] : i \in 1..Len(o)}) /\ Len(o) = 5 /\ DOMAIN o = 1..5
      OBVIOUS
    <3>3. \A i \in 1..5 : o[i] # "smart_config"
      OBVIOUS
    <3> HIDE DEF o
    <3> QED
      BY <3>1, <3>2, <3>3
  <2>3. CASE s # "config" /\ s # "command"
    BY <2>3 DEF CommandsOf
  <2> QED
    BY <2>1, <2>2, <2>3
<1>2. ToSet(c) = {c[i] : i \in 1..Len(c)}
  BY <1>1 DEF ToSet
<1>3. ToSet(c) \subseteq Command
  BY DEF Command
<1> HIDE DEF c
<1>4. c \in Seq(Command) /\ "smart_config" \notin ToSet(c)
  <2>1. c \in Seq(Command)
    BY <1>1, <1>2, <1>3
  <2> QED
    BY <1>1, <1>2, <2>1
<1> QED
  BY <1>4 DEF c

(* No two types of events have the same id, so an entry handles what its   *)
(* part declares.                                                          *)
LEMMA HandlesIs ==
  ASSUME NEW entry \in Entry, NEW e \in BootEvent
  PROVE  Handles(entry, e) <=> entry.view = "own" /\ TypeOf(e) \in Declares[entry.of]
<1>1. \A type, other \in DOMAIN EventId : MsgId(type) = MsgId(other) => type = other
  <2>1. \A type \in DOMAIN EventId : MsgId(type) = EventId[type] + 256 * (1 % 256) + 65536 * (0 % 256)
    BY DEF MsgId, DefMsgId
  <2>2. \A type \in DOMAIN EventId : EventId[type] \in Nat
    BY DEF EventId
  <2>3. \A type, other \in DOMAIN EventId : EventId[type] = EventId[other] => type = other
    BY DEF EventId
  <2> QED
    BY <2>1, <2>2, <2>3
<1>2. TypeOf(e) \in DOMAIN EventId
  BY BootEventIs DEF TypeOf
<1>3. entry.of \in Part
  BY DEF Entry
<1>4. \A p \in Part : Declares[p] \subseteq DOMAIN EventId
  BY OrderIs, BootEventIs DEF Declares
<1> QED
  BY <1>1, <1>2, <1>3, <1>4 DEF Handles

-----------------------------------------------------------------------------
(***************************************************************************)
(* The inductive invariant, in parts.  Where the main task is tells what   *)
(* there is; until the console's task runs nothing is posted, so the loop  *)
(* never dispatches over a list that userSetup() still extends.            *)
(***************************************************************************)
StageInv ==
  /\ stage = "start" => n \in 1..6
  /\ stage = "load" => n \in 1..3
  /\ reading <=> ~(stage = "construct" \/ (stage = "start" /\ n <= 2))
  /\ Len(entries) <= CASE stage = "construct" -> n - 1
                       [] stage = "start"     -> n + 7
                       [] OTHER               -> 14

QuietInv ==
  ~reading => /\ queue = <<>> /\ current = NoEvent
              /\ ~started /\ ~mqttUp
              /\ "smart_config" \notin ToSet(commands)

(* Part p was constructed. *)
Made(p) == stage # "construct" \/ \E m \in 1..(n - 1) : Order[m] = p

(* A part that declares types has one entry of its own, from when it is    *)
(* constructed; and the loader knows the consumers constructed.            *)
OwnEntry(p) == [of |-> p, view |-> "own"]

SubscribedInv ==
  /\ \A i, j \in 1..Len(entries) :
       entries[i].view = "own" /\ entries[i] = entries[j] => i = j
  /\ \A p \in Part : IsSubscriber(p) =>
       (Made(p) <=> \E i \in 1..Len(entries) : entries[i] = OwnEntry(p))

ConsumersInv == \A c \in DOMAIN Consumes : Made(c) => c \in ToSet(consumers)

(* The dispatch: who has handled the event so far. *)
Passed(p) == \E i \in 1..(at - 1) : entries[i] = OwnEntry(p)

ServedInv ==
  current # NoEvent =>
    /\ at \in 1..(Len(entries) + 1)
    /\ \A p \in Part :
         served[p] = IF TypeOf(current) \in Declares[p] /\ Passed(p) THEN 1 ELSE 0

(* File f has been read. *)
Loaded(f) ==
  stage \in {"announce", "return", "done"}
  \/ (stage = "load" /\ \E m \in 1..(n - 1) : Loads[m] = f)

HeldInv ==
  \A c \in DOMAIN Consumes, f \in Name :
    held[c][f] = IF Loaded(f) /\ Takes(c, f) /\ files[f] # Nothing
                 THEN FromJson(f, files[f]) ELSE NoProps(f)

(* SystemConfigReady comes after the files. *)
ReadyInv ==
  (\E i \in 1..Len(queue) : queue[i] = "CONFIG_READY") \/ current = "CONFIG_READY" \/ started
    => stage \in {"return", "done"}

PortalInv ==
  shown # Nothing /\ ~early =>
    stage \in {"announce", "return", "done"} /\ shown = PortalConfig

(* One report of the version: pending, or in its dispatch, or published.   *)
IsReport(q, i) == q[i] = "OTA_REPORT_VERSION"

VersionInv ==
  /\ Len(versions) <= 1
  /\ \A i, j \in 1..Len(queue) : IsReport(queue, i) /\ IsReport(queue, j) => i = j
  /\ (\E i \in 1..Len(queue) : IsReport(queue, i)) =>
       reported /\ current # "OTA_REPORT_VERSION" /\ versions = <<>>
  /\ current = "OTA_REPORT_VERSION" => reported /\ (versions # <<>> => served["publisher"] # 0)
  /\ versions # <<>> => reported

-----------------------------------------------------------------------------
(* The services, once they are started.                                    *)
LinkReport == \E status \in {"WIFI_CONNECTED", "WIFI_DISCONNECTED"} : LinkReported(status)
Environment == ClientUp \/ ClientDown \/ UpdateOffered \/ LinkReport \/ SmartConfigTask

(* What a step does to the queue, and who posts what.                      *)
PostsAs(e) ==
  /\ HasRoom /\ queue' = Append(queue, e) /\ UNCHANGED current
  /\ e = "CONFIG_READY" => Announce
  /\ e = "OTA_REPORT_VERSION" => CallEntry /\ OtaOnEvent /\ ~reported

LEMMA LoopStep ==
  ASSUME [BootNext]_bootVars
  PROVE  /\ \/ UNCHANGED <<queue, current>>
            \/ EventDone /\ UNCHANGED queue
            \/ TakeEvent
            \/ \E e \in BootEvent : PostsAs(e)
         /\ dropped' \in {dropped, TRUE}
         /\ UNCHANGED <<files, portal>>
<1>1. CASE Construct \/ StartService \/ LoadFile \/ SetupReturns \/ UNCHANGED bootVars
  BY <1>1 DEF Construct, StartService, LoadFile, SetupReturns, bootVars, loopVars
<1>2. CASE Announce
  BY <1>2, BootEventIs DEF Announce, Post, PostsAs
<1>3. CASE \E c \in {"config", "smart_config"} : TypeLine(c)
  <2>1. UNCHANGED loopVars \/ (Post("OPEN_CONFIG") /\ PostsAs("OPEN_CONFIG"))
    BY <1>3 DEF TypeLine, Post, PostsAs
  <2>2. UNCHANGED <<files, portal>>
    BY <1>3 DEF TypeLine
  <2> QED
    BY <2>1, <2>2, BootEventIs DEF Post, loopVars
<1>4. CASE TakeEvent
  BY <1>4 DEF TakeEvent, Take
<1>5. CASE CallEntry
  <2> DEFINE p == entries[at].of
  <2>1. \/ UNCHANGED <<queue, dropped>>
        \/ OnEvent(p)
    BY <1>5 DEF CallEntry
  <2>2. UNCHANGED <<current, files, portal>>
    BY <1>5 DEF CallEntry
  <2>3. CASE UNCHANGED <<queue, dropped>>
    BY <2>2, <2>3
  <2>4. CASE WifiOnEvent \/ ConfigOnEvent \/ MqttOnEvent \/ AppOnEvent \/ PublisherOnEvent
    <3>1. \/ UNCHANGED <<queue, dropped>>
          \/ \E e \in {"OPEN_CONFIG", "READY", "APP_REPORT_VERSION", "DNS_CONFIG"} :
               PostFromLoop(e)
      BY <2>4 DEF WifiOnEvent, ConfigOnEvent, MqttOnEvent, MqttConnect, AppOnEvent,
                  PublisherOnEvent, NoPost
    <3>2. {"OPEN_CONFIG", "READY", "APP_REPORT_VERSION", "DNS_CONFIG"} \subseteq BootEvent
      BY BootEventIs DEF Status
    <3> QED
      BY <2>2, <3>1, <3>2 DEF PostFromLoop, PostsAs
  <2>5. CASE OtaOnEvent
    BY <1>5, <2>2, <2>5, BootEventIs DEF OtaOnEvent, PostFromLoop, PostsAs, NoPost
  <2> QED
    BY <2>1, <2>3, <2>4, <2>5 DEF OnEvent
<1>6. CASE EventDone
  BY <1>6 DEF EventDone
<1>7. CASE Environment
  <2>1. /\ \/ \E e \in {"MQTT_CONNECTED", "MQTT_DISCONNECTED", "OTA_NEW_VERSION"} : Post(e)
           \/ \E e \in {"WIFI_CONNECTED", "WIFI_DISCONNECTED"} :
                PostFromLoop(e) /\ UNCHANGED current
           \/ UNCHANGED loopVars
        /\ UNCHANGED <<files, portal>>
    BY <1>7 DEF Environment, LinkReport, LinkReported, ClientUp, ClientDown, UpdateOffered,
                SmartConfigTask
  <2>2. {"MQTT_CONNECTED", "MQTT_DISCONNECTED", "OTA_NEW_VERSION", "WIFI_CONNECTED",
         "WIFI_DISCONNECTED"} \subseteq BootEvent
    BY BootEventIs DEF Status
  <2> QED
    BY <2>1, <2>2 DEF Post, PostFromLoop, PostsAs, loopVars
<1> QED
  BY <1>1, <1>2, <1>3, <1>4, <1>5, <1>6, <1>7 DEF BootNext, MainTask, Environment, LinkReport

(* The place of the main task.                                             *)
LEMMA AdvanceIs ==
  ASSUME NEW last \in Nat \ {0}, NEW next, n \in 1..last, Advance(last, next)
  PROVE  \/ n < last /\ n' = n + 1 /\ stage' = stage
         \/ n = last /\ n' = 1 /\ stage' = next
BY DEF Advance

LEMMA MainStep ==
  ASSUME [BootNext]_bootVars, ~Construct, ~StartService, ~LoadFile
  PROVE  /\ n' = n
         /\ \/ stage' = stage
            \/ stage = "announce" /\ stage' = "return"
            \/ stage = "return" /\ stage' = "done"
         /\ UNCHANGED <<entries, consumers, registered, reading, held>>
<1>1. CASE Announce \/ SetupReturns
  BY <1>1 DEF Announce, SetupReturns, registryVars
<1>2. ASSUME NEW c, TypeLine(c) PROVE UNCHANGED <<mainVars, registryVars>>
  BY <1>2 DEF TypeLine
<1>3. CASE TakeEvent \/ EventDone
  BY <1>3 DEF TakeEvent, EventDone, mainVars, registryVars
<1>4. CASE CallEntry
  BY <1>4 DEF CallEntry, mainVars
<1>5. CASE Environment
  BY <1>5 DEF Environment, LinkReport, LinkReported, ClientUp, ClientDown, UpdateOffered,
              SmartConfigTask, mainVars, registryVars
<1>6. CASE UNCHANGED bootVars
  BY <1>6 DEF bootVars, mainVars, registryVars
<1> QED
  BY <1>1, <1>2, <1>3, <1>4, <1>5, <1>6
     DEF BootNext, MainTask, Environment, LinkReport, mainVars, registryVars

(* What the loop's call of an entry changes besides the queue.             *)
LEMMA CallStep ==
  ASSUME CallEntry
  PROVE  /\ current # NoEvent /\ at <= Len(entries) /\ at' = at + 1
         /\ UNCHANGED <<current, stage, n, entries, consumers, registered, reading, held,
                        typed, smart, ups, offered>>
         /\ commands' \in {commands, Append(commands, "smart_config")}
         /\ mqttUp' \in {mqttUp, FALSE}
<1>1. /\ current # NoEvent /\ at <= Len(entries) /\ at' = at + 1
      /\ UNCHANGED <<current, stage, n, entries, consumers, registered, reading, held,
                     typed, smart, ups, offered>>
  BY DEF CallEntry, mainVars
<1>2. CASE \E p : OnEvent(p)
  <2>1. CASE MqttOnEvent
    <3>1. commands' = commands /\ mqttUp' \in {mqttUp, FALSE}
      BY <2>1 DEF MqttOnEvent, MqttConnect
    <3> QED
      BY <1>1, <3>1
  <2>2. CASE WifiOnEvent \/ ConfigOnEvent \/ AppOnEvent \/ OtaOnEvent \/ PublisherOnEvent
    BY <1>1, <2>2 DEF WifiOnEvent, ConfigOnEvent, AppOnEvent, OtaOnEvent, PublisherOnEvent,
                      callVars
  <2> QED
    BY <1>2, <2>1, <2>2 DEF OnEvent
<1>3. CASE UNCHANGED <<commands, callVars>>
  BY <1>1, <1>3 DEF callVars
<1> QED
  BY <1>1, <1>2, <1>3 DEF CallEntry

(* What the other steps leave alone.                                       *)
LEMMA OtherStep ==
  ASSUME [BootNext]_bootVars, ~CallEntry
  PROVE  /\ UNCHANGED serviceVars
         /\ commands' = commands \/ Construct
         /\ \/ at' = at /\ served' = served /\ current' = current
            \/ TakeEvent \/ EventDone
<1>1. CASE Construct \/ StartService \/ LoadFile \/ Announce \/ SetupReturns
  BY <1>1 DEF Construct, StartService, LoadFile, Announce, SetupReturns, registryVars,
              loopVars, Post
<1>2. CASE \E c \in {"config", "smart_config"} : TypeLine(c)
  BY <1>2 DEF TypeLine, Post, loopVars, registryVars
<1>3. CASE TakeEvent \/ EventDone
  BY <1>3 DEF TakeEvent, EventDone, registryVars
<1>4. CASE Environment
  BY <1>4 DEF Environment, LinkReport, LinkReported, ClientUp, ClientDown, UpdateOffered,
              SmartConfigTask, registryVars, loopVars, Post
<1>5. CASE UNCHANGED bootVars
  BY <1>5 DEF bootVars, registryVars, loopVars
<1> QED
  BY <1>1, <1>2, <1>3, <1>4, <1>5 DEF BootNext, MainTask, Environment, LinkReport

(* Only an entry of its own calls a part; the raw ones call nobody.        *)
LEMMA CallIs ==
  ASSUME CallEntry, entries \in Seq(Entry), at \in Nat \ {0}, current \in BootEvent \cup {NoEvent}
  PROVE  LET p == entries[at].of IN
         \/ /\ entries[at] = OwnEntry(p) /\ p \in Part /\ TypeOf(current) \in Declares[p]
            /\ OnEvent(p)
            /\ served' = [served EXCEPT ![p] = @ + 1]
         \/ /\ \A q \in Part : entries[at] = OwnEntry(q) => TypeOf(current) \notin Declares[q]
            /\ UNCHANGED <<queue, dropped, commands, callVars, served>>
<1> DEFINE entry == entries[at]
<1>1. at \in 1..Len(entries) /\ current \in BootEvent
  BY DEF CallEntry
<1>2. entry \in Entry
  BY <1>1
<1>3. Handles(entry, current) <=> entry.view = "own" /\ TypeOf(current) \in Declares[entry.of]
  BY <1>1, <1>2, HandlesIs
<1>4. entry.of \in Part /\ (entry.view = "own" <=> entry = OwnEntry(entry.of))
      /\ \A q \in Part : entry = OwnEntry(q) => entry.view = "own" /\ entry.of = q
  BY <1>2 DEF Entry, OwnEntry
<1>5. CASE Handles(entry, current)
  <2>1. OnEvent(entry.of) /\ served' = [served EXCEPT ![entry.of] = @ + 1]
    BY <1>5 DEF CallEntry
  <2> QED
    BY <1>3, <1>4, <1>5, <2>1
<1>6. CASE ~Handles(entry, current)
  <2>1. UNCHANGED <<queue, dropped, commands, callVars, served>>
    BY <1>6 DEF CallEntry
  <2> QED
    BY <1>3, <1>4, <1>6, <2>1
<1> QED
  BY <1>5, <1>6

-----------------------------------------------------------------------------
(* Where the main task is.                                                 *)
LEMMA StageStep ==
  ASSUME stage \in Stage, n \in 1..8, entries \in Seq(Entry), StageInv, [BootNext]_bootVars
  PROVE  StageInv' /\ stage' \in Stage /\ n' \in 1..8 /\ entries' \in Seq(Entry)
<1>1. Len(entries) \in Nat
  OBVIOUS
<1>2. \A s \in Part, v \in {"own", "raw"} :
        /\ Append(entries, [of |-> s, view |-> v]) \in Seq(Entry)
        /\ Len(Append(entries, [of |-> s, view |-> v])) = Len(entries) + 1
  BY DEF Entry
<1>3. CASE Construct
  <2>1. stage = "construct" /\ UNCHANGED reading
        /\ ((n < 8 /\ n' = n + 1 /\ stage' = stage) \/ (n = 8 /\ n' = 1 /\ stage' = "start"))
    <3>1. Advance(8, "start")
      BY <1>3, OrderIs DEF Construct
    <3> QED
      BY <1>3, <3>1, AdvanceIs DEF Construct
  <2>2. entries' \in Seq(Entry) /\ Len(entries') <= Len(entries) + 1 /\ Len(entries') \in Nat
    BY <1>1, <1>2, <1>3, OrderIs DEF Construct, Create, SubscribeNew
  <2> QED
    BY <1>1, <2>1, <2>2 DEF StageInv, Stage
<1>4. CASE StartService
  <2>1. stage = "start" /\ n \in 1..6
        /\ ((n < 6 /\ n' = n + 1 /\ stage' = stage) \/ (n = 6 /\ n' = 1 /\ stage' = "load"))
    <3>1. Advance(6, "load")
      BY <1>4, ServicesIs DEF StartService
    <3>2. stage = "start" /\ n \in 1..6
      BY <1>4 DEF StartService, StageInv
    <3> QED
      BY <3>1, <3>2, AdvanceIs
  <2>2. Services[n] \in Part /\ (Services[n] = "console" <=> n = 2)
    BY <2>1, ServicesIs, OrderIs
  <2>3. reading' <=> reading \/ n = 2
    BY <1>4, <2>2 DEF StartService, ConsoleSetup
  <2>4. entries' \in Seq(Entry) /\ Len(entries') <= Len(entries) + 1 /\ Len(entries') \in Nat
    <3>1. entries' \in {entries, Append(entries, [of |-> Services[n], view |-> "raw"])}
      BY <1>4 DEF StartService, Subscribe
    <3>2. /\ Append(entries, [of |-> Services[n], view |-> "raw"]) \in Seq(Entry)
          /\ Len(Append(entries, [of |-> Services[n], view |-> "raw"])) = Len(entries) + 1
      BY <1>2, <2>2
    <3> QED
      BY <1>1, <3>1, <3>2
  <2>5. reading' <=> ~(stage' = "construct" \/ (stage' = "start" /\ n' <= 2))
    <3>1. (reading <=> n > 2) /\ ((n = 2 \/ n > 2) <=> ~(n + 1 <= 2))
      BY <2>1 DEF StageInv
    <3>2. CASE n < 6 /\ n' = n + 1 /\ stage' = stage
      BY <2>1, <2>3, <3>1, <3>2
    <3>3. CASE n = 6 /\ n' = 1 /\ stage' = "load"
      <4>1. n > 2
        BY <3>3
      <4> QED
        BY <2>3, <3>1, <3>3, <4>1
    <3> QED
      BY <2>1, <3>2, <3>3
  <2>6. /\ stage' = "start" => n' \in 1..6
        /\ stage' = "load" => n' \in 1..3
        /\ Len(entries') <= CASE stage' = "construct" -> n' - 1
                              [] stage' = "start"     -> n' + 7
                              [] OTHER                -> 14
    BY <1>1, <2>1, <2>4 DEF StageInv
  <2> QED
    BY <2>1, <2>4, <2>5, <2>6 DEF StageInv, Stage
<1>5. CASE LoadFile
  <2>1. stage = "load" /\ n \in 1..3 /\ UNCHANGED <<reading, entries>>
        /\ ((n < 3 /\ n' = n + 1 /\ stage' = stage) \/ (n = 3 /\ n' = 1 /\ stage' = "announce"))
    <3>1. Advance(3, "announce")
      BY <1>5, LoadsIs DEF LoadFile
    <3>2. stage = "load" /\ n \in 1..3 /\ UNCHANGED <<reading, entries>>
      BY <1>5 DEF LoadFile, StageInv
    <3> QED
      BY <3>1, <3>2, AdvanceIs
  <2> QED
    BY <1>1, <2>1 DEF StageInv, Stage
<1>6. CASE ~Construct /\ ~StartService /\ ~LoadFile
  <2>1. /\ UNCHANGED <<n, entries, reading>>
        /\ \/ stage' = stage
           \/ stage = "announce" /\ stage' = "return"
           \/ stage = "return" /\ stage' = "done"
    BY <1>6, MainStep
  <2> QED
    BY <1>1, <2>1 DEF StageInv, Stage
<1> QED
  BY <1>3, <1>4, <1>5, <1>6

-----------------------------------------------------------------------------
(* The types. *)

LEMMA CommandsStep ==
  ASSUME commands \in Seq(Command), n \in 1..8, [BootNext]_bootVars
  PROVE  /\ commands' \in Seq(Command)
         /\ ToSet(commands) \subseteq Command
         /\ \/ commands' = commands
            \/ Construct /\ (ToSet(commands') \subseteq ToSet(commands) \cup (Command \ {"smart_config"}))
            \/ CallEntry /\ ToSet(commands') = ToSet(commands) \cup {"smart_config"}
<1>1. "smart_config" \in Command
  BY DEF Command
<1>2. ToSet(commands) \subseteq Command
  BY DEF ToSet
<1>3. CASE Construct
  <2> DEFINE more == CommandsOf(Order[n])
  <2>1. more \in Seq(Command) /\ "smart_config" \notin ToSet(more)
    BY OrderIs, CommandsAre
  <2>2. commands' = commands \o more
    BY <1>3 DEF Construct, Create, RegisterCommands
  <2> HIDE DEF more
  <2>3. ToSet(more) \subseteq Command \ {"smart_config"}
    BY <2>1 DEF ToSet
  <2>4. commands' \in Seq(Command)
    BY <2>1, <2>2
  <2>5. ToSet(commands') \subseteq ToSet(commands) \cup ToSet(more)
    <3> SUFFICES ASSUME NEW i \in DOMAIN commands'
        PROVE  commands'[i] \in ToSet(commands) \cup ToSet(more)
      BY DEF ToSet
    <3>1. i \in 1..(Len(commands) + Len(more)) /\ Len(commands) \in Nat /\ Len(more) \in Nat
      BY <2>1, <2>2
    <3>2. CASE i <= Len(commands)
      <4>1. commands'[i] = commands[i] /\ i \in DOMAIN commands
        BY <2>1, <2>2, <3>1, <3>2
      <4> QED
        BY <4>1 DEF ToSet
    <3>3. CASE ~(i <= Len(commands))
      <4>1. commands'[i] = more[i - Len(commands)] /\ i - Len(commands) \in DOMAIN more
        BY <2>1, <2>2, <3>1, <3>3
      <4> QED
        BY <4>1 DEF ToSet
    <3> QED
      BY <3>2, <3>3
  <2> QED
    BY <1>2, <1>3, <2>3, <2>4, <2>5
<1>4. CASE CallEntry
  <2>1. CASE commands' = commands
    BY <1>2, <2>1
  <2>2. CASE commands' = Append(commands, "smart_config")
    <3>1. commands' \in Seq(Command) /\ DOMAIN commands' = 1..(Len(commands) + 1)
          /\ DOMAIN commands = 1..Len(commands) /\ Len(commands) \in Nat
          /\ commands'[Len(commands) + 1] = "smart_config"
          /\ \A i \in 1..Len(commands) : commands'[i] = commands[i]
      BY <1>1, <2>2
    <3>2. ToSet(commands') = ToSet(commands) \cup {"smart_config"}
      <4>1. \A i \in 1..(Len(commands) + 1) : i \in 1..Len(commands) \/ i = Len(commands) + 1
        BY <3>1
      <4>2. 1..Len(commands) \subseteq 1..(Len(commands) + 1)
            /\ Len(commands) + 1 \in 1..(Len(commands) + 1)
        BY <3>1
      <4> QED
        BY <3>1, <4>1, <4>2 DEF ToSet
    <3> QED
      BY <1>2, <1>4, <3>1, <3>2
  <2> QED
    BY <1>4, <2>1, <2>2, CallStep
<1> QED
  BY <1>2, <1>3, <1>4, OtherStep

(* What a file is read to, and what is applied.                            *)
LEMMA ReadFileIs ==
  ASSUME files \in Files, NEW f \in Name, files[f] # Nothing
  PROVE  FromJson(f, files[f]) \in Props(f)
<1>1. files[f] \in Seq(Item)
  BY BootAssumption
<1> QED
  BY <1>1, FromJsonSays

LEMMA HeldTypeStep ==
  ASSUME BootTypeOK, StageInv, files \in Files, [BootNext]_bootVars
  PROVE  held' \in [DOMAIN Consumes -> [Name -> UNION {Props(f) : f \in Name}]]
<1>1. CASE LoadFile
  <2> DEFINE f == Loads[n]
  <2>1. n \in 1..3 /\ f \in Name
    BY <1>1, LoadsIs DEF LoadFile, StageInv, Name
  <2>2. CASE files[f] = Nothing
    BY <1>1, <2>2 DEF LoadFile, BootTypeOK
  <2>3. CASE files[f] # Nothing
    <3> DEFINE props == FromJson(f, files[f])
    <3>1. props \in UNION {Props(g) : g \in Name}
      BY <2>1, <2>3, ReadFileIs
    <3>2. held' = Applied(f, props)
      BY <1>1, <2>3 DEF LoadFile
    <3> HIDE DEF props, f
    <3> QED
      BY <2>1, <3>1, <3>2 DEF Applied, BootTypeOK
  <2> QED
    BY <2>2, <2>3
<1>2. CASE ~LoadFile
  BY <1>2, MainStep DEF BootTypeOK, Construct, StartService
<1> QED
  BY <1>1, <1>2

(* The queue: what was in it and is not taken, and what is posted.         *)
LEMMA PostedTo ==
  ASSUME NEW q \in Seq(BootEvent), NEW e \in BootEvent
  PROVE  /\ Append(q, e) \in Seq(BootEvent)
         /\ Len(q) \in Nat /\ Len(Append(q, e)) = Len(q) + 1
         /\ \A i \in 1..Len(q) : Append(q, e)[i] = q[i]
         /\ Append(q, e)[Len(q) + 1] = e
         /\ \A i \in 1..(Len(q) + 1) : i \in 1..Len(q) \/ i = Len(q) + 1
OBVIOUS

LEMMA TakenFrom ==
  ASSUME NEW q \in Seq(BootEvent), q # <<>>
  PROVE  /\ Tail(q) \in Seq(BootEvent) /\ Head(q) \in BootEvent /\ Head(q) = q[1]
         /\ Len(q) \in Nat /\ 1 \in 1..Len(q) /\ Len(Tail(q)) = Len(q) - 1
         /\ \A i \in 1..Len(Tail(q)) : Tail(q)[i] = q[i + 1] /\ i + 1 \in 1..Len(q) /\ i + 1 # 1
OBVIOUS

LEMMA LoopTypeStep ==
  ASSUME BootTypeOK, [BootNext]_bootVars
  PROVE  /\ queue' \in Seq(BootEvent) /\ Len(queue') <= QueueSize
         /\ current' \in BootEvent \cup {NoEvent}
         /\ dropped' \in BOOLEAN
<1>1. CASE UNCHANGED queue /\ (UNCHANGED current \/ EventDone)
  BY <1>1, LoopStep DEF BootTypeOK, EventDone, Done
<1>2. CASE TakeEvent
  <2>1. queue # <<>> /\ queue' = Tail(queue) /\ current' = Head(queue)
    BY <1>2 DEF TakeEvent, Take
  <2>2. Tail(queue) \in Seq(BootEvent) /\ Head(queue) \in BootEvent
        /\ Len(Tail(queue)) = Len(queue) - 1 /\ Len(queue) \in Nat
    BY <2>1, TakenFrom DEF BootTypeOK
  <2>3. Len(Tail(queue)) <= QueueSize
    BY <2>2, QueueSizeAssumption DEF BootTypeOK
  <2> QED
    BY <2>1, <2>2, <2>3, LoopStep DEF BootTypeOK
<1>3. ASSUME NEW e \in BootEvent, PostsAs(e)
      PROVE  queue' \in Seq(BootEvent) /\ Len(queue') <= QueueSize /\ UNCHANGED current
  <2>1. /\ Append(queue, e) \in Seq(BootEvent)
        /\ Len(queue) \in Nat /\ Len(Append(queue, e)) = Len(queue) + 1
    BY PostedTo DEF BootTypeOK
  <2> QED
    BY <1>3, <2>1, QueueSizeAssumption DEF PostsAs, HasRoom
<1>4. dropped' \in BOOLEAN
  BY LoopStep DEF BootTypeOK
<1> QED
  BY <1>1, <1>2, <1>3, <1>4, LoopStep DEF BootTypeOK

LEMMA BootTypeStep ==
  ASSUME BootTypeOK, files \in Files, StageInv, [BootNext]_bootVars
  PROVE  BootTypeOK' /\ files' \in Files /\ StageInv'
<1>1. n \in 1..8 /\ Len(entries) \in Nat
  BY OrderIs DEF BootTypeOK
<1>2. /\ queue' \in Seq(BootEvent) /\ Len(queue') <= QueueSize
      /\ current' \in BootEvent \cup {NoEvent} /\ dropped' \in BOOLEAN
  BY LoopTypeStep
<1>3. portal' \in BOOLEAN /\ files' \in Files
  BY LoopStep DEF BootTypeOK
<1>4. StageInv' /\ stage' \in Stage /\ n' \in 1..8 /\ entries' \in Seq(Entry)
  BY <1>1, StageStep DEF BootTypeOK
<1>5. n' \in 1..Len(Order) /\ Len(entries') <= 2 * Len(Order)
  BY <1>4, OrderIs DEF StageInv
<1>6. consumers' \in Seq(DOMAIN Consumes)
  <2>1. CASE Construct
    <3>1. \A s \in DOMAIN Consumes : Append(consumers, s) \in Seq(DOMAIN Consumes)
      BY DEF BootTypeOK
    <3>2. consumers' = IF Order[n] \in DOMAIN Consumes THEN Append(consumers, Order[n]) ELSE consumers
      BY <2>1 DEF Construct, Create, AddConsumer
    <3> QED
      BY <3>1, <3>2 DEF BootTypeOK
  <2>2. CASE ~Construct
    BY <2>2, MainStep DEF BootTypeOK, StartService, LoadFile
  <2> QED
    BY <2>1, <2>2
<1>7. commands' \in Seq(Command) /\ ToSet(commands) \subseteq Command
  BY <1>1, CommandsStep DEF BootTypeOK
<1>8. registered' \subseteq Command /\ reading' \in BOOLEAN
  <2>1. CASE StartService
    BY <1>7, <2>1 DEF StartService, ConsoleSetup, BootTypeOK
  <2>2. CASE ~StartService
    BY <2>2, MainStep DEF BootTypeOK, Construct, LoadFile
  <2> QED
    BY <2>1, <2>2
<1>9. held' \in [DOMAIN Consumes -> [Name -> UNION {Props(f) : f \in Name}]]
  BY HeldTypeStep
<1>10. typed' \in 0..MaxTyped
  <2>1. CASE \E c \in {"config", "smart_config"} : TypeLine(c)
    <3>1. typed \in Nat /\ typed < MaxTyped /\ typed' = typed + 1
      BY <2>1 DEF TypeLine, BootTypeOK
    <3> QED
      BY <3>1, BootAssumption
  <2>2. CASE Construct \/ StartService \/ LoadFile \/ Announce \/ SetupReturns
    BY <2>2 DEF Construct, StartService, LoadFile, Announce, SetupReturns, BootTypeOK
  <2>3. CASE TakeEvent \/ CallEntry \/ EventDone
    BY <2>3 DEF TakeEvent, CallEntry, EventDone, BootTypeOK
  <2>4. CASE Environment
    BY <2>4 DEF Environment, LinkReport, LinkReported, ClientUp, ClientDown, UpdateOffered,
                SmartConfigTask, BootTypeOK
  <2>5. CASE UNCHANGED bootVars
    BY <2>5 DEF bootVars, BootTypeOK
  <2> QED
    BY <2>1, <2>2, <2>3, <2>4, <2>5 DEF BootNext, MainTask, Environment, LinkReport
<1>11. mqttUp' \in BOOLEAN /\ ups' \in 0..MaxUps /\ offered' \in BOOLEAN
  <2>1. CASE ClientUp
    <3>1. mqttUp' = TRUE /\ UNCHANGED offered /\ ups \in Nat /\ ups < MaxUps /\ ups' = ups + 1
      BY <2>1 DEF ClientUp, BootTypeOK
    <3>2. ups' \in 0..MaxUps
      BY <3>1, BootAssumption
    <3> QED
      BY <3>1, <3>2 DEF BootTypeOK
  <2>2. CASE ClientDown \/ UpdateOffered \/ LinkReport \/ SmartConfigTask
    BY <2>2 DEF ClientDown, UpdateOffered, LinkReport, LinkReported, SmartConfigTask, linkVars,
                BootTypeOK
  <2>3. CASE \E c \in {"config", "smart_config"} : TypeLine(c)
    BY <2>3 DEF TypeLine, linkVars, BootTypeOK
  <2>4. CASE Construct \/ StartService \/ LoadFile \/ Announce \/ SetupReturns
    BY <2>4 DEF Construct, StartService, LoadFile, Announce, SetupReturns, linkVars, BootTypeOK
  <2>5. CASE TakeEvent \/ EventDone
    BY <2>5 DEF TakeEvent, EventDone, linkVars, BootTypeOK
  <2>6. CASE CallEntry
    BY <2>6, CallStep DEF BootTypeOK
  <2>7. CASE UNCHANGED bootVars
    BY <2>7 DEF bootVars, linkVars, BootTypeOK
  <2> QED
    BY <2>1, <2>2, <2>3, <2>4, <2>5, <2>6, <2>7 DEF BootNext, MainTask, LinkReport
<1>12. at' \in 0..(Len(entries') + 1)
  <2>1. CASE Construct \/ StartService
    <3>1. Len(entries') \in {Len(entries), Len(entries) + 1} /\ at' = at
      <4>1. \A x : Len(Append(entries, x)) = Len(entries) + 1
        BY DEF BootTypeOK
      <4> QED
        BY <2>1, <4>1 DEF Construct, StartService, Create, SubscribeNew, Subscribe
    <3> QED
      BY <1>1, <3>1 DEF BootTypeOK
  <2>2. CASE ~Construct /\ ~StartService
    <3>1. entries' = entries
      BY <2>2, MainStep DEF LoadFile
    <3>2. CASE CallEntry
      <4>1. at' = at + 1 /\ at <= Len(entries) /\ at \in Nat
        BY <3>2, CallStep DEF BootTypeOK
      <4> QED
        BY <1>1, <3>1, <4>1
    <3>3. CASE ~CallEntry
      <4>1. at' \in {at, 0, 1}
        BY <3>3, OtherStep DEF TakeEvent, EventDone
      <4> QED
        BY <1>1, <3>1, <4>1 DEF BootTypeOK
    <3> QED
      BY <3>2, <3>3
  <2> QED
    BY <2>1, <2>2
<1>13. served' \in [Part -> Nat]
  <2>0. served \in [Part -> Nat]
    BY DEF BootTypeOK
  <2>1. CASE CallEntry
    <3>1. PICK p : served' \in {served, [served EXCEPT ![p] = @ + 1]}
      <4>1. CASE Handles(entries[at], current)
        BY <2>1, <4>1 DEF CallEntry
      <4>2. CASE ~Handles(entries[at], current)
        BY <2>1, <4>2 DEF CallEntry
      <4> QED
        BY <4>1, <4>2
    <3> QED
      BY <2>0, <3>1
  <2>2. CASE ~CallEntry
    <3>1. served' \in {served, NoneServed}
      BY <2>2, OtherStep DEF TakeEvent, EventDone
    <3> QED
      BY <2>0, <3>1 DEF NoneServed
  <2> QED
    BY <2>1, <2>2
<1>14. /\ started' \in BOOLEAN /\ early' \in BOOLEAN /\ reported' \in BOOLEAN
       /\ versions' \in Seq(BOOLEAN)
       /\ shown' \in {Nothing} \cup [{"wifi", "app"} -> UNION {Props(f) : f \in Name}]
  <2>1. CASE UNCHANGED serviceVars
    BY <2>1 DEF serviceVars, BootTypeOK
  <2>2. ASSUME CallEntry, NEW p, OnEvent(p)
        PROVE  /\ started' \in BOOLEAN /\ early' \in BOOLEAN /\ reported' \in BOOLEAN
               /\ versions' \in Seq(BOOLEAN)
               /\ shown' \in {shown, PortalConfig}
    <3>1. CASE p = "wifi" /\ WifiOnEvent
      BY <3>1 DEF WifiOnEvent, BootTypeOK
    <3>2. CASE p = "config" /\ ConfigOnEvent
      BY <3>2 DEF ConfigOnEvent, BootTypeOK
    <3>3. CASE MqttOnEvent \/ AppOnEvent
      BY <3>3 DEF MqttOnEvent, AppOnEvent, callVars, serviceVars, BootTypeOK
    <3>4. CASE OtaOnEvent
      BY <3>4 DEF OtaOnEvent, BootTypeOK
    <3>5. CASE PublisherOnEvent
      BY <3>5 DEF PublisherOnEvent, BootTypeOK
    <3> QED
      BY <2>2, <3>1, <3>2, <3>3, <3>4, <3>5 DEF OnEvent
  <2>3. PortalConfig \in [{"wifi", "app"} -> UNION {Props(f) : f \in Name}]
    <3>1. held["config"] \in [Name -> UNION {Props(f) : f \in Name}]
      BY ConsumersAre DEF BootTypeOK
    <3> QED
      BY <3>1 DEF PortalConfig, Name
  <2>4. UNCHANGED serviceVars \/ (CallEntry /\ \E p : OnEvent(p))
    BY OtherStep DEF CallEntry, callVars
  <2> QED
    BY <2>1, <2>2, <2>3, <2>4 DEF BootTypeOK
<1>15. stopped' \in BOOLEAN /\ pending' \in Nat /\ smart' \in {"off", "running", "aborted"}
  <2>1. CASE UNCHANGED haltVars
    BY <2>1 DEF haltVars, BootTypeOK
  <2>2. CASE SmartConfigTask
    BY <2>2 DEF SmartConfigTask, BootTypeOK
  <2>3. ASSUME CallEntry, NEW p, OnEvent(p)
        PROVE  stopped' \in BOOLEAN /\ pending' \in Nat
    <3>1. CASE MqttOnEvent
      <4>1. pending' = pending /\ (stopped' = stopped \/ stopped' \in BOOLEAN)
        BY <3>1 DEF MqttOnEvent, MqttConnect
      <4> QED
        BY <4>1 DEF BootTypeOK
    <3>2. CASE ConfigOnEvent
      <4>1. pending' \in {pending, pending + 1} /\ stopped' \in BOOLEAN
        BY <3>2 DEF ConfigOnEvent
      <4> QED
        BY <4>1 DEF BootTypeOK
    <3>3. CASE WifiOnEvent \/ AppOnEvent \/ OtaOnEvent \/ PublisherOnEvent
      BY <3>3 DEF WifiOnEvent, AppOnEvent, OtaOnEvent, PublisherOnEvent, callVars, BootTypeOK
    <3> QED
      BY <2>3, <3>1, <3>2, <3>3 DEF OnEvent
  <2>4. CASE CallEntry
    <3>1. smart' = smart
      BY <2>4, CallStep
    <3>2. (\E p : OnEvent(p)) \/ UNCHANGED <<stopped, pending>>
      BY <2>4 DEF CallEntry, callVars
    <3> QED
      BY <2>3, <2>4, <3>1, <3>2 DEF BootTypeOK
  <2>5. CASE ~CallEntry /\ ~SmartConfigTask
    <3>1. UNCHANGED haltVars
      BY <2>5 DEF BootNext, MainTask, Construct, StartService, LoadFile, Announce,
                  SetupReturns, TypeLine, TakeEvent, EventDone, LinkReported, ClientUp,
                  ClientDown, UpdateOffered, bootVars
    <3> QED
      BY <2>1, <3>1
  <2> QED
    BY <2>2, <2>4, <2>5
<1> QED
  BY <1>2, <1>3, <1>4, <1>5, <1>6, <1>7, <1>8, <1>9, <1>10, <1>11, <1>12, <1>13, <1>14, <1>15
     DEF BootTypeOK

-----------------------------------------------------------------------------
(* Nothing is posted before the console's task runs.                       *)
LEMMA QuietStep ==
  ASSUME BootTypeOK, StageInv, QuietInv, [BootNext]_bootVars
  PROVE  QuietInv'
<1> SUFFICES ASSUME ~reading'
    PROVE  /\ queue' = <<>> /\ current' = NoEvent
           /\ ~started' /\ ~mqttUp'
           /\ "smart_config" \notin ToSet(commands')
  BY DEF QuietInv
<1>1. ~reading
  <2>1. CASE StartService
    BY <2>1 DEF StartService, ConsoleSetup
  <2>2. CASE ~StartService
    BY <2>2, MainStep DEF Construct, LoadFile
  <2> QED
    BY <2>1, <2>2
<1>2. /\ queue = <<>> /\ current = NoEvent /\ ~started /\ ~mqttUp
      /\ "smart_config" \notin ToSet(commands)
      /\ stage \in {"construct", "start"}
  BY <1>1 DEF QuietInv, StageInv
<1>3. \/ Construct \/ StartService \/ SmartConfigTask \/ UNCHANGED bootVars
  BY <1>1, <1>2 DEF BootNext, MainTask, LoadFile, Announce, SetupReturns, TypeLine, TakeEvent,
                    Take, CallEntry, EventDone, LinkReported, ClientUp, ClientDown,
                    UpdateOffered
<1>4. UNCHANGED <<queue, current, started, mqttUp>>
  BY <1>3 DEF Construct, StartService, SmartConfigTask, bootVars, loopVars, serviceVars,
              linkVars
<1>5. "smart_config" \notin ToSet(commands')
  <2>1. n \in 1..8
    BY OrderIs DEF BootTypeOK
  <2>2. ~CallEntry
    BY <1>2 DEF CallEntry
  <2> QED
    BY <1>2, <2>1, <2>2, CommandsStep DEF BootTypeOK
<1> QED
  BY <1>2, <1>4, <1>5

(* While an event is dispatched the list is complete but for raw entries.  *)
LEMMA DispatchStage ==
  ASSUME StageInv, QuietInv, current # NoEvent
  PROVE  reading /\ ~Construct /\ stage # "construct"
BY DEF StageInv, QuietInv, Construct

-----------------------------------------------------------------------------
(* Who is constructed, subscribed and known to the loader. *)

LEMMA MadeStep ==
  ASSUME BootTypeOK, StageInv, [BootNext]_bootVars, NEW p \in Part
  PROVE  Made(p)' <=> Made(p) \/ (Construct /\ p = Order[n])
<1>1. CASE Construct
  <2>1. /\ stage = "construct" /\ n \in 1..8
        /\ ((n < 8 /\ n' = n + 1 /\ stage' = stage) \/ (n = 8 /\ n' = 1 /\ stage' = "start"))
    <3>1. Advance(8, "start") /\ n \in 1..8
      BY <1>1, OrderIs DEF Construct, BootTypeOK
    <3> QED
      BY <1>1, <3>1, AdvanceIs DEF Construct
  <2>2. CASE n < 8 /\ n' = n + 1 /\ stage' = stage
    <3>1. \A m : m \in 1..n <=> (m \in 1..(n - 1) \/ m = n)
      BY <2>1
    <3>2. n' - 1 = n
      BY <2>1, <2>2
    <3> QED
      BY <1>1, <2>1, <2>2, <3>1, <3>2 DEF Made
  <2>3. CASE n = 8 /\ n' = 1 /\ stage' = "start"
    <3>1. \E m \in 1..8 : Order[m] = p
      BY OrderIs
    <3>2. \A m \in 1..8 : m \in 1..(n - 1) \/ m = n
      BY <2>3
    <3> QED
      BY <1>1, <2>3, <3>1, <3>2 DEF Made
  <2> QED
    BY <2>1, <2>2, <2>3
<1>2. CASE ~Construct
  <2>1. (stage' = "construct" <=> stage = "construct") /\ (stage = "construct" => n' = n)
    <3>1. CASE StartService \/ LoadFile
      BY <3>1 DEF StartService, LoadFile, Advance
    <3>2. CASE ~StartService /\ ~LoadFile
      BY <1>2, <3>2, MainStep
    <3> QED
      BY <3>1, <3>2
  <2> QED
    BY <1>2, <2>1 DEF Made
<1> QED
  BY <1>1, <1>2

(* No part is constructed twice.                                           *)
LEMMA MadeOnce ==
  ASSUME BootTypeOK, Construct
  PROVE  ~Made(Order[n])
<1>1. n \in 1..8 /\ stage = "construct"
  BY OrderIs DEF BootTypeOK, Construct
<1>2. \A i, j \in 1..8 : Order[i] = Order[j] => i = j
  BY OrderIs
<1>3. \A m \in 1..(n - 1) : m \in 1..8 /\ m # n
  BY <1>1
<1> QED
  BY <1>1, <1>2, <1>3 DEF Made

(* An entry added at the end.                                              *)
LEMMA EntryAdded ==
  ASSUME entries \in Seq(Entry), NEW x \in Entry, entries' = Append(entries, x)
  PROVE  /\ Len(entries) \in Nat /\ Len(entries') = Len(entries) + 1
         /\ entries'[Len(entries) + 1] = x
         /\ \A i \in 1..Len(entries) : entries'[i] = entries[i] /\ i \in 1..Len(entries')
         /\ Len(entries) + 1 \in 1..Len(entries')
         /\ \A i \in 1..Len(entries') : i \in 1..Len(entries) \/ i = Len(entries) + 1
OBVIOUS

(* What the steps do to the list.                                          *)
LEMMA EntriesStep ==
  ASSUME BootTypeOK, StageInv, [BootNext]_bootVars
  PROVE  \/ entries' = entries /\ ~(Construct /\ IsSubscriber(Order[n]))
         \/ Construct /\ IsSubscriber(Order[n]) /\ Order[n] \in Part
            /\ entries' = Append(entries, OwnEntry(Order[n]))
         \/ StartService /\ ~Construct
            /\ \E s \in Part : entries' = Append(entries, [of |-> s, view |-> "raw"])
<1>1. CASE Construct
  <2>1. Order[n] \in Part
    <3>1. n \in 1..8
      BY OrderIs DEF BootTypeOK
    <3> QED
      BY <3>1, OrderIs
  <2> QED
    BY <1>1, <2>1 DEF Construct, Create, SubscribeNew, OwnEntry
<1>2. CASE StartService
  <2>1. ~Construct /\ Services[n] \in Part
    BY <1>2, ServicesIs DEF StartService, Construct, StageInv
  <2> QED
    BY <1>2, <2>1 DEF StartService, Subscribe
<1>3. CASE ~Construct /\ ~StartService
  BY <1>3, MainStep DEF LoadFile
<1> QED
  BY <1>1, <1>2, <1>3

LEMMA SubscribedStep ==
  ASSUME BootTypeOK, StageInv, SubscribedInv, [BootNext]_bootVars
  PROVE  SubscribedInv'
<1>1. \A p \in Part : Made(p)' <=> Made(p) \/ (Construct /\ p = Order[n])
  BY MadeStep
<1>2. CASE entries' = entries /\ ~(Construct /\ IsSubscriber(Order[n]))
  BY <1>1, <1>2 DEF SubscribedInv
<1>3. CASE Construct /\ IsSubscriber(Order[n]) /\ Order[n] \in Part
           /\ entries' = Append(entries, OwnEntry(Order[n]))
  <2> DEFINE p == Order[n]
  <2>1. OwnEntry(p) \in Entry /\ \A q \in Part : OwnEntry(q) = OwnEntry(p) => q = p
    BY <1>3 DEF OwnEntry, Entry
  <2>2. ~Made(p)
    BY <1>3, MadeOnce
  <2>3. \A i \in 1..Len(entries) : entries[i] # OwnEntry(p)
    BY <1>3, <2>2 DEF SubscribedInv
  <2> HIDE DEF p
  <2>4. /\ Len(entries) \in Nat /\ Len(entries') = Len(entries) + 1
        /\ entries'[Len(entries) + 1] = OwnEntry(p)
        /\ \A i \in 1..Len(entries) : entries'[i] = entries[i] /\ i \in 1..Len(entries')
        /\ Len(entries) + 1 \in 1..Len(entries')
        /\ \A i \in 1..Len(entries') : i \in 1..Len(entries) \/ i = Len(entries) + 1
    BY <1>3, <2>1, EntryAdded DEF BootTypeOK, p
  <2>5. \A i, j \in 1..Len(entries') :
          entries'[i].view = "own" /\ entries'[i] = entries'[j] => i = j
    <3> SUFFICES ASSUME NEW i \in 1..Len(entries'), NEW j \in 1..Len(entries'),
                        entries'[i].view = "own", entries'[i] = entries'[j]
        PROVE  i = j
      OBVIOUS
    <3>1. CASE i \in 1..Len(entries) /\ j \in 1..Len(entries)
      <4>1. entries[i].view = "own" /\ entries[i] = entries[j]
        BY <2>4, <3>1
      <4> QED
        BY <3>1, <4>1 DEF SubscribedInv
    <3>2. CASE i = Len(entries) + 1 /\ j \in 1..Len(entries)
      BY <2>3, <2>4, <3>2
    <3>3. CASE j = Len(entries) + 1 /\ i \in 1..Len(entries)
      BY <2>3, <2>4, <3>3
    <3> QED
      BY <2>4, <3>1, <3>2, <3>3
  <2>6. ASSUME NEW q \in Part, IsSubscriber(q)
        PROVE  Made(q)' <=> \E i \in 1..Len(entries') : entries'[i] = OwnEntry(q)
    <3>1. CASE q = p
      BY <1>1, <1>3, <2>4, <3>1 DEF p
    <3>2. CASE q # p
      <4>1. Made(q)' <=> Made(q)
        BY <1>1, <3>2 DEF p
      <4>2. OwnEntry(q) # OwnEntry(p)
        BY <2>1, <3>2 DEF p
      <4>3. Made(q) <=> \E i \in 1..Len(entries) : entries[i] = OwnEntry(q)
        BY <2>6 DEF SubscribedInv
      <4> QED
        BY <2>4, <4>1, <4>2, <4>3
    <3> QED
      BY <3>1, <3>2
  <2> QED
    BY <2>5, <2>6 DEF SubscribedInv
<1>4. ASSUME ~Construct, NEW s \in Part, entries' = Append(entries, [of |-> s, view |-> "raw"])
      PROVE  SubscribedInv'
  <2> DEFINE x == [of |-> s, view |-> "raw"]
  <2>1. x \in Entry /\ x.view # "own" /\ \A q \in Part : OwnEntry(q) # x
    <3>1. \A q \in Part : OwnEntry(q).view = "own"
      BY DEF OwnEntry
    <3>2. x.view = "raw" /\ x \in Entry
      BY DEF Entry
    <3> QED
      BY <3>1, <3>2
  <2> HIDE DEF x
  <2>2. /\ Len(entries) \in Nat /\ Len(entries') = Len(entries) + 1
        /\ entries'[Len(entries) + 1] = x
        /\ \A i \in 1..Len(entries) : entries'[i] = entries[i] /\ i \in 1..Len(entries')
        /\ Len(entries) + 1 \in 1..Len(entries')
        /\ \A i \in 1..Len(entries') : i \in 1..Len(entries) \/ i = Len(entries) + 1
    BY <1>4, <2>1, EntryAdded DEF BootTypeOK, x
  <2>3. \A i, j \in 1..Len(entries') :
          entries'[i].view = "own" /\ entries'[i] = entries'[j] => i = j
    <3> SUFFICES ASSUME NEW i \in 1..Len(entries'), NEW j \in 1..Len(entries'),
                        entries'[i].view = "own", entries'[i] = entries'[j]
        PROVE  i = j
      OBVIOUS
    <3>1. i \in 1..Len(entries) /\ j \in 1..Len(entries)
      BY <2>1, <2>2
    <3>2. entries[i].view = "own" /\ entries[i] = entries[j]
      BY <2>2, <3>1
    <3> QED
      BY <3>1, <3>2 DEF SubscribedInv
  <2>4. ASSUME NEW q \in Part, IsSubscriber(q)
        PROVE  Made(q)' <=> \E i \in 1..Len(entries') : entries'[i] = OwnEntry(q)
    <3>1. Made(q)' <=> Made(q)
      BY <1>1, <1>4
    <3>2. Made(q) <=> \E i \in 1..Len(entries) : entries[i] = OwnEntry(q)
      BY <2>4 DEF SubscribedInv
    <3> QED
      BY <2>1, <2>2, <3>1, <3>2
  <2> QED
    BY <2>3, <2>4 DEF SubscribedInv
<1> QED
  BY <1>2, <1>3, <1>4, EntriesStep

LEMMA ConsumersStep ==
  ASSUME BootTypeOK, StageInv, ConsumersInv, [BootNext]_bootVars
  PROVE  ConsumersInv'
<1>1. \A p \in Part : Made(p)' <=> Made(p) \/ (Construct /\ p = Order[n])
  BY MadeStep
<1>2. DOMAIN Consumes \subseteq Part
  BY ConsumersAre, OrderIs
<1>3. ToSet(consumers) \subseteq ToSet(consumers')
      /\ (Construct /\ Order[n] \in DOMAIN Consumes => Order[n] \in ToSet(consumers'))
  <2>1. CASE Construct /\ Order[n] \in DOMAIN Consumes
    <3> DEFINE s == Order[n]
    <3>1. consumers' = Append(consumers, s)
      BY <2>1 DEF Construct, Create, AddConsumer
    <3> HIDE DEF s
    <3>2. /\ DOMAIN consumers = 1..Len(consumers) /\ DOMAIN consumers' = 1..(Len(consumers) + 1)
          /\ Len(consumers) \in Nat
          /\ \A i \in 1..Len(consumers) : consumers'[i] = consumers[i]
          /\ consumers'[Len(consumers) + 1] = s
      BY <3>1 DEF BootTypeOK
    <3>3. 1..Len(consumers) \subseteq 1..(Len(consumers) + 1)
          /\ Len(consumers) + 1 \in 1..(Len(consumers) + 1)
      BY <3>2
    <3> QED
      BY <3>2, <3>3 DEF ToSet, s
  <2>2. CASE ~(Construct /\ Order[n] \in DOMAIN Consumes)
    <3>1. consumers' = consumers
      <4>1. CASE Construct
        BY <2>2, <4>1 DEF Construct, Create, AddConsumer
      <4>2. CASE ~Construct
        BY <4>2, MainStep DEF StartService, LoadFile
      <4> QED
        BY <4>1, <4>2
    <3> QED
      BY <2>2, <3>1
  <2> QED
    BY <2>1, <2>2
<1> QED
  BY <1>1, <1>2, <1>3 DEF ConsumersInv

-----------------------------------------------------------------------------
(* Every part handles an event once.                                       *)
LEMMA ServedStep ==
  ASSUME BootTypeOK, StageInv, QuietInv, SubscribedInv, ServedInv, [BootNext]_bootVars
  PROVE  ServedInv'
<1> SUFFICES ASSUME current' # NoEvent
    PROVE  /\ at' \in 1..(Len(entries') + 1)
           /\ \A p \in Part :
                served'[p] = IF TypeOf(current') \in Declares[p] /\ Passed(p)' THEN 1 ELSE 0
  BY DEF ServedInv
<1>1. Len(entries) \in Nat
  BY DEF BootTypeOK
<1>2. CASE TakeEvent
  <2>1. at' = 1 /\ served' = NoneServed /\ entries' = entries
    BY <1>2 DEF TakeEvent, registryVars
  <2>2. \A p \in Part : served'[p] = 0 /\ ~Passed(p)'
    BY <2>1 DEF NoneServed, Passed
  <2> QED
    BY <1>1, <2>1, <2>2
<1>3. CASE CallEntry
  <2>1. current # NoEvent /\ current' = current /\ entries' = entries
        /\ at' = at + 1 /\ at \in 1..Len(entries)
    BY <1>1, <1>3, CallStep DEF ServedInv
  <2>2. \A p \in Part : Passed(p)' <=> Passed(p) \/ entries[at] = OwnEntry(p)
    <3>1. \A i : i \in 1..(at' - 1) <=> (i \in 1..(at - 1) \/ i = at)
      BY <2>1
    <3> QED
      BY <2>1, <3>1 DEF Passed
  <2>3. \A p \in Part :
          served[p] = IF TypeOf(current) \in Declares[p] /\ Passed(p) THEN 1 ELSE 0
    BY <2>1 DEF ServedInv
  <2>4. \A p \in Part : entries[at] = OwnEntry(p) => ~Passed(p)
    <3> SUFFICES ASSUME NEW p \in Part, entries[at] = OwnEntry(p), Passed(p) PROVE FALSE
      OBVIOUS
    <3>1. PICK i \in 1..(at - 1) : entries[i] = OwnEntry(p)
      BY DEF Passed
    <3>2. i \in 1..Len(entries) /\ i # at
      BY <1>1, <2>1, <3>1
    <3>3. entries[i].view = "own"
      BY <3>1 DEF OwnEntry
    <3> QED
      BY <2>1, <3>1, <3>2, <3>3 DEF SubscribedInv
  <2> DEFINE q == entries[at].of
  <2>5. CASE /\ entries[at] = OwnEntry(q) /\ q \in Part /\ TypeOf(current) \in Declares[q]
             /\ served' = [served EXCEPT ![q] = @ + 1]
    <3>1. \A p \in Part : entries[at] = OwnEntry(p) <=> p = q
      BY <2>5 DEF OwnEntry
    <3>2. served[q] = 0
      BY <2>3, <2>4, <2>5
    <3>3. \A p \in Part : served'[p] = IF p = q THEN served[q] + 1 ELSE served[p]
      BY <2>5 DEF BootTypeOK
    <3> HIDE DEF q
    <3>4. ASSUME NEW p \in Part
          PROVE  served'[p] = IF TypeOf(current') \in Declares[p] /\ Passed(p)' THEN 1 ELSE 0
      <4>1. CASE p = q
        <5>1. TypeOf(current') \in Declares[p] /\ Passed(p)'
          BY <2>1, <2>2, <2>5, <4>1
        <5> QED
          BY <3>2, <3>3, <4>1, <5>1
      <4>2. CASE p # q
        <5>1. Passed(p)' <=> Passed(p)
          BY <2>2, <3>1, <4>2
        <5> QED
          BY <2>1, <2>3, <3>3, <4>2, <5>1
      <4> QED
        BY <4>1, <4>2
    <3>5. at' \in 1..(Len(entries') + 1)
      BY <1>1, <2>1
    <3> QED
      BY <3>4, <3>5
  <2>6. CASE /\ \A p \in Part : entries[at] = OwnEntry(p) => TypeOf(current) \notin Declares[p]
             /\ UNCHANGED served
    <3>1. ASSUME NEW p \in Part
          PROVE  served'[p] = IF TypeOf(current') \in Declares[p] /\ Passed(p)' THEN 1 ELSE 0
      BY <2>1, <2>2, <2>3, <2>6
    <3>2. at' \in 1..(Len(entries') + 1)
      BY <1>1, <2>1
    <3> QED
      BY <3>1, <3>2
  <2>7. at \in Nat \ {0}
    BY <1>1, <2>1
  <2> QED
    BY <1>3, <2>5, <2>6, <2>7, CallIs DEF BootTypeOK
<1>4. CASE ~TakeEvent /\ ~CallEntry
  <2>1. ~EventDone
    BY DEF EventDone, Done
  <2>2. at' = at /\ served' = served /\ current' = current
    BY <1>4, <2>1, OtherStep
  <2>3. current # NoEvent /\ ~Construct
    BY <2>2, DispatchStage
  <2>4. at \in 1..(Len(entries) + 1)
    BY <2>3 DEF ServedInv
  <2>5. Len(entries') \in Nat /\ Len(entries) <= Len(entries')
        /\ \A i \in 1..Len(entries) : entries'[i] = entries[i]
    <3>1. CASE entries' = entries
      BY <1>1, <3>1
    <3>2. ASSUME NEW s \in Part, entries' = Append(entries, [of |-> s, view |-> "raw"])
          PROVE  Len(entries') \in Nat /\ Len(entries) <= Len(entries')
                 /\ \A i \in 1..Len(entries) : entries'[i] = entries[i]
      <4>1. [of |-> s, view |-> "raw"] \in Entry
        BY DEF Entry
      <4> QED
        BY <1>1, <3>2, <4>1, EntryAdded DEF BootTypeOK
    <3> QED
      BY <2>3, <3>1, <3>2, EntriesStep
  <2>6. \A p \in Part : Passed(p)' <=> Passed(p)
    <3>1. 1..(at - 1) \subseteq 1..Len(entries)
      BY <1>1, <2>4
    <3> QED
      BY <2>2, <2>5, <3>1 DEF Passed
  <2>7. at' \in 1..(Len(entries') + 1)
    BY <1>1, <2>2, <2>4, <2>5
  <2> QED
    BY <2>2, <2>3, <2>6, <2>7 DEF ServedInv
<1> QED
  BY <1>2, <1>3, <1>4

LEMMA ServedIsExact ==
  BootTypeOK /\ StageInv /\ QuietInv /\ SubscribedInv /\ ServedInv => HandledExactlyOnce
<1> SUFFICES ASSUME BootTypeOK, StageInv, QuietInv, SubscribedInv, ServedInv,
                    current # NoEvent, at > Len(entries), NEW p \in Part
    PROVE  served[p] = IF TypeOf(current) \in Declares[p] THEN 1 ELSE 0
  BY DEF HandledExactlyOnce
<1>1. served[p] = IF TypeOf(current) \in Declares[p] /\ Passed(p) THEN 1 ELSE 0
  BY DEF ServedInv
<1>2. ASSUME TypeOf(current) \in Declares[p] PROVE Passed(p)
  <2>1. stage # "construct" /\ IsSubscriber(p)
    BY <1>2, DispatchStage DEF IsSubscriber
  <2>2. PICK i \in 1..Len(entries) : entries[i] = OwnEntry(p)
    BY <2>1 DEF SubscribedInv, Made
  <2>3. at - 1 = Len(entries)
    <3>1. at \in 1..(Len(entries) + 1) /\ Len(entries) \in Nat
      BY DEF ServedInv, BootTypeOK
    <3> QED
      BY <3>1
  <2> QED
    BY <2>2, <2>3 DEF Passed
<1> QED
  BY <1>1, <1>2

-----------------------------------------------------------------------------
(* The console knows the commands of every service.                        *)
LEMMA ConsoleStep ==
  ASSUME BootTypeOK, StageInv, QuietInv, ConsoleIsComplete, [BootNext]_bootVars
  PROVE  ConsoleIsComplete'
<1> SUFFICES ASSUME reading'
    PROVE  ToSet(commands') \ {"smart_config"} = registered'
  BY DEF ConsoleIsComplete
<1>1. n \in 1..8
  BY OrderIs DEF BootTypeOK
<1>2. CASE StartService
  <2>1. commands' = commands
    BY <1>2 DEF StartService
  <2>2. n \in 1..6 /\ stage = "start" /\ (Services[n] = "console" <=> n = 2)
    BY <1>2, ServicesIs, OrderIs DEF StartService, StageInv
  <2>3. CASE n = 2
    <3>1. ~reading
      BY <2>2, <2>3 DEF StageInv
    <3>2. registered' = ToSet(commands) /\ "smart_config" \notin ToSet(commands)
      BY <1>2, <2>2, <2>3, <3>1 DEF StartService, ConsoleSetup, QuietInv
    <3> QED
      BY <2>1, <3>2
  <2>4. CASE n # 2
    <3>1. registered' = registered /\ reading
      BY <1>2, <2>2, <2>4 DEF StartService, ConsoleSetup
    <3> QED
      BY <2>1, <3>1 DEF ConsoleIsComplete
  <2> QED
    BY <2>3, <2>4
<1>3. CASE ~StartService
  <2>1. reading /\ registered' = registered /\ ~Construct
    BY <1>3, MainStep DEF Construct, LoadFile, StageInv
  <2>2. ToSet(commands') \ {"smart_config"} = ToSet(commands) \ {"smart_config"}
    BY <1>1, <2>1, CommandsStep DEF BootTypeOK
  <2> QED
    BY <2>1, <2>2 DEF ConsoleIsComplete
<1> QED
  BY <1>2, <1>3

-----------------------------------------------------------------------------
(* What is read is applied to every consumer.                              *)
LEMMA HeldStep ==
  ASSUME BootTypeOK, StageInv, ConsumersInv, HeldInv, [BootNext]_bootVars
  PROVE  HeldInv'
<1>1. files' = files
  BY LoopStep
<1>2. CASE LoadFile
  <2> DEFINE f == Loads[n]
  <2>1. stage = "load" /\ n \in 1..3
        /\ ((n < 3 /\ n' = n + 1 /\ stage' = stage) \/ (n = 3 /\ n' = 1 /\ stage' = "announce"))
    <3>1. Advance(3, "announce")
      BY <1>2, LoadsIs DEF LoadFile
    <3>2. stage = "load" /\ n \in 1..3
      BY <1>2 DEF LoadFile, StageInv
    <3> QED
      BY <3>1, <3>2, AdvanceIs
  <2>2. \A g \in Name : Loaded(g)' <=> Loaded(g) \/ g = f
    <3>1. CASE n < 3 /\ n' = n + 1 /\ stage' = stage
      <4>1. \A m : m \in 1..(n' - 1) <=> (m \in 1..(n - 1) \/ m = n)
        BY <2>1, <3>1
      <4> QED
        BY <2>1, <3>1, <4>1 DEF Loaded
    <3>2. CASE n = 3 /\ n' = 1 /\ stage' = "announce"
      <4>1. \A g \in Name : \E m \in 1..3 : Loads[m] = g
        BY LoadsIs DEF Name
      <4>2. \A m \in 1..3 : m \in 1..(n - 1) \/ m = n
        BY <3>2
      <4> QED
        BY <2>1, <3>2, <4>1, <4>2 DEF Loaded
    <3> QED
      BY <2>1, <3>1, <3>2
  <2>3. ~Loaded(f)
    <3>1. \A i, j \in 1..3 : Loads[i] = Loads[j] => i = j
      BY LoadsIs
    <3>2. \A m \in 1..(n - 1) : m \in 1..3 /\ m # n
      BY <2>1
    <3> QED
      BY <2>1, <3>1, <3>2 DEF Loaded
  <2>4. f \in Name
    BY <2>1, LoadsIs DEF Name
  <2>5. \A c \in DOMAIN Consumes : c \in ToSet(consumers)
    BY <2>1 DEF ConsumersInv, Made
  <2>6. held' = IF files[f] = Nothing THEN held ELSE Applied(f, FromJson(f, files[f]))
    BY <1>2 DEF LoadFile
  <2> HIDE DEF f
  <2>7. ASSUME NEW c \in DOMAIN Consumes, NEW g \in Name
        PROVE  held'[c][g] = IF g = f /\ Takes(c, f) /\ files[f] # Nothing
                             THEN FromJson(f, files[f]) ELSE held[c][g]
    <3>1. CASE files[f] = Nothing
      BY <2>6, <3>1
    <3>2. CASE files[f] # Nothing
      <4>1. DOMAIN held = DOMAIN Consumes /\ DOMAIN held[c] = Name
        BY DEF BootTypeOK
      <4>2. held'[c] = IF Takes(c, f) THEN [held[c] EXCEPT ![f] = FromJson(f, files[f])]
                       ELSE held[c]
        BY <2>5, <2>6, <3>2, <4>1 DEF Applied
      <4> QED
        BY <2>4, <3>2, <4>1, <4>2
    <3> QED
      BY <3>1, <3>2
  <2>8. ASSUME NEW c \in DOMAIN Consumes, NEW g \in Name
        PROVE  held'[c][g] = IF Loaded(g)' /\ Takes(c, g) /\ files'[g] # Nothing
                             THEN FromJson(g, files'[g]) ELSE NoProps(g)
    <3>1. held[c][g] = IF Loaded(g) /\ Takes(c, g) /\ files[g] # Nothing
                       THEN FromJson(g, files[g]) ELSE NoProps(g)
      BY DEF HeldInv
    <3>2. CASE g = f
      BY <1>1, <2>2, <2>3, <2>7, <3>1, <3>2
    <3>3. CASE g # f
      BY <1>1, <2>2, <2>7, <3>1, <3>3
    <3> QED
      BY <3>2, <3>3
  <2> QED
    BY <2>8 DEF HeldInv
<1>3. CASE ~LoadFile
  <2>1. held' = held
    BY <1>3, MainStep DEF Construct, StartService
  <2>2. \A g \in Name : Loaded(g)' <=> Loaded(g)
    <3>1. CASE Construct
      <4>1. stage = "construct" /\ stage' \in {"construct", "start"}
        BY <3>1 DEF Construct, Advance
      <4> QED
        BY <4>1 DEF Loaded
    <3>2. CASE StartService
      <4>1. stage = "start" /\ (stage' = "start" \/ (n' = 1 /\ stage' = "load"))
        BY <3>2 DEF StartService, Advance
      <4> QED
        BY <4>1 DEF Loaded
    <3>3. CASE ~Construct /\ ~StartService
      BY <1>3, <3>3, MainStep DEF Loaded
    <3> QED
      BY <3>1, <3>2, <3>3
  <2> QED
    BY <1>1, <2>1, <2>2 DEF HeldInv
<1> QED
  BY <1>2, <1>3

(* SystemConfigReady is posted when the files are loaded, and starts the   *)
(* station.                                                                *)
LEMMA LateStep ==
  ASSUME [BootNext]_bootVars
  PROVE  /\ stage \in {"return", "done"} => stage' \in {"return", "done"}
         /\ stage \in {"announce", "return", "done"} =>
              stage' \in {"announce", "return", "done"} /\ held' = held
<1>1. CASE Construct \/ StartService \/ LoadFile
  BY <1>1 DEF Construct, StartService, LoadFile
<1>2. CASE ~Construct /\ ~StartService /\ ~LoadFile
  BY <1>2, MainStep
<1> QED
  BY <1>1, <1>2

LEMMA OpenerIs ==
  ASSUME CallEntry, entries \in Seq(Entry), at \in Nat, at # 0, current \in BootEvent \cup {NoEvent}
  PROVE  /\ started' = started \/ current = "CONFIG_READY"
         /\ UNCHANGED <<shown, early>> \/ ConfigOnEvent
         /\ versions' = versions \/ (current = "OTA_REPORT_VERSION"
                                     /\ entries[at] = OwnEntry("publisher")
                                     /\ versions' = Append(versions, mqttUp))
         /\ reported' = reported \/ (OtaOnEvent /\ reported')
<1> DEFINE p == entries[at].of
<1>1. CASE UNCHANGED callVars
  BY <1>1 DEF callVars, serviceVars
<1>2. CASE OnEvent(p) /\ entries[at] = OwnEntry(p) /\ TypeOf(current) \in Declares[p]
  <2>1. CASE p = "wifi" /\ WifiOnEvent
    <3>1. TypeOf(current) = "CONFIG_READY"
      BY <1>2, <2>1 DEF Declares
    <3> QED
      BY <2>1, <3>1 DEF TypeOf, WifiOnEvent
  <2>2. CASE ConfigOnEvent
    BY <2>2 DEF ConfigOnEvent
  <2>3. CASE MqttOnEvent \/ AppOnEvent
    BY <2>3 DEF MqttOnEvent, AppOnEvent, callVars, serviceVars
  <2>4. CASE OtaOnEvent
    BY <2>4 DEF OtaOnEvent
  <2>5. CASE p = "publisher" /\ PublisherOnEvent
    <3>1. TypeOf(current) = "OTA_REPORT_VERSION"
      BY <1>2, <2>5 DEF Declares
    <3> QED
      BY <1>2, <2>5, <3>1 DEF TypeOf, PublisherOnEvent
  <2> QED
    BY <1>2, <2>1, <2>2, <2>3, <2>4, <2>5 DEF OnEvent
<1> QED
  BY <1>1, <1>2, CallIs

LEMMA ReadyStep ==
  ASSUME BootTypeOK, ServedInv, ReadyInv, [BootNext]_bootVars
  PROVE  ReadyInv'
<1>1. CASE stage \in {"return", "done"}
  BY <1>1, LateStep DEF ReadyInv
<1>2. CASE stage \notin {"return", "done"}
  <2>1. /\ \A i \in 1..Len(queue) : queue[i] # "CONFIG_READY"
        /\ current # "CONFIG_READY" /\ ~started
    BY <1>2 DEF ReadyInv
  <2>2. CASE Announce
    BY <2>2 DEF Announce, ReadyInv
  <2>3. CASE ~Announce
    <3>1. \A i \in 1..Len(queue') : queue'[i] # "CONFIG_READY"
      <4>1. CASE queue' = queue
        BY <2>1, <4>1
      <4>2. CASE TakeEvent
        <5>1. queue # <<>> /\ queue' = Tail(queue)
          BY <4>2 DEF TakeEvent, Take
        <5> QED
          BY <2>1, <5>1, TakenFrom DEF BootTypeOK
      <4>3. ASSUME NEW e \in BootEvent, PostsAs(e)
            PROVE  \A i \in 1..Len(queue') : queue'[i] # "CONFIG_READY"
        <5>1. queue' = Append(queue, e) /\ e # "CONFIG_READY"
          BY <2>3, <4>3 DEF PostsAs
        <5> QED
          BY <2>1, <5>1, PostedTo DEF BootTypeOK
      <4> QED
        BY <4>1, <4>2, <4>3, LoopStep
    <3>2. current' # "CONFIG_READY"
      <4>1. CASE TakeEvent
        <5>1. queue # <<>> /\ current' = Head(queue)
          BY <4>1 DEF TakeEvent, Take
        <5> QED
          BY <2>1, <5>1, TakenFrom DEF BootTypeOK
      <4>2. CASE EventDone
        BY <4>2, BootAssumption, BootEventIs DEF EventDone, Done
      <4> QED
        BY <2>1, <4>1, <4>2, LoopStep DEF PostsAs
    <3>3. ~started'
      <4>1. CASE CallEntry
        <5>1. at \in Nat /\ at # 0
          BY <4>1 DEF CallEntry, ServedInv
        <5> QED
          BY <2>1, <4>1, <5>1, OpenerIs DEF BootTypeOK
      <4>2. CASE ~CallEntry
        BY <2>1, <4>2, OtherStep DEF serviceVars
      <4> QED
        BY <4>1, <4>2
    <3> QED
      BY <3>1, <3>2, <3>3 DEF ReadyInv
  <2> QED
    BY <2>2, <2>3
<1> QED
  BY <1>1, <1>2

(* So when the station is started every file has been read.                *)
LEMMA HeldIsSaid ==
  BootTypeOK /\ files \in Files /\ HeldInv /\ ReadyInv => SettingsAreHeld
<1> SUFFICES ASSUME files \in Files, HeldInv, ReadyInv, started \/ current = "CONFIG_READY",
                    NEW c \in DOMAIN Consumes, NEW f \in Name, NEW k \in Keys(f)
    PROVE  held[c][f][k] = IF f \in ToSet(Consumes[c]) /\ files[f] # Nothing
                           THEN Says(files[f], k) ELSE Empty
  BY DEF SettingsAreHeld
<1>1. Loaded(f)
  BY DEF ReadyInv, Loaded
<1>2. Takes(c, f) <=> f \in ToSet(Consumes[c])
  BY TakesIs
<1>3. held[c][f] = IF Takes(c, f) /\ files[f] # Nothing
                   THEN FromJson(f, files[f]) ELSE NoProps(f)
  BY <1>1 DEF HeldInv
<1>4. NoProps(f)[k] = Empty
  BY NoPropsIs
<1>5. files[f] # Nothing => FromJson(f, files[f])[k] = Says(files[f], k)
  <2>1. files[f] # Nothing => files[f] \in Seq(Item)
    BY BootAssumption
  <2> QED
    BY <2>1, FromJsonSays
<1> QED
  BY <1>2, <1>3, <1>4, <1>5

LEMMA PortalStep ==
  ASSUME BootTypeOK, StageInv, QuietInv, ServedInv, PortalInv, [BootNext]_bootVars
  PROVE  PortalInv'
<1> SUFFICES ASSUME shown' # Nothing, ~early'
    PROVE  stage' \in {"announce", "return", "done"} /\ shown' = PortalConfig'
  BY DEF PortalInv
<1>1. CASE UNCHANGED <<shown, early>>
  BY <1>1, LateStep DEF PortalInv, PortalConfig
<1>2. CASE CallEntry /\ ConfigOnEvent /\ ~UNCHANGED <<shown, early>>
  <2>1. /\ shown' = (IF shown = Nothing THEN PortalConfig ELSE shown)
        /\ early' = (early \/ (shown = Nothing /\ stage \in {"start", "load"}))
    BY <1>2 DEF ConfigOnEvent
  <2>2. ~early /\ (shown = Nothing => stage \notin {"start", "load"})
    BY <2>1
  <2>3. stage # "construct"
    BY <1>2, CallStep, DispatchStage
  <2>4. CASE shown = Nothing
    <3>1. stage \in {"announce", "return", "done"} /\ shown' = PortalConfig
      BY <2>1, <2>2, <2>3, <2>4 DEF BootTypeOK, Stage
    <3> QED
      BY <3>1, LateStep DEF PortalConfig
  <2>5. CASE shown # Nothing
    <3>1. shown' = shown
      BY <2>1, <2>5
    <3> QED
      BY <2>2, <2>5, <3>1, LateStep DEF PortalInv, PortalConfig
  <2> QED
    BY <2>4, <2>5
<1>3. UNCHANGED <<shown, early>> \/ (CallEntry /\ ConfigOnEvent)
  <2>1. CASE CallEntry
    <3>1. at \in Nat /\ at # 0
      BY <2>1 DEF CallEntry, ServedInv
    <3> QED
      BY <2>1, <3>1, OpenerIs DEF BootTypeOK
  <2>2. CASE ~CallEntry
    BY <2>2, OtherStep DEF serviceVars
  <2> QED
    BY <2>1, <2>2
<1> QED
  BY <1>1, <1>2, <1>3

-----------------------------------------------------------------------------
(* The version is reported once. *)

(* A call counts for the part called, and the publisher keeps the version. *)
LEMMA VersionsStep ==
  ASSUME BootTypeOK, ServedInv, ServedInv', [BootNext]_bootVars
  PROVE  /\ reported => reported'
         /\ \/ versions' = versions
            \/ /\ current = "OTA_REPORT_VERSION" /\ current' = current
               /\ served["publisher"] = 0 /\ served'["publisher"] = 1
               /\ versions' = Append(versions, mqttUp)
         /\ TakeEvent \/ served'["publisher"] >= served["publisher"]
<1>1. "publisher" \in Part /\ served["publisher"] \in Nat
  BY OrderIs DEF BootTypeOK
<1>2. CASE CallEntry
  <2>1. at \in Nat /\ at # 0 /\ current' = current /\ current # NoEvent
    BY <1>2, CallStep DEF CallEntry, ServedInv
  <2>2. /\ \/ versions' = versions
           \/ /\ current = "OTA_REPORT_VERSION" /\ entries[at] = OwnEntry("publisher")
              /\ versions' = Append(versions, mqttUp)
        /\ reported' = reported \/ (OtaOnEvent /\ reported')
    BY <1>2, <2>1, OpenerIs DEF BootTypeOK
  <2>3. served'["publisher"] \in {served["publisher"], served["publisher"] + 1}
        /\ (entries[at] = OwnEntry("publisher") /\ current = "OTA_REPORT_VERSION" =>
              served'["publisher"] = served["publisher"] + 1)
    <3> DEFINE p == entries[at].of
    <3>1. CASE /\ entries[at] = OwnEntry(p) /\ p \in Part
               /\ served' = [served EXCEPT ![p] = @ + 1]
      <4>1. entries[at] = OwnEntry("publisher") => p = "publisher"
        BY DEF OwnEntry
      <4> HIDE DEF p
      <4> QED
        BY <1>1, <3>1, <4>1 DEF BootTypeOK
    <3>2. CASE /\ \A q \in Part : entries[at] = OwnEntry(q) => TypeOf(current) \notin Declares[q]
               /\ UNCHANGED served
      <4>1. current = "OTA_REPORT_VERSION" => TypeOf(current) \in Declares["publisher"]
        BY DEF TypeOf, Declares, Status
      <4> QED
        BY <1>1, <3>2, <4>1
    <3>3. at \in Nat \ {0}
      BY <2>1
    <3> QED
      BY <1>2, <3>1, <3>2, <3>3, CallIs DEF BootTypeOK
  <2>4. served'["publisher"] \in {0, 1}
    BY <1>1, <2>1 DEF ServedInv
  <2>5. reported => reported'
    BY <2>2
  <2>6. served'["publisher"] = served["publisher"] + 1 =>
          served["publisher"] = 0 /\ served'["publisher"] = 1
    BY <1>1, <2>4
  <2>7. served'["publisher"] >= served["publisher"]
    BY <1>1, <2>3
  <2> QED
    BY <2>1, <2>2, <2>3, <2>5, <2>6, <2>7
<1>3. CASE ~CallEntry
  <2>1. UNCHANGED serviceVars /\ (TakeEvent \/ served' = served)
    BY <1>3, OtherStep DEF EventDone
  <2>2. reported' = reported /\ versions' = versions
    BY <2>1 DEF serviceVars
  <2> QED
    BY <1>1, <2>1, <2>2
<1> QED
  BY <1>2, <1>3

LEMMA VersionStep ==
  ASSUME BootTypeOK, BootTypeOK', ServedInv, ServedInv', VersionInv, [BootNext]_bootVars
  PROVE  VersionInv'
<1> DEFINE report == "OTA_REPORT_VERSION"
           Pending(q) == \E i \in 1..Len(q) : IsReport(q, i)
           Single(q) == \A i, j \in 1..Len(q) : IsReport(q, i) /\ IsReport(q, j) => i = j
<1>1. /\ reported => reported'
      /\ \/ versions' = versions
         \/ /\ current = report /\ current' = current
            /\ served["publisher"] = 0 /\ served'["publisher"] = 1
            /\ versions' = Append(versions, mqttUp)
      /\ TakeEvent \/ served'["publisher"] >= served["publisher"]
  BY VersionsStep
<1>2. /\ Len(versions) <= 1 /\ Single(queue)
      /\ Pending(queue) => reported /\ current # report /\ versions = <<>>
      /\ current = report => reported /\ (versions # <<>> => served["publisher"] # 0)
      /\ versions # <<>> => reported
  BY DEF VersionInv
<1>3. served["publisher"] \in Nat /\ served'["publisher"] \in Nat
  <2>1. "publisher" \in Part
    BY OrderIs
  <2> QED
    BY <2>1 DEF BootTypeOK
<1>4. CASE PostsAs(report)
  <2>1. queue' = Append(queue, report) /\ current' = current /\ ~reported
        /\ reported' /\ versions' = versions
    BY <1>4 DEF PostsAs, OtaOnEvent
  <2>2. ~Pending(queue) /\ current # report /\ versions = <<>>
    BY <1>2, <2>1
  <2>3. report \in BootEvent
    BY BootEventIs
  <2>4. \A i \in 1..Len(queue') : IsReport(queue', i) => i = Len(queue) + 1
    <3>1. queue \in Seq(BootEvent)
      BY DEF BootTypeOK
    <3>2. /\ Len(queue') = Len(queue) + 1
          /\ \A i \in 1..Len(queue) : queue'[i] = queue[i]
          /\ \A i \in 1..(Len(queue) + 1) : i \in 1..Len(queue) \/ i = Len(queue) + 1
      BY <2>1, <2>3, <3>1, PostedTo
    <3> QED
      BY <2>2, <3>2 DEF IsReport
  <2>5. Single(queue')
    BY <2>4
  <2> QED
    BY <1>2, <2>1, <2>2, <2>5 DEF VersionInv
<1>5. CASE ~PostsAs(report)
  <2>1. CASE TakeEvent
    <3>1. queue # <<>> /\ queue' = Tail(queue) /\ current' = Head(queue) /\ current = NoEvent
      BY <2>1 DEF TakeEvent, Take
    <3>2. /\ Head(queue) = queue[1] /\ 1 \in 1..Len(queue)
          /\ \A i \in 1..Len(queue') : /\ queue'[i] = queue[i + 1] /\ i + 1 \in 1..Len(queue)
                                       /\ i + 1 # 1
      BY <3>1, TakenFrom DEF BootTypeOK
    <3>3. versions' = versions
      BY <1>1, <3>1, BootAssumption, BootEventIs
    <3>4. Pending(queue') => Pending(queue)
      BY <3>2 DEF IsReport
    <3>5. Single(queue')
      <4> SUFFICES ASSUME NEW i \in 1..Len(queue'), NEW j \in 1..Len(queue'),
                          IsReport(queue', i), IsReport(queue', j)
          PROVE  i = j
        OBVIOUS
      <4>1. IsReport(queue, i + 1) /\ IsReport(queue, j + 1)
        BY <3>2 DEF IsReport
      <4>2. i + 1 = j + 1
        BY <1>2, <3>2, <4>1
      <4> QED
        BY <4>2
    <3>6. current' = report => IsReport(queue, 1) /\ Pending(queue)
      BY <3>1, <3>2 DEF IsReport
    <3>7. current' = report => ~Pending(queue')
      <4> SUFFICES ASSUME IsReport(queue, 1), NEW i \in 1..Len(queue'), IsReport(queue', i)
          PROVE  FALSE
        BY <3>6
      <4>1. IsReport(queue, i + 1)
        BY <3>2 DEF IsReport
      <4> QED
        BY <1>2, <3>2, <4>1
    <3> HIDE DEF Pending, Single
    <3>8. /\ Len(versions') <= 1 /\ Single(queue')
          /\ Pending(queue') => reported' /\ current' # report /\ versions' = <<>>
          /\ current' = report => reported' /\ versions' = <<>>
          /\ versions' # <<>> => reported'
      BY <1>1, <1>2, <3>3, <3>4, <3>5, <3>6, <3>7
    <3> QED
      BY <3>8 DEF VersionInv, Pending, Single
  <2>2. CASE ~TakeEvent
    <3>1. current' \in {current, NoEvent} /\ report # NoEvent
      BY <2>2, LoopStep, BootAssumption, BootEventIs DEF PostsAs, EventDone, Done
    <3>2. Single(queue') /\ (Pending(queue') => Pending(queue))
      <4>1. CASE queue' = queue
        BY <1>2, <4>1
      <4>2. ASSUME NEW e \in BootEvent, PostsAs(e)
            PROVE  Single(queue') /\ (Pending(queue') => Pending(queue))
        <5>1. queue' = Append(queue, e) /\ e # report
          BY <1>5, <4>2 DEF PostsAs
        <5>2. \A i \in 1..Len(queue') : IsReport(queue', i) =>
                i \in 1..Len(queue) /\ IsReport(queue, i)
          <6>1. queue \in Seq(BootEvent)
            BY DEF BootTypeOK
          <6>2. /\ Len(queue') = Len(queue) + 1
                /\ queue'[Len(queue) + 1] = e
                /\ \A i \in 1..Len(queue) : queue'[i] = queue[i]
                /\ \A i \in 1..(Len(queue) + 1) : i \in 1..Len(queue) \/ i = Len(queue) + 1
            BY <4>2, <5>1, <6>1, PostedTo
          <6> QED
            BY <5>1, <6>2 DEF IsReport
        <5> QED
          BY <1>2, <5>2
      <4> QED
        BY <2>2, <4>1, <4>2, LoopStep
    <3> HIDE DEF Pending, Single
    <3>3. CASE versions' = versions
      <4>1. current' = report => current = report
        BY <3>1
      <4>2. served["publisher"] # 0 => served'["publisher"] # 0
        BY <1>1, <1>3, <2>2
      <4>3. /\ Len(versions') <= 1 /\ Single(queue')
            /\ Pending(queue') => reported' /\ current' # report /\ versions' = <<>>
            /\ current' = report => reported' /\ (versions' # <<>> => served'["publisher"] # 0)
            /\ versions' # <<>> => reported'
        BY <1>1, <1>2, <3>2, <3>3, <4>1, <4>2
      <4> QED
        BY <4>3 DEF VersionInv, Pending, Single
    <3>4. CASE /\ current = report /\ current' = current
               /\ served["publisher"] = 0 /\ served'["publisher"] = 1
               /\ versions' = Append(versions, mqttUp)
      <4>1. reported /\ versions = <<>> /\ ~Pending(queue)
        BY <1>2, <3>4
      <4>2. Len(versions') = 1
        BY <3>4, <4>1
      <4>3. /\ Len(versions') <= 1 /\ Single(queue') /\ ~Pending(queue')
            /\ reported' /\ served'["publisher"] # 0
        BY <1>1, <3>2, <3>4, <4>1, <4>2
      <4> QED
        BY <4>3 DEF VersionInv, Pending, Single
    <3> QED
      BY <1>1, <3>3, <3>4
  <2> QED
    BY <2>1, <2>2
<1> QED
  BY <1>4, <1>5

-----------------------------------------------------------------------------
BootInv ==
  /\ BootTypeOK /\ files \in Files
  /\ StageInv /\ QuietInv
  /\ SubscribedInv /\ ConsumersInv /\ ServedInv
  /\ ConsoleIsComplete /\ HeldInv /\ ReadyInv /\ PortalInv /\ VersionInv

LEMMA BootInvInit == BootInit => BootInv
<1> SUFFICES ASSUME BootInit PROVE BootInv
  OBVIOUS
<1> USE DEF BootInit, LoopInit
<1>1. BootTypeOK
  <2>1. /\ queue \in Seq(BootEvent) /\ Len(queue) <= QueueSize
        /\ entries \in Seq(Entry) /\ Len(entries) = 0
        /\ consumers \in Seq(DOMAIN Consumes) /\ commands \in Seq(Command)
        /\ versions \in Seq(BOOLEAN)
    BY QueueSizeAssumption
  <2>2. n \in 1..Len(Order) /\ 0 <= 2 * Len(Order) /\ at \in 0..(Len(entries) + 1)
    BY <2>1, OrderIs
  <2>3. typed \in 0..MaxTyped /\ ups \in 0..MaxUps
    BY BootAssumption
  <2>4. held \in [DOMAIN Consumes -> [Name -> UNION {Props(f) : f \in Name}]]
    BY NoPropsIs
  <2>5. served \in [Part -> Nat]
    BY DEF NoneServed
  <2> QED
    BY <2>1, <2>2, <2>3, <2>4, <2>5 DEF BootTypeOK, Stage
<1>2. StageInv /\ QuietInv
  BY DEF StageInv, QuietInv, ToSet
<1>3. \A p : ~Made(p)
  BY DEF Made
<1>4. SubscribedInv /\ ConsumersInv /\ ServedInv
  BY <1>3 DEF SubscribedInv, ConsumersInv, ServedInv
<1>5. ConsoleIsComplete
  BY DEF ConsoleIsComplete
<1>6. HeldInv
  BY DEF HeldInv, Loaded
<1>7. ReadyInv /\ PortalInv /\ VersionInv
  BY BootAssumption, BootEventIs DEF ReadyInv, PortalInv, VersionInv
<1> QED
  BY <1>1, <1>2, <1>4, <1>5, <1>6, <1>7 DEF BootInv

LEMMA BootInvStep == BootInv /\ [BootNext]_bootVars => BootInv'
<1> SUFFICES ASSUME BootInv, [BootNext]_bootVars PROVE BootInv'
  OBVIOUS
<1> USE DEF BootInv
<1>1. BootTypeOK' /\ (files \in Files)' /\ StageInv'
  BY BootTypeStep
<1>2. QuietInv'
  BY QuietStep
<1>3. SubscribedInv' /\ ConsumersInv'
  BY SubscribedStep, ConsumersStep
<1>4. ServedInv'
  BY ServedStep
<1>5. ConsoleIsComplete'
  BY ConsoleStep
<1>6. HeldInv'
  BY HeldStep
<1>7. ReadyInv' /\ PortalInv'
  BY ReadyStep, PortalStep
<1>8. VersionInv'
  BY <1>1, <1>4, VersionStep
<1> QED
  BY <1>1, <1>2, <1>3, <1>4, <1>5, <1>6, <1>7, <1>8

(***************************************************************************)
(* The inductive invariant: from loop() of the program to its last event,  *)
(* the list of subscribers, what is being delivered and what the consumers *)
(* hold agree with how far Application has come.                           *)
(***************************************************************************)
LEMMA BootInvariant == BootSpec => []BootInv
<1>1. BootInit => BootInv
  BY BootInvInit
<1>2. BootInv /\ [BootNext]_bootVars => BootInv'
  BY BootInvStep
<1> QED
  BY <1>1, <1>2, PTL DEF BootSpec

(***************************************************************************)
(* The variables of the boot keep their types: the list of subscribers is  *)
(* never longer than two entries for each part.                            *)
(***************************************************************************)
THEOREM BootTypeCorrect == BootSpec => []BootTypeOK
<1>1. BootInv => BootTypeOK
  BY DEF BootInv
<1> QED
  BY <1>1, BootInvariant, PTL

(***************************************************************************)
(* Every part that declares an event's type handles it once, although      *)
(* every service is in the list twice, and the list grows during the boot. *)
(***************************************************************************)
THEOREM HandledCorrect == BootSpec => []HandledExactlyOnce
<1>1. BootInv => HandledExactlyOnce
  BY ServedIsExact DEF BootInv
<1> QED
  BY <1>1, BootInvariant, PTL

(***************************************************************************)
(* When the station is started every consumer holds what the files say,    *)
(* whatever the flash holds.                                               *)
(***************************************************************************)
THEOREM SettingsCorrect == BootSpec => []SettingsAreHeld
<1>1. BootInv => SettingsAreHeld
  BY HeldIsSaid DEF BootInv
<1> QED
  BY <1>1, BootInvariant, PTL

(***************************************************************************)
(* The console registers the commands of every service, and misses none    *)
(* but the one that smart config adds later.                               *)
(***************************************************************************)
THEOREM ConsoleCorrect == BootSpec => []ConsoleIsComplete
<1>1. BootInv => ConsoleIsComplete
  BY DEF BootInv
<1> QED
  BY <1>1, BootInvariant, PTL

(***************************************************************************)
(* A portal that was not opened during the boot shows the settings in      *)
(* force, however late it is looked at.                                    *)
(***************************************************************************)
THEOREM PortalCorrect == BootSpec => []PortalShowsSettings
<1>1. BootInv => PortalShowsSettings
  <2> SUFFICES ASSUME PortalInv, shown # Nothing, ~early, NEW f \in {"wifi", "app"}
      PROVE  shown[f] = held["config"][f]
    BY DEF BootInv, PortalShowsSettings
  <2>1. shown = PortalConfig
    BY DEF PortalInv
  <2> QED
    BY <2>1 DEF PortalConfig
<1> QED
  BY <1>1, BootInvariant, PTL

(***************************************************************************)
(* The publisher gets the version once in a run of the program, however    *)
(* often the broker is reached: the safety part of VersionIsPublished.     *)
(***************************************************************************)
THEOREM VersionOnce == BootSpec => [](Len(versions) <= 1)
<1>1. BootInv => Len(versions) <= 1
  BY DEF BootInv, VersionInv
<1> QED
  BY <1>1, BootInvariant, PTL

=============================================================================
