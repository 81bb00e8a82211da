------------------------------ MODULE Settings ------------------------------
(***************************************************************************)
(* The three property sets, how their JSON text is read and written        *)
(* (src/Properties.cpp), and how they are offered to their consumers       *)
(* (src/Properties.h).                                                     *)
(*                                                                         *)
(* cJSON is external: a parsed object is the sequence of its items, each   *)
(* with its key, its type and its value.  A key may come twice, may be     *)
(* unknown, and may have a value that is not a string.  A file is assumed  *)
(* to hold an object: the items of a JSON array have no key, and the       *)
(* strcmp() of fromJson() is undefined on a null one.                      *)
(***************************************************************************)
EXTENDS Naturals, Sequences, SequencesExt

CONSTANTS
  Value,  (* non-empty strings                                *)
  Empty   (* the empty string                                 *)

ASSUME SettingsAssumption == Empty \notin Value

Name == {"wifi", "mqtt", "app"}

(* The members of the property sets, in the order toJson() writes them. *)
KeyOrder ==
  [wifi |-> <<"ssid", "password">>,
   mqtt |-> <<"uri", "username", "password", "clientId", "homeId">>,
   app  |-> <<"api", "type">>]

Keys(name) == ToSet(KeyOrder[name])

(* What a parsed object may have.  The keys of no set are alike, and the value *)
(* of what is not a string is not looked at.                                   *)
Item ==
  [key   : (UNION {Keys(name) : name \in Name}) \cup {"unknown"},
   type  : {"string", "number", "bool", "null", "array", "object"},
   value : Value \cup {Empty}]

Props(name) == [Keys(name) -> Value \cup {Empty}]
NoProps(name) == [k \in Keys(name) |-> Empty]

(* TProperties::ID: the kind above the system.  CORE is 1 and USER is 2. *)
PropId(name) ==
  CASE name = "wifi" -> 256 * 1 + 1
    [] name = "mqtt" -> 256 * 2 + 1
    [] name = "app"  -> 256 * 3 + 2

(* toJson(): every member, each as a string. *)
ToJson(name, props) ==
  [i \in 1..Len(KeyOrder[name]) |->
     [key |-> KeyOrder[name][i], type |-> "string", value |-> props[KeyOrder[name][i]]]]

(* Mutant: the first item of a key is kept. *)
ReadItemOnce(props, item) ==
  IF item.key \in DOMAIN props /\ item.type = "string" /\ props[item.key] = Empty
  THEN [props EXCEPT ![item.key] = item.value]
  ELSE props

(* One turn of fromJson()'s loop. *)
ReadItem(props, item) ==
  IF item.key \in DOMAIN props /\ item.type = "string"
  THEN [props EXCEPT ![item.key] = item.value]
  ELSE props

FromJson(name, items) ==
  LET read[i \in 0..Len(items)] ==
        IF i = 0 THEN NoProps(name) ELSE ReadItem(read[i - 1], items[i])
  IN  read[Len(items)]

(* The property sets a consumer takes, in the order of its template list. *)
Consumes ==
  [wifi   |-> <<"wifi">>,
   config |-> <<"app", "wifi", "mqtt">>,
   mqtt   |-> <<"mqtt">>]

(* PropertyApplier::apply: the first of the consumer's sets with this id. *)
Takes(consumer, name) ==
  \E i \in DOMAIN Consumes[consumer] : PropId(Consumes[consumer][i]) = PropId(name)

-----------------------------------------------------------------------------
(* What a file says: the last string given for a key is its value. *)
Says(items, k) ==
  LET at == {i \in DOMAIN items : items[i].key = k /\ items[i].type = "string"}
  IN IF at = {} THEN Empty
     ELSE items[CHOOSE i \in at : \A j \in at : j <= i].value

=============================================================================
