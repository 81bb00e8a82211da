------------------------------- MODULE MCBoot -------------------------------
(* Small instance of Boot for TLC. *)
EXTENDS Boot

CONSTANTS v, w

NewItem(key, type, value) == [key |-> key, type |-> type, value |-> value]

(* A file as toJson() writes it, with the value v for every key. *)
Written(f) == ToJson(f, [k \in Keys(f) |-> v])

(* Beside what the program writes: a file edited by hand, in which a key comes *)
(* twice, has a number for a value, is unknown or is missing.                  *)
Edited ==
  [wifi |-> <<NewItem("ssid", "string", v), NewItem("api", "string", v),
              NewItem("ssid", "string", w), NewItem("password", "number", v)>>,
   mqtt |-> <<NewItem("homeId", "string", v)>>,
   app  |-> <<NewItem("type", "string", w), NewItem("type", "number", v)>>]

(* Every form of every file, with and without a station and a broker address. *)
MCFiles ==
  {[wifi |-> Nothing,        mqtt |-> Written("mqtt"), app |-> Written("app")],
   [wifi |-> Written("wifi"), mqtt |-> Nothing,        app |-> Edited["app"]],
   [wifi |-> Edited["wifi"], mqtt |-> Written("mqtt"), app |-> Nothing],
   [wifi |-> Written("wifi"), mqtt |-> Edited["mqtt"], app |-> Written("app")]}

=============================================================================
