---------------------------- MODULE ConfigStore ----------------------------
(***************************************************************************)
(* The configuration files and the three tasks that write them: the        *)
(* console (setup_wifi, setup_mqtt, reset_conf), the system loop (smart    *)
(* config) and the web server of the portal (/save-config.json).  Every    *)
(* save ends in a restart, and Application::setup() loads the files again. *)
(* Power may go at any moment, and a restart asked for by one task does    *)
(* not wait for the others.                                                *)
(*                                                                         *)
(* A file is written in place, part by part, each writer at its own        *)
(* offset, and read part by part, which the console may write beside.  Its *)
(* JSON parses only when every part is there, the closing brace being in   *)
(* the last one; an empty file is loaded like a missing one.  SPIFFS is    *)
(* external: what it does with a part is to store it.                      *)
(*                                                                         *)
(* Every build has the console.  SystemOpenConfig is answered with smart   *)
(* config, on the loop, or with the portal, on the web server.             *)
(***************************************************************************)
EXTENDS Naturals, Sequences

CONSTANTS
  Parts,  (* parts a file is written and read in                      *)
  Value,  (* contents a file can be given                             *)
  NoValue (* a part that is not there; nothing applied since the boot     *)

File == {"wifi", "mqtt", "app"}
(* The tasks that save: the console's, the system loop and the web server. *)
Writer == {"console", "loop", "httpd"}

ASSUME StoreAssumption ==
  /\ Parts \in Nat \ {0}
  /\ NoValue \notin Value

VARIABLES
  disk,       (* of each file: whose content each part holds               *)
  applied,    (* the file setup() applied last, and what its consumers got *)
  loading,    (* the files setup() has still to load                       *)
  place,      (* of the first of them: the next part to read, 0 before fopen *)
  text,       (* what has been read of it                                  *)
  phase,      (* of each writer: "idle", "saving" or "restarting"          *)
  job,        (* of each writer: the saves it has still to do, in order    *)
  part,       (* of each writer: the next part of its file, 0 before fopen *)
  answer,     (* the writer that answers SystemOpenConfig; constant        *)
  cut,        (* history, of each file: its last save was not finished     *)
  overlapped, (* history, of each file: two tasks wrote it at a time       *)
  beside      (* history: a task wrote the file being read meanwhile       *)

histVars == <<cut, overlapped>>
readVars == <<place, text, beside>>
vars == <<disk, applied, loading, phase, job, part, answer, histVars, readVars>>

Content == [1..Parts -> Value \cup {NoValue}]
Empty == [k \in 1..Parts |-> NoValue]
(* The file written from v, and nothing else. *)
FileOf(v) == [k \in 1..Parts |-> v]
(* cJSON_Parse() succeeds. *)
Parses(c) == \A k \in 1..Parts : c[k] # NoValue

Applied(f, c) == [file |-> f, content |-> c]
Save(f, v) == [file |-> f, value |-> v]

ASSUME NothingAssumption == NoValue \notin [file : File, content : Content]

StoreTypeOK ==
  /\ disk \in [File -> Content]
  /\ applied \in [file : File, content : Content] \cup {NoValue}
  /\ loading \in Seq(File)
  /\ place \in 0..(Parts + 1)
  /\ text \in Content
  /\ phase \in [Writer -> {"idle", "saving", "restarting"}]
  /\ job \in [Writer -> Seq([file : File, value : Value])]
  /\ part \in [Writer -> 0..Parts]
  /\ answer \in {"loop", "httpd"}
  /\ cut \in [File -> BOOLEAN]
  /\ overlapped \in [File -> BOOLEAN]
  /\ beside \in BOOLEAN

StoreInit ==
  /\ disk \in [File -> {Empty} \cup {FileOf(v) : v \in Value}]
  /\ applied = NoValue
  /\ loading = <<"wifi", "mqtt", "app">>
  /\ place = 0
  /\ text = Empty
  /\ phase = [w \in Writer |-> "idle"]
  /\ job = [w \in Writer |-> <<>>]
  /\ part = [w \in Writer |-> 0]
  /\ answer \in {"loop", "httpd"}
  /\ cut = [f \in File |-> FALSE]
  /\ overlapped = [f \in File |-> FALSE]
  /\ beside = FALSE

-----------------------------------------------------------------------------
(* What asks for a save. *)

Begin(w, saves) ==
  /\ w \in Writer /\ phase[w] = "idle"
  /\ phase' = [phase EXCEPT ![w] = "saving"]
  /\ job' = [job EXCEPT ![w] = saves]
  /\ part' = [part EXCEPT ![w] = 0]
  /\ UNCHANGED <<disk, applied, loading, answer, histVars, readVars>>

(* The console's task runs from ConsoleService::setup() on, before the load. *)
SetupWifiCmd(v) == Begin("console", <<Save("wifi", v)>>)
SetupMqttCmd(v) == Begin("console", <<Save("mqtt", v)>>)

(* SC_EVENT_GOT_SSID_PSWD on the loop, and a form posted to the portal: both *)
(* are there only after SystemOpenConfig, thus after the load.               *)
SmartConfigGotPassword(v) ==
  answer = "loop" /\ loading = <<>> /\ Begin("loop", <<Save("wifi", v)>>)
PortalPosted(v) ==
  answer = "httpd" /\ loading = <<>> /\ Begin("httpd", <<Save("app", v), Save("wifi", v)>>)

(* The form was parsed while another task's cJSON_Parse() failed: the error  *)
(* pointer is global, nothing is saved and the device restarts.              *)
PortalRefuses ==
  /\ answer = "httpd" /\ loading = <<>> /\ phase["httpd"] = "idle"
  /\ phase' = [phase EXCEPT !["httpd"] = "restarting"]
  /\ UNCHANGED <<disk, applied, loading, job, part, answer, histVars, readVars>>

-----------------------------------------------------------------------------
(* Storage::_writeFile() for the first save of w's job. *)

Saving(w, f) == phase[w] = "saving" /\ Head(job[w]).file = f
Opened(w, f) == Saving(w, f) /\ part[w] > 0
(* setup() has f open. *)
Reading(f) == place > 0 /\ Head(loading) = f

(* The next save of the job, or the restart that follows the last one. *)
NextSave(w) ==
  /\ job' = [job EXCEPT ![w] = Tail(@)]
  /\ part' = [part EXCEPT ![w] = 0]
  /\ phase' = [phase EXCEPT ![w] = IF Len(job[w]) = 1 THEN "restarting" ELSE "saving"]

(* A new content of f begins. *)
Renew(f) ==
  /\ cut' = [cut EXCEPT ![f] = FALSE]
  /\ overlapped' = [overlapped EXCEPT ![f] = \E u \in Writer : Opened(u, f)]
  /\ beside' = (beside \/ Reading(f))

(* Mutant: the file is opened without truncating it. *)
OpenInPlace(w) ==
  /\ phase[w] = "saving" /\ part[w] = 0
  /\ Renew(Head(job[w]).file)
  /\ part' = [part EXCEPT ![w] = 1]
  /\ UNCHANGED <<disk, applied, loading, phase, job, answer, place, text>>

(* fopen(filePath, "w+") empties the file. *)
Open(w) ==
  /\ phase[w] = "saving" /\ part[w] = 0
  /\ LET f == Head(job[w]).file IN disk' = [disk EXCEPT ![f] = Empty] /\ Renew(f)
  /\ part' = [part EXCEPT ![w] = 1]
  /\ UNCHANGED <<applied, loading, phase, job, answer, place, text>>

OpenFails(w) ==
  /\ phase[w] = "saving" /\ part[w] = 0
  /\ cut' = [cut EXCEPT ![Head(job[w]).file] = TRUE]
  /\ NextSave(w)
  /\ UNCHANGED <<disk, applied, loading, answer, overlapped, readVars>>

(* The next part of the content of w goes to the disk. *)
Put(w) ==
  LET s == Head(job[w]) IN disk' = [disk EXCEPT ![s.file][part[w]] = s.value]

(* Mutant: the loop goes on for one part more than the content has. *)
WritePartPast(w) ==
  /\ phase[w] = "saving" /\ part[w] \in 1..Parts
  /\ Put(w)
  /\ part' = [part EXCEPT ![w] = @ + 1]
  /\ UNCHANGED <<applied, loading, phase, job, answer, histVars, readVars>>

(* fwrite() puts out the parts but for the last, which stays in its buffer. *)
WritePart(w) ==
  /\ phase[w] = "saving" /\ part[w] \in 1..(Parts - 1)
  /\ Put(w)
  /\ part' = [part EXCEPT ![w] = @ + 1]
  /\ UNCHANGED <<applied, loading, phase, job, answer, histVars, readVars>>

(* A short write ends the loop, or fclose() fails; no caller of write() *)
(* learns of either.                                                    *)
WriteFails(w) ==
  /\ phase[w] = "saving" /\ part[w] \in 1..Parts
  /\ cut' = [cut EXCEPT ![Head(job[w]).file] = TRUE]
  /\ NextSave(w)
  /\ UNCHANGED <<disk, applied, loading, answer, overlapped, readVars>>

(* Mutant: the file is closed one part early. *)
CloseEarly(w) ==
  /\ phase[w] = "saving" /\ part[w] > 0 /\ part[w] >= Parts - 1
  /\ Put(w)
  /\ NextSave(w)
  /\ UNCHANGED <<applied, loading, answer, histVars, readVars>>

(* fclose() puts out the last part. *)
Close(w) ==
  /\ phase[w] = "saving" /\ part[w] = Parts
  /\ Put(w)
  /\ NextSave(w)
  /\ UNCHANGED <<applied, loading, answer, histVars, readVars>>

(* reset_conf: the file is removed and the device restarts at once. *)
ResetConfigCmd(f) ==
  /\ phase["console"] = "idle"
  /\ disk' = [disk EXCEPT ![f] = Empty]
  /\ Renew(f)
  /\ phase' = [phase EXCEPT !["console"] = "restarting"]
  /\ UNCHANGED <<applied, loading, job, part, answer, place, text>>

-----------------------------------------------------------------------------
(* Restart and load. *)

Boot ==
  /\ applied' = NoValue
  /\ loading' = <<"wifi", "mqtt", "app">>
  /\ phase' = [w \in Writer |-> "idle"]
  /\ job' = [w \in Writer |-> <<>>]
  /\ part' = [w \in Writer |-> 0]
  /\ cut' = [f \in File |-> cut[f] \/ \E w \in Writer : Saving(w, f)]
  /\ place' = 0
  /\ text' = Empty
  /\ beside' = FALSE
  /\ UNCHANGED <<disk, answer, overlapped>>

(* esp_restart(), or system_restart(): a second after its SystemShutdown has *)
(* been posted, for which another task than the loop waits for room in the  *)
(* queue.                                                                   *)
Restart(w) == phase[w] = "restarting" /\ Boot

PowerLoss == Boot

(* PropertiesLoader::load() opens its file; one that is missing reads as an *)
(* empty one.                                                               *)
OpenToRead ==
  /\ loading # <<>> /\ place = 0
  /\ place' = 1
  /\ text' = Empty
  /\ beside' = \E w \in Writer : Opened(w, Head(loading))
  /\ UNCHANGED <<disk, applied, loading, phase, job, part, answer, histVars>>

(* fgets() finds nothing more. *)
AtEnd == place \notin {k \in 1..Parts : disk[Head(loading)][k] # NoValue}

ReadPart ==
  /\ place > 0 /\ ~AtEnd
  /\ text' = [text EXCEPT ![place] = disk[Head(loading)][place]]
  /\ place' = place + 1
  /\ UNCHANGED <<disk, applied, loading, phase, job, part, answer, histVars, beside>>

(* Mutant: a file that is not there ends the load. *)
LoadFileOrStop ==
  /\ place > 0 /\ AtEnd
  /\ LET f == Head(loading) IN
       /\ applied' = IF Parses(text) THEN Applied(f, text) ELSE applied
       /\ loading' = IF Parses(text) THEN Tail(loading) ELSE <<>>
  /\ place' = 0 /\ text' = Empty /\ beside' = FALSE
  /\ UNCHANGED <<disk, phase, job, part, answer, histVars>>

(* At its end: a file that is missing, empty or does not parse is passed *)
(* over and its consumers keep their defaults.                           *)
LoadFile ==
  /\ place > 0 /\ AtEnd
  /\ LET f == Head(loading) IN
       applied' = IF Parses(text) THEN Applied(f, text) ELSE applied
  /\ loading' = Tail(loading)
  /\ place' = 0 /\ text' = Empty /\ beside' = FALSE
  /\ UNCHANGED <<disk, phase, job, part, answer, histVars>>

StoreNext ==
  \/ \E v \in Value : SetupWifiCmd(v)
  \/ \E v \in Value : SetupMqttCmd(v)
  \/ \E v \in Value : SmartConfigGotPassword(v)
  \/ \E v \in Value : PortalPosted(v)
  \/ PortalRefuses
  \/ \E f \in File : ResetConfigCmd(f)
  \/ \E w \in Writer : Open(w)
  \/ \E w \in Writer : OpenFails(w)
  \/ \E w \in Writer : WritePart(w)
  \/ \E w \in Writer : WriteFails(w)
  \/ \E w \in Writer : Close(w)
  \/ \E w \in Writer : Restart(w)
  \/ PowerLoss
  \/ OpenToRead
  \/ ReadPart
  \/ LoadFile

(* A save under way goes on, a restart asked for happens (the loop makes *)
(* room for the event before it), setup() loads.                         *)
StoreFairness ==
  /\ \A w \in Writer : WF_vars(Open(w) \/ WritePart(w) \/ Close(w) \/ Restart(w))
  /\ WF_vars(OpenToRead \/ ReadPart \/ LoadFile)

StoreSpec == StoreInit /\ [][StoreNext]_vars /\ StoreFairness

-----------------------------------------------------------------------------
(***************************************************************************)
(* Nothing half written is ever used: what the loader gives to the         *)
(* consumers is one content, as one save wrote it, whatever was cut by a   *)
(* restart, a power loss or a failed write; only two tasks writing the     *)
(* same file at a time, or one writing it while it is read, can mix two of *)
(* them.                                                                   *)
(***************************************************************************)
AppliedIsWhole ==
  [][applied' # applied /\ applied' # NoValue =>
       \/ overlapped[applied'.file] \/ beside
       \/ \E v \in Value : applied'.content = FileOf(v)]_vars

(***************************************************************************)
(* A configuration is lost only for a reason: a file that nobody is        *)
(* writing holds one content whole or is empty, unless its last save was   *)
(* cut off, by a restart or by a failed write, or had company.             *)
(***************************************************************************)
TornNeedsCause ==
  \A f \in File :
    (\A w \in Writer : ~Opened(w, f)) =>
      cut[f] \/ overlapped[f] \/ disk[f] \in {Empty} \cup {FileOf(v) : v \in Value}

(***************************************************************************)
(* A setup command takes effect: the device comes up with what was typed,  *)
(* unless its save is cut off, the console is used again before the files  *)
(* are loaded, the other task saves and restarts too, or the device boots  *)
(* over and over.                                                          *)
(***************************************************************************)
SetupTakesEffect ==
  <>[][~Boot]_vars =>
    \A v \in Value, f \in {"wifi", "mqtt"} :
      (phase["console"] = "saving" /\ Head(job["console"]) = Save(f, v)) ~>
        \/ applied = Applied(f, FileOf(v))
        \/ cut[f]
        \/ loading # <<>> /\ phase["console"] # "idle"
        \/ phase[answer] # "idle"

=============================================================================
