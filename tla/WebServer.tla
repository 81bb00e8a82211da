----------------------------- MODULE WebServer -----------------------------
(***************************************************************************)
(* The web server of the configuration portal (src/system/config/          *)
(* ConfigPortal.cpp) with the firmware update of HttpdOta, which it        *)
(* serves beside its own pages.                                            *)
(*                                                                         *)
(* SystemOpenConfig starts it, on the loop, at most once; the handlers are *)
(* registered one by one while the server's task may already take          *)
(* requests.  That task handles one request at a time, to its end, so a    *)
(* handler that waits keeps every other page from being served.            *)
(*                                                                         *)
(* How a file is written is in ConfigStore.  Here a save is one step, and  *)
(* what counts is that a form is two of them.                              *)
(***************************************************************************)
EXTENDS HttpdOta

CONSTANTS
  MaxFiles (* files the file system has open at most: max_files, 10 *)

ASSUME WebAssumption == MaxFiles \in Nat \ {0}

VARIABLES
  opened,  (* ConfigurationService::_openedCp                               *)
  uris,    (* handlers registered: "/", "/get-config.json",                 *)
           (* "/save-config.json" and "/upgrade.json", in this order        *)
  page,    (* the page being served, or "none"                              *)
  step,    (* where its handler is                                          *)
  left,    (* reads of the body or chunks of the file to go                 *)
  browser, (* the browser of the page is there                              *)
  open,    (* FILEs open                                                    *)
  starved, (* history: requests for "/" that got no buffer                  *)
  app,     (* the app file holds what the last form said                    *)
  wifi,    (* so does the wifi file                                         *)
  broken   (* history: a save of that form failed, or the device went down  *)

pageVars == <<page, step, left, browser>>
formVars == <<app, wifi, broken>>
webOwnVars == <<opened, uris, pageVars, open, starved, formVars>>
webVars == <<vars, webOwnVars>>

(* The server's task has nothing to do. *)
Free == pc = "idle" /\ page = "none"

WebOwnType ==
  /\ opened \in BOOLEAN
  /\ uris \in 0..4
  /\ page \in {"none", "index", "config", "save"}
  /\ step \in {"none", "open", "allocate", "send", "receive", "parse", "saveApp",
               "saveWifi", "answer", "restart"}
  /\ left \in 0..MaxChunks
  /\ browser \in BOOLEAN
  /\ open \in 0..MaxFiles
  /\ starved \in 0..MaxFiles
  /\ app \in BOOLEAN /\ wifi \in BOOLEAN /\ broken \in BOOLEAN

WebTypeOK == OtaTypeOK /\ WebOwnType

WebInit ==
  /\ OtaInit
  /\ opened = FALSE /\ uris = 0
  /\ page = "none" /\ step = "none" /\ left = 0 /\ browser = FALSE
  /\ open = 0 /\ starved = 0
  /\ app = FALSE /\ wifi = FALSE /\ broken = FALSE

-----------------------------------------------------------------------------
(* The loop. *)

(* onEvent(SystemOpenConfig): a portal that was opened is not opened again, *)
(* even if httpd_start() failed.  With it, the first handler is registered. *)
OpenPortal ==
  /\ ~opened
  /\ opened' = TRUE
  /\ uris' \in {0, 1}
  /\ UNCHANGED <<vars, pageVars, open, starved, formVars>>

RegisterNext ==
  /\ uris \in 1..3
  /\ uris' = uris + 1
  /\ UNCHANGED <<vars, opened, pageVars, open, starved, formVars>>

-----------------------------------------------------------------------------
(* The server's task. *)

(* A request for a page whose handler is registered, with a body of n reads. *)
Request(p, first, n) ==
  /\ Free
  /\ page' = p /\ step' = first
  /\ left' = n
  /\ browser' = TRUE
  /\ UNCHANGED <<vars, opened, uris, open, starved, formVars>>

GetIndex == uris >= 1 /\ \E n \in 0..MaxChunks : Request("index", "open", n)
GetConfig == uris >= 2 /\ Request("config", "answer", 0)
SaveConfig == uris >= 3 /\ \E n \in 0..MaxChunks : Request("save", "allocate", n)

Goto(s) == step' = s /\ UNCHANGED <<page, left, browser>>
Returns == page' = "none" /\ step' = "none" /\ left' = 0 /\ browser' = FALSE

(* handle_index: fopen(), of a file that may be missing. *)
OpenIndex ==
  /\ page = "index" /\ step = "open"
  /\ \/ open < MaxFiles /\ open' = open + 1 /\ Goto("allocate")
     \/ Returns /\ UNCHANGED open
  /\ UNCHANGED <<vars, opened, uris, starved, formVars>>

(* Without a buffer the handler returns, and the file stays open. *)
AllocateIndex ==
  /\ page = "index" /\ step = "allocate"
  /\ \/ Goto("send") /\ UNCHANGED starved
     \/ Returns /\ starved' = starved + 1
  /\ UNCHANGED <<vars, opened, uris, open, formVars>>

(* What becomes of a chunk is not looked at: a browser that left is sent them *)
(* all the same.                                                              *)
SendIndex ==
  /\ page = "index" /\ step = "send" /\ left > 0
  /\ left' = left - 1
  /\ UNCHANGED <<vars, opened, uris, page, step, browser, open, starved, formVars>>

(* Mutant: the file is not closed. *)
IndexSentStaysOpen ==
  /\ page = "index" /\ step = "send" /\ left = 0
  /\ Returns
  /\ UNCHANGED <<vars, opened, uris, open, starved, formVars>>

IndexSent ==
  /\ page = "index" /\ step = "send" /\ left = 0
  /\ Returns
  /\ open' = open - 1
  /\ UNCHANGED <<vars, opened, uris, starved, formVars>>

(* handle_get_config: what the portal was constructed with (Boot). *)
AnswerConfig ==
  /\ page = "config"
  /\ Returns
  /\ UNCHANGED <<vars, opened, uris, open, starved, formVars>>

(* handle_post_config. *)
SaveStep(s) == page = "save" /\ step = s

AllocateForm ==
  /\ SaveStep("allocate")
  /\ Goto("receive") \/ Returns
  /\ UNCHANGED <<vars, opened, uris, open, starved, formVars>>

ReceiveForm ==
  /\ SaveStep("receive") /\ left > 0
  /\ browser
  /\ left' = left - 1
  /\ UNCHANGED <<vars, opened, uris, page, step, browser, open, starved, formVars>>

(* A timeout: the loop tries again. *)
FormTimesOut ==
  /\ SaveStep("receive") /\ left > 0
  /\ UNCHANGED webVars

(* Another error of httpd_req_recv(), or the end of the connection. *)
FormBreaks ==
  /\ SaveStep("receive") /\ left > 0
  /\ Returns
  /\ UNCHANGED <<vars, opened, uris, open, starved, formVars>>

FormReceived ==
  /\ SaveStep("receive") /\ left = 0
  /\ Goto("parse")
  /\ UNCHANGED <<vars, opened, uris, open, starved, formVars>>

(* A form that parses is saved; one that does not is not answered; and one that *)
(* parses while another task's parse has failed (ConfigStore) is answered with  *)
(* a failure, and the device restarts.                                          *)
ParseForm ==
  /\ SaveStep("parse")
  /\ Goto("saveApp") \/ Returns \/ Goto("answer")
  /\ UNCHANGED <<vars, opened, uris, open, starved, formVars>>

(* saveAppConfigToFile() and saveWifiConfigToFile(); their failures are not *)
(* seen here.                                                               *)
SaveApp ==
  /\ SaveStep("saveApp")
  /\ app' \in BOOLEAN
  /\ wifi' = FALSE
  /\ broken' = ~app'
  /\ Goto("saveWifi")
  /\ UNCHANGED <<vars, opened, uris, open, starved>>

SaveWifi ==
  /\ SaveStep("saveWifi")
  /\ wifi' \in BOOLEAN
  /\ broken' = (broken \/ ~wifi')
  /\ Goto("answer")
  /\ UNCHANGED <<vars, opened, uris, open, starved, app>>

AnswerForm ==
  /\ SaveStep("answer")
  /\ Goto("restart")
  /\ UNCHANGED <<vars, opened, uris, open, starved, formVars>>

-----------------------------------------------------------------------------
(* The world around the server. *)

PageLeft ==
  /\ browser
  /\ browser' = FALSE
  /\ UNCHANGED <<vars, opened, uris, page, step, left, open, starved, formVars>>

(* The program starts again; the files stay as they are. *)
WebGone ==
  /\ opened' = FALSE /\ uris' = 0
  /\ Returns
  /\ open' = 0 /\ starved' = 0
  /\ broken' = (broken \/ SaveStep("saveWifi"))
  /\ UNCHANGED <<app, wifi>>

(* A form that was answered is followed by system_restart(). *)
FormRestarts == SaveStep("restart") /\ Reboot /\ WebGone

(* Power is lost; the console, or smart config, restarts the device; or a *)
(* handler without memory, or with a form that lacks a member, crashes.   *)
GoesDown == PowerLoss /\ WebGone

UpdateRestarts == RestartSystem /\ WebGone

-----------------------------------------------------------------------------
(* POST /upgrade.json and the steps of its handler. *)
Upgrade ==
  /\ Free /\ uris = 4
  /\ \E n \in 0..MaxChunks, g \in BOOLEAN : PostReceived(n, g)
  /\ UNCHANGED webOwnVars

UpgradeStep ==
  /\ \/ OtaBegin \/ OtaBeginFails
     \/ AllocateBuffer
     \/ ReceiveChunk \/ WriteFails \/ ReceiveDone
     \/ AnswerDone
     \/ OtaEnd
     \/ SetBootPartition \/ SetBootPartitionFails
  /\ UNCHANGED webOwnVars

UpgradeWaits == (ReceiveFails \/ BrowserLeaves) /\ UNCHANGED webOwnVars

PageStep ==
  \/ OpenIndex \/ AllocateIndex \/ SendIndex \/ IndexSent
  \/ AnswerConfig
  \/ AllocateForm \/ ReceiveForm \/ FormReceived \/ ParseForm
  \/ SaveApp \/ SaveWifi \/ AnswerForm
  \/ FormRestarts

WebNext ==
  \/ OpenPortal \/ RegisterNext
  \/ GetIndex \/ GetConfig \/ SaveConfig \/ Upgrade
  \/ PageStep \/ FormTimesOut \/ FormBreaks
  \/ UpgradeStep \/ UpgradeWaits \/ UpdateRestarts
  \/ PageLeft
  \/ GoesDown

WebSpec == WebInit /\ [][WebNext]_webVars

(* The server's task runs, and a browser that is there sends its body. *)
WebFairSpec == WebSpec /\ WF_webVars(PageStep \/ UpgradeStep \/ UpdateRestarts)

-----------------------------------------------------------------------------
(***************************************************************************)
(* Between two requests nothing is left over: a FILE stays open only for a *)
(* request that got no buffer, so as long as memory lasts the page can be  *)
(* served again and again; and the two files a form is saved to hold both  *)
(* of its halves or none, unless a save failed or the device went down.    *)
(***************************************************************************)
FilesAreClosed == open = starved
FormIsWhole == broken \/ (app <=> wifi)
NothingLeftOver == page = "none" => FilesAreClosed /\ FormIsWhole

(***************************************************************************)
(* Every request comes to its end and the server is free for the next one, *)
(* unless the browser fell silent while its body was read: the portal      *)
(* waits for it without limit, and serves no one else meanwhile.           *)
(***************************************************************************)
RequestEnds ==
  ~Free ~> \/ Free
           \/ pc = "receive" /\ ~peer
           \/ SaveStep("receive") /\ ~browser

=============================================================================
