------------------------------ MODULE HttpdOta ------------------------------
(***************************************************************************)
(* Firmware update over HTTP (src/system/ota/esp_httpd_ota.cpp): the POST  *)
(* handler, on the web server's one task, writes the image it receives to  *)
(* the partition the device is not running from, ends with esp_ota_end(),  *)
(* which validates the image, makes it the boot partition and restarts.    *)
(* The browser may go away, a write or the validation may fail and power   *)
(* may be lost at any point.                                               *)
(*                                                                         *)
(* The ota partition table is external: a partition is what it holds.      *)
(***************************************************************************)
EXTENDS Integers

CONSTANTS
  Slot,     (* the ota partitions                                          *)
  MaxChunks (* bound: reads a body can take                                *)

ASSUME OtaAssumption ==
  /\ MaxChunks \in Nat \ {0}
  /\ \E s, t \in Slot : s # t

VARIABLES
  image,     (* of each partition: "valid", "erased", "partial", "complete"  *)
             (* (all written, not yet validated) or "bad"                    *)
  running,   (* the partition the device runs from                           *)
  boot,      (* the partition it will boot from                              *)
  target,    (* update_partition                                             *)
  pc,        (* where the handler is; "idle" between two requests            *)
  remaining, (* reads to go; the body of the request at first                *)
  genuine,   (* the body is an image that will pass the validation           *)
  peer,      (* the browser is there: httpd_req_recv can return data         *)
  told       (* what the answer says: "nothing", "started", "done", "failed" *)

vars == <<image, running, boot, target, pc, remaining, genuine, peer, told>>

OtaTypeOK ==
  /\ image \in [Slot -> {"valid", "erased", "partial", "complete", "bad"}]
  /\ running \in Slot /\ boot \in Slot /\ target \in Slot
  /\ pc \in {"idle", "begin", "allocate", "receive", "finish", "end", "setBoot",
             "restart"}
  /\ remaining \in 0..MaxChunks
  /\ genuine \in BOOLEAN
  /\ peer \in BOOLEAN
  /\ told \in {"nothing", "started", "done", "failed"}

OtaInit ==
  /\ image \in [Slot -> {"valid", "erased"}]
  /\ running \in {s \in Slot : image[s] = "valid"}
  /\ boot = running
  /\ target = running
  /\ pc = "idle"
  /\ remaining = 0
  /\ genuine = FALSE
  /\ peer = FALSE
  /\ told = "nothing"

-----------------------------------------------------------------------------
(* update_post_handler(). *)

(* A request with a body of n reads; an image of none is not genuine. *)
PostReceived(n, g) ==
  /\ pc = "idle"
  /\ g => n > 0
  /\ remaining' = n
  /\ genuine' = g
  /\ peer' = TRUE
  /\ told' = "started"
  /\ pc' = "begin"
  /\ UNCHANGED <<image, running, boot, target>>

(* response_fail(): after an answer that is complete nothing more is said. *)
Fail ==
  /\ told' = IF told = "done" THEN "done" ELSE "failed"
  /\ pc' = "idle"

(* Mutant: the partition is the next one in the table, whichever is running. *)
OtaBeginAnywhere ==
  /\ pc = "begin"
  /\ \E s \in Slot :
       /\ target' = s
       /\ image' = [image EXCEPT ![s] = "erased"]
  /\ pc' = "allocate"
  /\ UNCHANGED <<running, boot, remaining, genuine, peer, told>>

(* Mutant: the partition is made the boot partition as soon as it is chosen. *)
OtaBeginSetsBoot ==
  /\ pc = "begin"
  /\ \E s \in Slot \ {running} :
       /\ target' = s
       /\ boot' = s
       /\ image' = [image EXCEPT ![s] = "erased"]
  /\ pc' = "allocate"
  /\ UNCHANGED <<running, remaining, genuine, peer, told>>

(* esp_ota_get_next_update_partition() and esp_ota_begin(), which erases it. *)
OtaBegin ==
  /\ pc = "begin"
  /\ \E s \in Slot \ {running} :
       /\ target' = s
       /\ image' = [image EXCEPT ![s] = "erased"]
  /\ pc' = "allocate"
  /\ UNCHANGED <<running, boot, remaining, genuine, peer, told>>

(* Without a passive partition, or before or after its erasing has begun. *)
OtaBeginFails ==
  /\ pc = "begin"
  /\ \/ UNCHANGED image
     \/ \E s \in Slot \ {running} : image' = [image EXCEPT ![s] = "bad"]
  /\ Fail
  /\ UNCHANGED <<running, boot, target, remaining, genuine, peer>>

AllocateBuffer ==
  /\ pc = "allocate"
  /\ \/ pc' = "receive" /\ UNCHANGED told
     \/ Fail
  /\ UNCHANGED <<image, running, boot, target, remaining, genuine, peer>>

(* Mutant: a read past the end of the body is taken off remaining, too. *)
ReceiveChunkPast ==
  /\ pc = "receive"
  /\ peer
  /\ remaining' = remaining - 1
  /\ image' = [image EXCEPT ![target] =
                 IF remaining' > 0 THEN "partial" ELSE "complete"]
  /\ UNCHANGED <<running, boot, target, pc, genuine, peer, told>>

(* One read and one write of the loop. *)
ReceiveChunk ==
  /\ pc = "receive" /\ remaining > 0
  /\ peer
  /\ remaining' = remaining - 1
  /\ image' = [image EXCEPT ![target] =
                 IF remaining' > 0 THEN "partial" ELSE "complete"]
  /\ UNCHANGED <<running, boot, target, pc, genuine, peer, told>>

(* A timeout or an error of httpd_req_recv: the loop tries again, for ever. *)
ReceiveFails ==
  /\ pc = "receive" /\ remaining > 0
  /\ UNCHANGED vars

WriteFails ==
  /\ pc = "receive" /\ remaining > 0
  /\ peer
  /\ image' = [image EXCEPT ![target] = "bad"]
  /\ remaining' = remaining - 1
  /\ Fail
  /\ UNCHANGED <<running, boot, target, genuine, peer>>

(* Mutant: the loop reads once before it looks at remaining. *)
ReceiveDoneAfterData ==
  /\ pc = "receive" /\ remaining = 0
  /\ image[target] # "erased"
  /\ pc' = "finish"
  /\ UNCHANGED <<image, running, boot, target, remaining, genuine, peer, told>>

(* Nothing left to read.  data_len is still -1 only when the body was empty. *)
ReceiveDone ==
  /\ pc = "receive" /\ remaining = 0
  /\ IF image[target] = "erased"
     THEN Fail
     ELSE pc' = "finish" /\ UNCHANGED told
  /\ UNCHANGED <<image, running, boot, target, remaining, genuine, peer>>

(* "Done Updating Firmware", and the last chunk of the answer. *)
AnswerDone ==
  /\ pc = "finish"
  /\ told' = "done"
  /\ pc' = "end"
  /\ UNCHANGED <<image, running, boot, target, remaining, genuine, peer>>

OtaEnd ==
  /\ pc = "end"
  /\ image' = [image EXCEPT ![target] = IF genuine THEN "valid" ELSE "bad"]
  /\ IF genuine THEN pc' = "setBoot" /\ UNCHANGED told ELSE Fail
  /\ UNCHANGED <<running, boot, target, remaining, genuine, peer>>

SetBootPartition ==
  /\ pc = "setBoot"
  /\ boot' = target
  /\ pc' = "restart"
  /\ UNCHANGED <<image, running, target, remaining, genuine, peer, told>>

SetBootPartitionFails ==
  /\ pc = "setBoot"
  /\ Fail
  /\ UNCHANGED <<image, running, boot, target, remaining, genuine, peer>>

-----------------------------------------------------------------------------
(* The world around the handler. *)

BrowserLeaves ==
  /\ peer
  /\ peer' = FALSE
  /\ UNCHANGED <<image, running, boot, target, pc, remaining, genuine, told>>

Reboot ==
  /\ running' = boot
  /\ pc' = "idle"
  /\ peer' = FALSE
  /\ told' = "nothing"
  /\ remaining' = 0
  /\ genuine' = FALSE
  /\ target' = boot
  /\ UNCHANGED <<image, boot>>

(* Five seconds later, system_restart(). *)
RestartSystem == pc = "restart" /\ Reboot

PowerLoss == Reboot

OtaNext ==
  \/ \E n \in 0..MaxChunks, g \in BOOLEAN : PostReceived(n, g)
  \/ OtaBegin \/ OtaBeginFails
  \/ AllocateBuffer
  \/ ReceiveChunk \/ ReceiveFails \/ WriteFails \/ ReceiveDone
  \/ AnswerDone
  \/ OtaEnd
  \/ SetBootPartition \/ SetBootPartitionFails
  \/ BrowserLeaves
  \/ RestartSystem
  \/ PowerLoss

OtaSpec == OtaInit /\ [][OtaNext]_vars

-----------------------------------------------------------------------------
(***************************************************************************)
(* The device can always boot: at every moment, and so after a power loss  *)
(* at any moment of an update, the boot partition holds a validated image  *)
(* and so does the partition it runs from.                                 *)
(***************************************************************************)
AlwaysBootable == image[boot] = "valid" /\ image[running] = "valid"

(***************************************************************************)
(* The device moves to another firmware only by an update that went all    *)
(* the way: a change of the running partition is a restart into an image   *)
(* whose handler had answered, validated and set it for boot.              *)
(***************************************************************************)
SwitchNeedsUpdate ==
  [][running' # running => pc = "restart" /\ told = "done" /\ running' = target]_vars

=============================================================================
