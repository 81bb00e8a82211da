-------------------------- MODULE WebServerProofs --------------------------
(***************************************************************************)
(* Proofs about HttpdOta and WebServer.                                    *)
(*                                                                         *)
(*   - AlwaysBootable is not inductive: a step that erases or condemns an  *)
(*     image must be known to work on a partition that is neither run from *)
(*     nor booted from.  OtaInv adds what the update handler knows at each *)
(*     of its points: before the switch the boot partition is the running  *)
(*     one and the target is another; at the switch the target has been    *)
(*     validated and the answer is complete.                               *)
(*   - Beside the pages, the update is still HttpdOta: what the pages do   *)
(*     is a stutter of its variables, and their restart is a power loss.   *)
(*     So its theorems hold for the whole server.                          *)
(*   - NothingLeftOver is about the moments between two requests.  WebInv  *)
(*     says what a request has borrowed while it is served: handle_index   *)
(*     has one FILE from its fopen() on, and handle_post_config has saved  *)
(*     one half of a form.                                                 *)
(***************************************************************************)
EXTENDS WebServer, TLAPS

(* The handler has chosen its partition. *)
HasTarget == pc \in {"allocate", "receive", "finish", "end", "setBoot", "restart"}

OtaInv ==
  /\ OtaTypeOK
  /\ AlwaysBootable
  /\ HasTarget => target # running
  /\ pc # "restart" => boot = running
  /\ pc = "restart" => boot = target
  /\ pc \in {"end", "setBoot", "restart"} => told = "done"
  /\ pc = "setBoot" => image[target] = "valid"

(* The invariant holds initially and is kept by every step, the failing ones *)
(* and a power loss at any point included.                                   *)
LEMMA OtaInvInductive == OtaSpec => []OtaInv
<1>0. /\ 0 \in 0..MaxChunks
      /\ \A n \in 0..MaxChunks : n > 0 => n - 1 \in 0..MaxChunks
  BY OtaAssumption DEF OtaAssumption
<1>1. OtaInit => OtaInv
  <2> SUFFICES ASSUME OtaInit PROVE OtaInv
    OBVIOUS
  <2>1. image \in [Slot -> {"valid", "erased", "partial", "complete", "bad"}]
    BY DEF OtaInit
  <2>2. running \in Slot /\ image[running] = "valid"
    BY DEF OtaInit
  <2> QED
    BY <1>0, <2>1, <2>2 DEF OtaInit, OtaInv, OtaTypeOK, AlwaysBootable, HasTarget
<1>2. OtaInv /\ [OtaNext]_vars => OtaInv'
  <2> SUFFICES ASSUME OtaInv, [OtaNext]_vars
               PROVE  OtaInv'
    OBVIOUS
  <2> USE DEF OtaInv, OtaTypeOK, AlwaysBootable, HasTarget
  <2>1. ASSUME NEW n \in 0..MaxChunks, NEW g \in BOOLEAN, PostReceived(n, g)
        PROVE  OtaInv'
    BY <2>1 DEF PostReceived
  <2>2. CASE OtaBegin
    BY <2>2 DEF OtaBegin
  <2>3. CASE OtaBeginFails
    BY <2>3 DEF OtaBeginFails, Fail
  <2>4. CASE AllocateBuffer
    BY <2>4 DEF AllocateBuffer, Fail
  <2>5. CASE ReceiveChunk
    BY <1>0, <2>5 DEF ReceiveChunk
  <2>6. CASE ReceiveFails
    BY <2>6 DEF ReceiveFails, vars
  <2>7. CASE WriteFails
    BY <1>0, <2>7 DEF WriteFails, Fail
  <2>8. CASE ReceiveDone
    BY <2>8 DEF ReceiveDone, Fail
  <2>9. CASE AnswerDone
    BY <2>9 DEF AnswerDone
  <2>10. CASE OtaEnd
    BY <2>10 DEF OtaEnd, Fail
  <2>11. CASE SetBootPartition
    BY <2>11 DEF SetBootPartition
  <2>12. CASE SetBootPartitionFails
    BY <2>12 DEF SetBootPartitionFails, Fail
  <2>13. CASE BrowserLeaves
    BY <2>13 DEF BrowserLeaves
  <2>14. CASE RestartSystem
    BY <1>0, <2>14 DEF RestartSystem, Reboot
  <2>15. CASE PowerLoss
    BY <1>0, <2>15 DEF PowerLoss, Reboot
  <2>16. CASE UNCHANGED vars
    BY <2>16 DEF vars
  <2> QED
    BY <2>1, <2>2, <2>3, <2>4, <2>5, <2>6, <2>7, <2>8, <2>9, <2>10, <2>11, <2>12,
       <2>13, <2>14, <2>15, <2>16 DEF OtaNext
<1> QED
  BY <1>1, <1>2, PTL DEF OtaSpec

(* The handler keeps its types. *)
THEOREM OtaTypeCorrect == OtaSpec => []OtaTypeOK
<1>1. OtaInv => OtaTypeOK
  BY DEF OtaInv
<1> QED
  BY <1>1, OtaInvInductive, PTL

(* The device can always boot (update_post_handler writes only to the *)
(* partition esp_ota_get_next_update_partition() gave it).            *)
THEOREM BootableCorrect == OtaSpec => []AlwaysBootable
<1>1. OtaInv => AlwaysBootable
  BY DEF OtaInv
<1> QED
  BY <1>1, OtaInvInductive, PTL

(* Another firmware runs only after an update that went all the way: the *)
(* only steps that change running are restarts, and boot differs from    *)
(* running only when the handler waits for its restart.                  *)
THEOREM SwitchCorrect == OtaSpec => SwitchNeedsUpdate
<1>1. OtaInv /\ [OtaNext]_vars =>
        [running' # running => pc = "restart" /\ told = "done" /\ running' = target]_vars
  <2> SUFFICES ASSUME OtaInv, OtaNext, running' # running
               PROVE  pc = "restart" /\ told = "done" /\ running' = target
    BY DEF vars
  <2>1. Reboot
    BY DEF OtaNext, PostReceived, OtaBegin, OtaBeginFails, AllocateBuffer, ReceiveChunk,
           ReceiveFails, WriteFails, ReceiveDone, AnswerDone, OtaEnd, SetBootPartition,
           SetBootPartitionFails, BrowserLeaves, RestartSystem, PowerLoss, vars
  <2> QED
    BY <2>1 DEF Reboot, OtaInv
<1> QED
  BY <1>1, OtaInvInductive, PTL DEF OtaSpec, SwitchNeedsUpdate

-----------------------------------------------------------------------------
(* The update handler, served beside the pages, does what it does alone. *)
THEOREM WebImplementsOta == WebSpec => OtaSpec
<1>1. WebInit => OtaInit
  BY DEF WebInit
<1>2. [WebNext]_webVars => [OtaNext]_vars
  <2> SUFFICES ASSUME [WebNext]_webVars PROVE OtaNext \/ UNCHANGED vars
    OBVIOUS
  <2>1. CASE UNCHANGED webVars
    BY <2>1 DEF webVars
  <2>2. CASE OpenPortal \/ RegisterNext
    BY <2>2 DEF OpenPortal, RegisterNext
  <2>3. CASE GetIndex \/ GetConfig \/ SaveConfig
    BY <2>3 DEF GetIndex, GetConfig, SaveConfig, Request
  <2>4. CASE Upgrade \/ UpgradeStep \/ UpgradeWaits \/ UpdateRestarts
    BY <2>4 DEF Upgrade, UpgradeStep, UpgradeWaits, UpdateRestarts, OtaNext
  <2>5. CASE FormRestarts \/ GoesDown
    BY <2>5 DEF FormRestarts, GoesDown, PowerLoss, OtaNext
  <2>6. CASE OpenIndex \/ AllocateIndex \/ SendIndex \/ IndexSent \/ AnswerConfig
    BY <2>6 DEF OpenIndex, AllocateIndex, SendIndex, IndexSent, AnswerConfig
  <2>7. CASE AllocateForm \/ ReceiveForm \/ FormReceived \/ ParseForm \/ SaveApp
               \/ SaveWifi \/ AnswerForm \/ FormTimesOut \/ FormBreaks \/ PageLeft
    BY <2>7 DEF AllocateForm, ReceiveForm, FormReceived, ParseForm, SaveApp, SaveWifi,
                AnswerForm, FormTimesOut, FormBreaks, PageLeft, webVars
  <2> QED
    BY <2>1, <2>2, <2>3, <2>4, <2>5, <2>6, <2>7 DEF WebNext, PageStep
<1> QED
  BY <1>1, <1>2, PTL DEF WebSpec, OtaSpec

(* Whatever the pages do meanwhile, the device can always boot. *)
THEOREM WebBootable == WebSpec => []AlwaysBootable
BY WebImplementsOta, BootableCorrect, PTL

(* No page ever moves the device to another firmware: only a whole update does. *)
THEOREM WebSwitch == WebSpec => SwitchNeedsUpdate
BY WebImplementsOta, SwitchCorrect, PTL

-----------------------------------------------------------------------------

(* What the request that is being served has borrowed. *)
HoldsFile == page = "index" /\ step \in {"allocate", "send"}
HalfSaved == page = "save" /\ step = "saveWifi"

(* handle_index has its FILE, and the others none. *)
FileHeld == open = starved + (IF HoldsFile THEN 1 ELSE 0)
(* The first half of a form is saved, and the second is to follow. *)
FormHeld == (HalfSaved => broken \/ app) /\ (~HalfSaved => FormIsWhole)

WebInv == WebOwnType /\ FileHeld /\ FormHeld

(* Arithmetic of the bounds. *)
LEMMA Bounds ==
  /\ 0 \in 0..MaxChunks
  /\ \A i \in 0..MaxChunks : i > 0 => i - 1 \in 0..MaxChunks
  /\ 0 \in 0..MaxFiles
  /\ \A i \in 0..MaxFiles : i < MaxFiles => i + 1 \in 0..MaxFiles
BY OtaAssumption, WebAssumption DEF OtaAssumption, WebAssumption

(* Steps that leave the server's own variables, or all but a few, alone. *)
Idles == UNCHANGED webVars \/ Upgrade \/ UpgradeStep \/ UpgradeWaits \/ FormTimesOut
Starts == GetIndex \/ GetConfig \/ SaveConfig
HandlesForm ==
  AllocateForm \/ ReceiveForm \/ FormReceived \/ ParseForm \/ AnswerForm \/ FormBreaks
GoesAway == FormRestarts \/ GoesDown \/ UpdateRestarts

LEMMA WebCases ==
  ASSUME [WebNext]_webVars
  PROVE  \/ Idles \/ OpenPortal \/ RegisterNext \/ Starts
         \/ OpenIndex \/ AllocateIndex \/ SendIndex \/ IndexSent \/ AnswerConfig
         \/ HandlesForm \/ SaveApp \/ SaveWifi \/ PageLeft \/ GoesAway
BY DEF WebNext, PageStep, Idles, Starts, HandlesForm, GoesAway

LEMMA IdlesKeeps == ASSUME Idles PROVE UNCHANGED webOwnVars
BY DEF Idles, Upgrade, UpgradeStep, UpgradeWaits, FormTimesOut, webVars

(* The types. *)
LEMMA TypeStep == WebOwnType /\ FileHeld /\ [WebNext]_webVars => WebOwnType'
<1> SUFFICES ASSUME WebOwnType, FileHeld, [WebNext]_webVars PROVE WebOwnType'
  OBVIOUS
<1> USE Bounds DEF WebOwnType, formVars
<1>1. CASE Idles
  BY <1>1, IdlesKeeps DEF webOwnVars, pageVars
<1>2. CASE OpenPortal \/ RegisterNext
  <2>1. opened' \in BOOLEAN
    BY <1>2 DEF OpenPortal, RegisterNext
  <2>2. uris' \in 0..4
    BY <1>2 DEF OpenPortal, RegisterNext
  <2> QED
    BY <1>2, <2>1, <2>2 DEF OpenPortal, RegisterNext, pageVars
<1>3. CASE Starts
  BY <1>3 DEF Starts, GetIndex, GetConfig, SaveConfig, Request
<1>4. CASE OpenIndex \/ SendIndex \/ AnswerConfig
  BY <1>4 DEF OpenIndex, SendIndex, AnswerConfig, Goto, Returns
<1>5. CASE AllocateIndex
  <2>1. starved < MaxFiles
    BY <1>5, WebAssumption DEF AllocateIndex, FileHeld, HoldsFile
  <2> QED
    BY <1>5, <2>1 DEF AllocateIndex, Goto, Returns
<1>6. CASE IndexSent
  <2>1. open - 1 \in 0..MaxFiles
    BY <1>6, WebAssumption DEF IndexSent, FileHeld, HoldsFile
  <2> QED
    BY <1>6, <2>1 DEF IndexSent, Returns
<1>7. CASE HandlesForm
  BY <1>7 DEF HandlesForm, AllocateForm, ReceiveForm, FormReceived, ParseForm, AnswerForm,
              FormBreaks, Goto, Returns
<1>8. CASE SaveApp \/ SaveWifi
  BY <1>8 DEF SaveApp, SaveWifi, Goto
<1>9. CASE PageLeft
  BY <1>9 DEF PageLeft
<1>10. CASE GoesAway
  <2>1. WebGone
    BY <1>10 DEF GoesAway, FormRestarts, GoesDown, UpdateRestarts
  <2>2. opened' \in BOOLEAN /\ browser' \in BOOLEAN
    BY <2>1 DEF WebGone, Returns
  <2>3. broken' \in BOOLEAN /\ app' \in BOOLEAN /\ wifi' \in BOOLEAN
    BY <2>1 DEF WebGone
  <2>4. uris' \in 0..4
    BY <2>1 DEF WebGone
  <2> QED
    BY <2>1, <2>2, <2>3, <2>4 DEF WebGone, Returns
<1> QED
  BY <1>1, <1>2, <1>3, <1>4, <1>5, <1>6, <1>7, <1>8, <1>9, <1>10, WebCases

(* The files. *)
LEMMA FileStep == WebOwnType /\ FileHeld /\ [WebNext]_webVars => FileHeld'
<1> SUFFICES ASSUME WebOwnType, FileHeld, [WebNext]_webVars PROVE FileHeld'
  OBVIOUS
<1>0. open \in Nat /\ starved \in Nat
  BY WebAssumption DEF WebOwnType
<1> USE <1>0 DEF FileHeld, HoldsFile
<1>1. CASE Idles
  BY <1>1, IdlesKeeps DEF webOwnVars, pageVars
<1>2. CASE OpenPortal \/ RegisterNext
  BY <1>2 DEF OpenPortal, RegisterNext, pageVars
<1>3. CASE Starts
  BY <1>3 DEF Starts, GetIndex, GetConfig, SaveConfig, Request, Free
<1>4. CASE OpenIndex
  BY <1>4 DEF OpenIndex, Goto, Returns
<1>5. CASE AllocateIndex \/ SendIndex \/ IndexSent \/ AnswerConfig
  BY <1>5 DEF AllocateIndex, SendIndex, IndexSent, AnswerConfig, Goto, Returns
<1>6. CASE HandlesForm
  BY <1>6 DEF HandlesForm, AllocateForm, ReceiveForm, FormReceived, ParseForm, AnswerForm,
              FormBreaks, SaveStep, Goto, Returns
<1>7. CASE SaveApp \/ SaveWifi
  BY <1>7 DEF SaveApp, SaveWifi, SaveStep, Goto
<1>8. CASE PageLeft
  BY <1>8 DEF PageLeft
<1>9. CASE GoesAway
  BY <1>9 DEF GoesAway, FormRestarts, GoesDown, UpdateRestarts, WebGone, Returns
<1> QED
  BY <1>1, <1>2, <1>3, <1>4, <1>5, <1>6, <1>7, <1>8, <1>9, WebCases

(* The form. *)
LEMMA FormStep == WebOwnType /\ FormHeld /\ [WebNext]_webVars => FormHeld'
<1> SUFFICES ASSUME WebOwnType, FormHeld, [WebNext]_webVars PROVE FormHeld'
  OBVIOUS
<1> USE DEF FormHeld, HalfSaved, FormIsWhole, formVars
<1>1. CASE Idles
  BY <1>1, IdlesKeeps DEF webOwnVars, pageVars
<1>2. CASE OpenPortal \/ RegisterNext
  BY <1>2 DEF OpenPortal, RegisterNext, pageVars
<1>3. CASE Starts
  BY <1>3 DEF Starts, GetIndex, GetConfig, SaveConfig, Request, Free
<1>4. CASE OpenIndex \/ AllocateIndex \/ SendIndex \/ IndexSent \/ AnswerConfig
  <2>1. ~HalfSaved /\ ~HalfSaved'
    BY <1>4 DEF OpenIndex, AllocateIndex, SendIndex, IndexSent, AnswerConfig, Goto, Returns
  <2>2. UNCHANGED formVars
    BY <1>4 DEF OpenIndex, AllocateIndex, SendIndex, IndexSent, AnswerConfig
  <2> QED
    BY <2>1, <2>2
<1>5. CASE HandlesForm
  <2>1. ~HalfSaved /\ ~HalfSaved'
    BY <1>5 DEF HandlesForm, AllocateForm, ReceiveForm, FormReceived, ParseForm,
                AnswerForm, FormBreaks, SaveStep, Goto, Returns
  <2>2. UNCHANGED formVars
    BY <1>5 DEF HandlesForm, AllocateForm, ReceiveForm, FormReceived, ParseForm,
                AnswerForm, FormBreaks
  <2> QED
    BY <2>1, <2>2
<1>6. CASE SaveApp
  <2>1. HalfSaved'
    BY <1>6 DEF SaveApp, SaveStep, Goto
  <2>2. broken' \/ app'
    <3>1. CASE app'
      BY <3>1
    <3>2. CASE ~app'
      BY <1>6, <3>2 DEF SaveApp
    <3> QED
      BY <3>1, <3>2
  <2> QED
    BY <2>1, <2>2
<1>7. CASE SaveWifi
  <2>1. HalfSaved /\ ~HalfSaved'
    BY <1>7 DEF SaveWifi, SaveStep, Goto
  <2>2. broken' = (broken \/ ~wifi') /\ UNCHANGED app
    BY <1>7 DEF SaveWifi
  <2> QED
    BY <2>1, <2>2
<1>8. CASE PageLeft
  BY <1>8 DEF PageLeft
<1>9. CASE GoesAway
  <2>1. WebGone
    BY <1>9 DEF GoesAway, FormRestarts, GoesDown, UpdateRestarts
  <2>2. ~HalfSaved'
    BY <2>1 DEF WebGone, Returns
  <2>3. broken' = (broken \/ HalfSaved) /\ UNCHANGED <<app, wifi>>
    BY <2>1 DEF WebGone, SaveStep
  <2> QED
    BY <2>2, <2>3
<1> QED
  BY <1>1, <1>2, <1>3, <1>4, <1>5, <1>6, <1>7, <1>8, <1>9, WebCases

(* WebInv holds initially, and every step keeps it. *)
LEMMA WebInvInductive == WebSpec => []WebInv
<1>1. WebInit => WebOwnType
  <2> SUFFICES ASSUME WebInit PROVE WebOwnType
    OBVIOUS
  <2>1. /\ opened \in BOOLEAN /\ browser \in BOOLEAN
        /\ app \in BOOLEAN /\ wifi \in BOOLEAN /\ broken \in BOOLEAN
    BY DEF WebInit
  <2>2. uris \in 0..4
    BY DEF WebInit
  <2> QED
    BY <2>1, <2>2, Bounds DEF WebInit, WebOwnType
<1>2. WebInit => FileHeld
  BY DEF WebInit, FileHeld, HoldsFile
<1>3. WebInit => FormHeld
  BY DEF WebInit, FormHeld, HalfSaved, FormIsWhole
<1> QED
  BY <1>1, <1>2, <1>3, TypeStep, FileStep, FormStep, PTL DEF WebSpec, WebInv

(* The server and the update handler keep their types. *)
THEOREM WebTypeCorrect == WebSpec => []WebTypeOK
<1>1. WebInv /\ OtaTypeOK => WebTypeOK
  BY DEF WebInv, WebTypeOK
<1> QED
  BY <1>1, WebInvInductive, WebImplementsOta, OtaTypeCorrect, PTL

(* Every handler gives back what it borrowed, on every path that has memory, *)
(* and no path but a failed save leaves half a form.                         *)
THEOREM NothingLeftOverCorrect == WebSpec => []NothingLeftOver
<1>1. WebInv => (page = "none" => FilesAreClosed)
  BY WebAssumption DEF WebInv, WebOwnType, FileHeld, HoldsFile, FilesAreClosed
<1>2. WebInv => (page = "none" => FormIsWhole)
  BY DEF WebInv, FormHeld, HalfSaved
<1> QED
  BY <1>1, <1>2, WebInvInductive, PTL DEF NothingLeftOver

=============================================================================
