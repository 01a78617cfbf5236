---------------------------- MODULE RcFrameCounter ----------------------------
(***************************************************************************)
(* The life of the network frame counter on the remote control: the        *)
(* counter in RAM, the idle handler that saves it every Thres frames, the  *)
(* retention register that carries it through deep sleep, and the          *)
(* power-on that skips ahead by Thres (vendor/rc_app/app_common.c), over   *)
(* the flash log of NvFrameCount.                                          *)
(*                                                                         *)
(* The network layer is a binary library: it reads the log when it starts  *)
(* and advances the counter with every secured frame.  The target accepts  *)
(* a frame only if its counter is new, so the counter must not go back     *)
(* over a power cycle.                                                     *)
(***************************************************************************)
EXTENDS NvFrameCount

CONSTANTS
  Burst,      (* frames between two passes of the idle handler             *)
  MaxCount    (* bound on the counter in RAM                               *)

ASSUME BurstAssumption == Burst \in 1..Thres
ASSUME MaxCountAssumption == MaxCount \in Nat

VARIABLES
  pc,         (* what the device is doing                                  *)
  cnt,        (* the counter of the next frame (network layer, RAM)        *)
  inFlash,    (* nwk_frameCntInFlash: the idle handler's copy              *)
  areg,       (* the retained register reg_nwk_seq_no                      *)
  paired,     (* rcu_appInfo.pairingRef is valid (in the store of items)   *)
  sent,       (* frames sent since the last pass of the idle handler       *)
  used        (* history: 1 + the largest counter put on the air under     *)
              (* the key of this pairing                                   *)

appVars == <<pc, cnt, inFlash, areg, paired, sent, used>>
vars == <<nvVars, appVars>>

NWK_FRAME_COUNTER_DEFAULT_VALUE == 1

Init ==
  /\ NvInit
  /\ pc = "off"
  /\ cnt = 0
  /\ inFlash = 0
  /\ areg = 0
  /\ paired = FALSE
  /\ sent = 0
  /\ used = 0

(* What a load would give now. *)
Stored ==
  IF ValidSects(sect) = {} THEN NWK_FRAME_COUNTER_DEFAULT_VALUE
                           ELSE nv_nwkFrameCountFromFlash(sect)

(* The load the network layer makes when it starts.                        *)
NwkLoad == op' = LoadOp(sect) /\ UNCHANGED <<sect, saved, fails>>

(* Power-on: the library loads the counter, nwk_frameCountUpdate adds      *)
(* NWK_ADD_FRAME_COUNTER if the remote is paired, and the retained         *)
(* register is cleared.                                                    *)
PowerOnCount_NoMargin == Stored (* mutant *)
PowerOnCount == IF paired THEN Stored + Thres ELSE Stored

PowerOn ==
  /\ pc = "off"
  /\ PowerOnCount <= MaxCount
  /\ NwkLoad
  /\ cnt' = PowerOnCount
  /\ areg' = 0
  /\ inFlash' = 0
  /\ pc' = "powerOn"
  /\ UNCHANGED <<paired, sent, used>>

(* The new counter of a paired remote is saved, unless the battery is too  *)
(* low to program the flash (checkBatteryBeforeSaveFlash).                 *)
nwk_frameCountUpdate ==
  /\ pc = "powerOn" /\ op.step = "none"
  /\ \/ paired /\ op' = SaveOp(sect, cnt)
     \/ op' = NoOp
  /\ pc' = "run"
  /\ sent' = 0
  /\ UNCHANGED <<sect, saved, fails, cnt, inFlash, areg, paired, used>>

(* The remote is bound to a target, or unbound; the record of it is stored *)
(* before anything else happens (RcApp has the record's own hazards).  A   *)
(* pairing has a key of its own, for which no counter was used yet.        *)
Pair ==
  /\ pc = "run" /\ op.step = "none"
  /\ ~paired
  /\ paired' = TRUE
  /\ UNCHANGED <<nvVars, pc, cnt, inFlash, areg, sent, used>>

Unpair ==
  /\ pc = "run" /\ op.step = "none"
  /\ paired
  /\ paired' = FALSE
  /\ used' = 0
  /\ UNCHANGED <<nvVars, pc, cnt, inFlash, areg, sent>>

(* The network layer secures a frame to the target.                        *)
SendFrame ==
  /\ pc = "run" /\ op.step = "none"
  /\ paired
  /\ sent < Burst
  /\ cnt < MaxCount
  /\ cnt' = cnt + 1
  /\ used' = IF cnt + 1 > used THEN cnt + 1 ELSE used
  /\ sent' = sent + 1
  /\ UNCHANGED <<nvVars, pc, inFlash, areg, paired>>

(* app_idle_handler, up to the first load: only when nothing is cached.    *)
IdleLoad ==
  /\ pc = "run" /\ op.step = "none"
  /\ pc' = "idle"
  /\ IF inFlash = 0
     THEN /\ NwkLoad
          /\ inFlash' = IF ValidSects(sect) = {} THEN 0 ELSE Stored
     ELSE UNCHANGED <<nvVars, inFlash>>
  /\ UNCHANGED <<cnt, areg, paired, sent, used>>

IdleSave ==
  /\ pc = "idle" /\ op.step = "none"
  /\ inFlash + Thres < cnt
  /\ op' = SaveOp(sect, cnt)
  /\ pc' = "idleReload"
  /\ UNCHANGED <<sect, saved, fails, cnt, inFlash, areg, paired, sent, used>>

IdleNoSave ==
  /\ pc = "idle" /\ op.step = "none"
  /\ inFlash + Thres >= cnt
  /\ pc' = "run"
  /\ sent' = 0
  /\ UNCHANGED <<nvVars, cnt, inFlash, areg, paired, used>>

IdleReload ==
  /\ pc = "idleReload" /\ op.step = "none"
  /\ NwkLoad
  /\ inFlash' = IF ValidSects(sect) = {} THEN inFlash ELSE Stored
  /\ pc' = "run"
  /\ sent' = 0
  /\ UNCHANGED <<cnt, areg, paired, used>>

(* Deep sleep loses the RAM but not the register app_saveInfoPm wrote.     *)
DeepSleep ==
  /\ pc = "run" /\ op.step = "none"
  /\ areg' = cnt
  /\ cnt' = 0
  /\ inFlash' = 0
  /\ pc' = "deep"
  /\ UNCHANGED <<nvVars, paired, sent, used>>

(* Wake-up: the library loads the log, app_loadInfo then takes the counter *)
(* from the register and clears pmDeep: the register is not read again.    *)
DeepWake ==
  /\ pc = "deep"
  /\ NwkLoad
  /\ cnt' = areg
  /\ areg' = 0
  /\ pc' = "run"
  /\ UNCHANGED <<inFlash, paired, sent, used>>

(* The battery is removed or too low: RAM and register are lost.           *)
PowerLoss ==
  /\ pc # "off"
  /\ NvPowerLoss
  /\ pc' = "off"
  /\ cnt' = 0
  /\ inFlash' = 0
  /\ areg' = 0
  /\ sent' = 0
  /\ UNCHANGED <<paired, used>>

FlashStep == NvStep /\ UNCHANGED appVars

Next ==
  \/ PowerOn
  \/ nwk_frameCountUpdate
  \/ Pair
  \/ Unpair
  \/ SendFrame
  \/ IdleLoad
  \/ IdleSave
  \/ IdleNoSave
  \/ IdleReload
  \/ DeepSleep
  \/ DeepWake
  \/ PowerLoss
  \/ FlashStep

Spec == Init /\ [][Next]_vars

-----------------------------------------------------------------------------
(* Properties. *)

TypeOK ==
  /\ NvTypeOK
  /\ pc \in {"off", "powerOn", "run", "idle", "idleReload", "deep"}
  /\ cnt \in Nat
  /\ inFlash \in Nat
  /\ areg \in Nat
  /\ paired \in BOOLEAN
  /\ sent \in 0..Burst
  /\ used \in Nat

(* Whatever step of whatever call the supply fails in, the next load gives *)
(* at least the last counter a save reported stored: the order erase, copy,*)
(* write, header, retire and the choice between two valid headers.         *)
NoRollback == Stored >= saved

(* A counter already put on the air is used again at most Burst times      *)
(* after a power cycle: the margin added at power-on covers every frame    *)
(* since the last save, except those sent before the idle handler saw the  *)
(* margin exhausted.  A write read back wrong, or a header without a CRC   *)
(* that brings the sector before back, leaves the log one save behind.     *)
ReuseAtMostBurst ==
  pc \in {"run", "idle", "idleReload"} =>
    used <= cnt + Burst + fails * (Thres + Burst)

(* The counter the log holds never decreases, not even between two flash   *)
(* operations of a sector change or of a backoff, nor when the retirement  *)
(* of the old sector reads back wrong and the device runs on: only the one *)
(* step that leaves a retired sector's flag accepted without a CRC does.   *)
StoredNeverDecreases == [][Stored' >= Stored \/ HalfRetired]_sect

(* "backoff valid framecount to another sector" (nv.c:1030): a counter is  *)
(* loaded only if it is at most 2 * UPDATE_FRAMECOUNT_THRES above the word  *)
(* before it.  With two words in the sector the code makes no comparison.  *)
AbnormalWordBackedOff ==
  ValidSects(sect) # {} =>
    LET w == sect[nv_sector_read(sect)].words
    IN  Len(w) >= 2 => Stored - w[Len(w) - 1] \in 0..(2 * Thres)
=============================================================================
