------------------------------- MODULE EdScan -------------------------------
(***************************************************************************)
(* The dongle's energy scan (vendor/common/app_edScan.c): the channels are *)
(* measured one after the other; the first quiet one is taken at once,     *)
(* else the one with the least energy.                                     *)
(***************************************************************************)
EXTENDS Naturals, Sequences

CONSTANTS
  ChannelNum,   (* channels to scan, from the start request                *)
  EdMax,        (* the largest measure: 255                                *)
  EdQuiet,      (* ED_SCAN_LQI_THRESHOLD                                   *)
  NoChannel     (* the value of bestChannel before any scan: 0             *)

ASSUME ScanAssumption ==
  /\ ChannelNum \in Nat \ {0}
  /\ EdMax \in Nat /\ EdQuiet \in Nat /\ EdQuiet < EdMax
  /\ NoChannel \notin 0..ChannelNum - 1

Channel == 0..ChannelNum - 1   (* by the index RF4CE_Idx2Channel takes     *)

Energy == 0..EdMax

VARIABLES
  curChannelIdx,
  bestChannel, bestChannelEnergy,
  scanTimer,     (* the scan is running                                    *)
  measured,      (* history: the energies this scan has measured           *)
  dChan          (* the dongle's channel, MAC_LOGICAL_CHANNEL              *)

scanVars == <<curChannelIdx, bestChannel, bestChannelEnergy, scanTimer, measured, dChan>>

ScanInit ==
  /\ curChannelIdx = 0 /\ bestChannel = NoChannel /\ bestChannelEnergy = 0
  /\ scanTimer = FALSE /\ measured = <<>>
  /\ dChan \in Channel

app_edScanStart_KeepEnergy == (* mutant: the least energy is the scan's before *)
  IF scanTimer
  THEN UNCHANGED scanVars
  ELSE /\ curChannelIdx' = 0
       /\ scanTimer' = TRUE
       /\ measured' = <<>>
       /\ dChan' = 0
       /\ UNCHANGED <<bestChannel, bestChannelEnergy>>

app_edScanStart ==
  IF scanTimer
  THEN UNCHANGED scanVars
  ELSE /\ curChannelIdx' = 0
       /\ bestChannelEnergy' = EdMax
       /\ scanTimer' = TRUE
       /\ measured' = <<>>
       /\ dChan' = 0
       /\ UNCHANGED bestChannel

Better(e) == e <= EdQuiet \/ e < bestChannelEnergy

(* doneCb, app_edScanCompleteCb, moves the dongle to the channel. *)
ScanDone ==
  /\ scanTimer' = FALSE
  /\ dChan' = bestChannel'

app_energyScanCb_OneMore(e) == (* mutant: one channel too many *)
  /\ scanTimer
  /\ measured' = Append(measured, e)
  /\ bestChannel' = IF Better(e) THEN curChannelIdx ELSE bestChannel
  /\ bestChannelEnergy' = IF Better(e) THEN e ELSE bestChannelEnergy
  /\ IF e <= EdQuiet
     THEN ScanDone /\ UNCHANGED curChannelIdx
     ELSE /\ curChannelIdx' = curChannelIdx + 1
          /\ IF curChannelIdx + 1 > ChannelNum
             THEN ScanDone
             ELSE dChan' = curChannelIdx + 1 /\ UNCHANGED scanTimer

app_energyScanCb(e) ==
  /\ scanTimer
  /\ measured' = Append(measured, e)
  /\ bestChannel' = IF Better(e) THEN curChannelIdx ELSE bestChannel
  /\ bestChannelEnergy' = IF Better(e) THEN e ELSE bestChannelEnergy
  /\ IF e <= EdQuiet
     THEN ScanDone /\ UNCHANGED curChannelIdx
     ELSE /\ curChannelIdx' = curChannelIdx + 1
          /\ IF curChannelIdx + 1 >= ChannelNum
             THEN ScanDone
             ELSE dChan' = curChannelIdx + 1 /\ UNCHANGED scanTimer
=============================================================================
