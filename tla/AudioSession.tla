---------------------------- MODULE AudioSession ----------------------------
(***************************************************************************)
(* How the remote and the dongle agree on a channel for an audio session   *)
(* (vendor/common/TL_specificData/tl_specific_data_audio.c).               *)
(*                                                                         *)
(* The remote asks with a START_REQ, up to six times, 200 ms apart.  The   *)
(* first one to arrive makes the dongle scan, the next one after the scan  *)
(* is answered with the channel, for 2 s at most.  Requests and answers    *)
(* reach the other side whatever its channel; audio data do not.           *)
(*                                                                         *)
(* Time passes in steps of 100 ms, the measure of one channel.  A timer    *)
(* that is due is served before time passes again.                         *)
(***************************************************************************)
EXTENDS EdScan

CONSTANTS
  RetryNum,      (* dataReqRetries: 5                                      *)
  RetryTime,     (* 200 ms                                                 *)
  LifeTime,      (* 2 s                                                    *)
  AudioDelay,    (* the first packet is sent after 20 were recorded        *)
  FlightTime,    (* the longest a request or an answer is on its way       *)
  MaxOld,        (* a bound: frames of an earlier request at the key       *)
  Off            (* of a timer                                             *)

ASSUME SessionAssumption ==
  /\ {RetryNum, AudioDelay, FlightTime, MaxOld} \subseteq Nat
  /\ {RetryTime, LifeTime} \subseteq Nat \ {0}
  /\ Off \notin Nat

VARIABLES
  (* the remote *)
  dataReqTimeoutCb, dataReqRetries,
  mic,           (* audio_status = AUDIO_OPENED                            *)
  delay,         (* until the first packet                                 *)
  rChan,         (* its channel                                            *)
  rxOn,          (* MAC_RX_ON_WHEN_IDLE                                    *)
  (* the dongle *)
  scanSta,
  life,          (* its dataReqTimeoutCb: app_edScanLifetimeCb             *)
  ed,            (* until the measure of the channel ends                  *)
  (* the air: the time each frame has left, oldest first *)
  reqs, rsps,    (* an answer carries its channel                          *)
  (* history *)
  missed,        (* frames lost and results forgotten since the key        *)
  rescan         (* a scan began with an answer under way or the session   *)
                 (* open                                                   *)

remoteVars == <<dataReqTimeoutCb, dataReqRetries, mic, delay, rChan, rxOn>>
dongleVars == <<scanSta, life, ed, scanVars>>
airVars == <<reqs, rsps>>
histVars == <<missed, rescan>>
vars == <<remoteVars, dongleVars, airVars, histVars>>

Init ==
  /\ ScanInit
  /\ dataReqTimeoutCb = Off /\ dataReqRetries = 0
  /\ mic = FALSE /\ delay = 0 /\ rChan = 0 /\ rxOn = FALSE
  /\ scanSta = "IDLE" /\ life = Off /\ ed = Off
  /\ reqs = <<>> /\ rsps = <<>>
  /\ missed = 0 /\ rescan = FALSE

-----------------------------------------------------------------------------
(* The remote. *)

tl_audioStartReqSend == reqs' = Append(reqs, FlightTime)

app_audioStart_KeepRetries == (* mutant: the count is not set again *)
  /\ dataReqTimeoutCb = Off /\ ~mic
  /\ Len(reqs) + Len(rsps) <= MaxOld
  /\ rxOn' = TRUE
  /\ tl_audioStartReqSend
  /\ dataReqTimeoutCb' = RetryTime
  /\ missed' = 0
  /\ rescan' = (rescan /\ rsps # <<>>)
  /\ UNCHANGED <<dataReqRetries, mic, delay, rChan, dongleVars, rsps>>

(* The record key, in the ready state.  A bound: at most MaxOld frames of  *)
(* the request before are still on their way.                              *)
app_audioStart ==
  /\ dataReqTimeoutCb = Off /\ ~mic
  /\ Len(reqs) + Len(rsps) <= MaxOld
  /\ rxOn' = TRUE
  /\ tl_audioStartReqSend
  /\ dataReqRetries' = RetryNum
  /\ dataReqTimeoutCb' = RetryTime
  /\ missed' = 0
  /\ rescan' = (rescan /\ rsps # <<>>)
  /\ UNCHANGED <<mic, delay, rChan, dongleVars, rsps>>

GiveUp ==
  /\ dataReqTimeoutCb = 0 /\ dataReqRetries = 0
  /\ dataReqTimeoutCb' = Off
  /\ rxOn' = FALSE
  /\ UNCHANGED <<dataReqRetries, mic, delay, rChan, dongleVars, airVars, histVars>>

Retry ==
  /\ dataReqTimeoutCb = 0 /\ dataReqRetries > 0
  /\ dataReqRetries' = dataReqRetries - 1
  /\ tl_audioStartReqSend
  /\ dataReqTimeoutCb' = RetryTime
  /\ UNCHANGED <<mic, delay, rChan, rxOn, dongleVars, rsps, histVars>>

(* TL_CMD_AUDIO_START_RSP; audio_recTaskStart does nothing when it is open. *)
StartRsp ==
  /\ rsps # <<>>
  /\ rsps' = Tail(rsps)
  /\ IF rxOn
     THEN /\ dataReqTimeoutCb' = Off
          /\ rChan' = Head(rsps).channel
          /\ mic' = TRUE
          /\ delay' = IF mic THEN delay ELSE AudioDelay
     ELSE UNCHANGED <<dataReqTimeoutCb, rChan, mic, delay>>
  /\ UNCHANGED <<dataReqRetries, rxOn, dongleVars, reqs, histVars>>

(* tl_audio_stop, or too many failures in tl_audioDataSend; neither turns  *)
(* the receiver off.                                                       *)
tl_audio_stop ==
  /\ mic
  /\ mic' = FALSE
  /\ rxOn' = TRUE
  /\ UNCHANGED <<dataReqTimeoutCb, dataReqRetries, delay, rChan, dongleVars, airVars, histVars>>

-----------------------------------------------------------------------------
(* The dongle. *)

Answered_Early == (* mutant: a scan that is not over is answered *)
  /\ scanSta # "IDLE"
  /\ rsps' = Append(rsps, [channel |-> dChan, left |-> FlightTime])
  /\ UNCHANGED <<dongleVars, rescan>>

Answered ==
  /\ scanSta = "DONE"
  /\ rsps' = Append(rsps, [channel |-> dChan, left |-> FlightTime])
  /\ UNCHANGED <<dongleVars, rescan>>

Scans ==
  /\ scanSta = "IDLE"
  /\ app_edScanStart
  /\ scanSta' = "DOING"
  /\ ed' = 1
  /\ rescan' = (rescan \/ mic \/ rsps # <<>>)
  /\ UNCHANGED <<life, rsps>>

Ignored ==
  /\ scanSta = "DOING"
  /\ UNCHANGED <<dongleVars, rsps, rescan>>

StartReq ==
  /\ reqs # <<>>
  /\ reqs' = Tail(reqs)
  /\ Answered \/ Scans \/ Ignored
  /\ UNCHANGED <<remoteVars, missed>>

Measure(e) ==
  /\ ed = 0
  /\ app_energyScanCb(e)
  /\ IF scanTimer'
     THEN ed' = 1 /\ UNCHANGED <<scanSta, life>>
     ELSE ed' = Off /\ scanSta' = "DONE" /\ life' = LifeTime
  /\ UNCHANGED <<remoteVars, airVars, histVars>>

app_edScanLifetimeCb ==
  /\ life = 0
  /\ scanSta' = "IDLE"
  /\ life' = Off
  /\ missed' = IF missed > RetryNum THEN missed ELSE missed + 1
  /\ UNCHANGED <<remoteVars, ed, scanVars, airVars, rescan>>

Data_KeepTimer == (* mutant: the timer of the result goes on *)
  /\ mic /\ delay = 0
  /\ rChan = dChan /\ ~scanTimer
  /\ scanSta' = "IDLE"
  /\ UNCHANGED <<remoteVars, life, ed, scanVars, airVars, histVars>>

(* TL_CMD_AUDIO_DATA_NOTIFY: sent on the session's channel, received on    *)
(* the dongle's; the receiver is off during a scan.                        *)
Data ==
  /\ mic /\ delay = 0
  /\ rChan = dChan /\ ~scanTimer
  /\ scanSta' = "IDLE"
  /\ life' = Off
  /\ UNCHANGED <<remoteVars, ed, scanVars, airVars, histVars>>

-----------------------------------------------------------------------------
(* The air and the time. *)

Lose ==
  /\ \/ reqs # <<>> /\ reqs' = Tail(reqs) /\ UNCHANGED rsps
     \/ rsps # <<>> /\ rsps' = Tail(rsps) /\ UNCHANGED reqs
  /\ missed' = IF missed > RetryNum THEN missed ELSE missed + 1
  /\ UNCHANGED <<remoteVars, dongleVars, rescan>>

Counts(timer) == timer # 0

Less(timer) == IF timer = Off THEN Off ELSE timer - 1

(* Frames of one side arrive in the order they were sent, before the first *)
(* packet of the session (AudioDelay) and within FlightTime.               *)
Tick ==
  /\ Counts(dataReqTimeoutCb) /\ Counts(life) /\ Counts(ed)
  /\ \A i \in DOMAIN reqs : reqs[i] > 0
  /\ \A i \in DOMAIN rsps : rsps[i].left > 0
  /\ dataReqTimeoutCb' = Less(dataReqTimeoutCb)
  /\ life' = Less(life)
  /\ ed' = Less(ed)
  /\ delay' = IF delay > 0 THEN delay - 1 ELSE 0
  /\ reqs' = [i \in DOMAIN reqs |-> reqs[i] - 1]
  /\ rsps' = [i \in DOMAIN rsps |-> [rsps[i] EXCEPT !.left = @ - 1]]
  /\ UNCHANGED <<dataReqRetries, mic, rChan, rxOn, scanSta, scanVars, histVars>>

Next ==
  \/ app_audioStart
  \/ GiveUp
  \/ Retry
  \/ StartRsp
  \/ tl_audio_stop
  \/ StartReq
  \/ \E e \in Energy : Measure(e)
  \/ app_edScanLifetimeCb
  \/ Data
  \/ Lose
  \/ Tick

Spec == Init /\ [][Next]_vars

-----------------------------------------------------------------------------
(* Properties. *)

(* Every variable has its type, and few frames are on their way at a time. *)
TypeOK ==
  /\ curChannelIdx \in 0..ChannelNum
  /\ bestChannel \in Channel \cup {NoChannel} /\ bestChannelEnergy \in Energy
  /\ dChan \in Channel \cup {NoChannel} /\ rChan \in Channel \cup {NoChannel}
  /\ {scanTimer, mic, rxOn, rescan} \subseteq BOOLEAN
  /\ dataReqTimeoutCb \in 0..RetryTime \cup {Off} /\ dataReqRetries \in 0..RetryNum
  /\ delay \in 0..AudioDelay
  /\ scanSta \in {"IDLE", "DOING", "DONE"}
  /\ life \in 0..LifeTime \cup {Off} /\ ed \in {0, 1, Off}
  /\ Len(reqs) <= 2 + MaxOld /\ Len(rsps) <= 2 + MaxOld /\ Len(measured) <= ChannelNum
  /\ missed \in 0..RetryNum + 1

(* While the microphone is open the dongle listens on the session's        *)
(* channel, unless the result of the scan was forgotten (318-322) between  *)
(* the answer and a retry of its request, which begins another scan        *)
(* (tl_specific_data_audio.c:352-358, 385-389).                            *)
ChannelAgreed == mic /\ ~rescan => rChan = dChan /\ ~scanTimer

(* The scan takes the first quiet channel or, if there is none, a channel  *)
(* with the least energy - unless every measure was the largest there is,  *)
(* when it keeps the channel of the scan before (app_edScan.c:36-51).      *)
QuietChannel ==
  scanSta = "DONE" /\ (\E i \in DOMAIN measured : measured[i] < EdMax) =>
    /\ dChan + 1 \in DOMAIN measured
    /\ \A i \in DOMAIN measured : measured[dChan + 1] <= measured[i]
    /\ \A i \in 1..dChan : measured[i] > EdQuiet

(* The scan's result, the timer that forgets it and the scan's own timer   *)
(* go together, although one handle serves two purposes                    *)
(* (tl_specific_data_audio.c:318-332, 367-370).                            *)
ResultTimed == (scanSta = "DONE" <=> life # Off) /\ (scanSta = "DOING" <=> scanTimer)

(* The remote gives up only after Tolerated frames were lost or results    *)
(* forgotten: the retries outlast a scan of all channels and a scan's      *)
(* result outlasts the retries (tl_specific_data_audio.c:255-268, 299-300, *)
(* 332).                                                                   *)
Tolerated == 2
GivesUpOnlyAfterLosses ==
  [][dataReqTimeoutCb = 0 /\ rxOn /\ ~rxOn' => missed >= Tolerated]_vars
=============================================================================
