----------------------------- MODULE AudioPath ------------------------------
(***************************************************************************)
(* How the remote sends what it records: the ring of packets and the       *)
(* sender (proj/drivers/audio/audio_rec_proc.c), the start and the end of  *)
(* a recording (vendor/common/TL_specificData/tl_specific_data_audio.c,    *)
(* vendor/rc_app/app_common.c), the radio's interrupt handlers             *)
(* (net/rf4ce/mac/mac_phy.c) and the timer between retransmissions.        *)
(*                                                                         *)
(* Audio frames bypass the MAC.  AudioTxDataFlag, here tx, tells the       *)
(* interrupt handlers that the frame of the moment is one of them: its end *)
(* starts the timer, the timer sends it again, and an acknowledgement or   *)
(* the last retry clears the flag.  Everything else the radio does         *)
(* meanwhile is read in the light of the same flag.                        *)
(***************************************************************************)
EXTENDS HwTimer, Sequences

CONSTANTS
  Packet,      (* what a packet can be                                     *)
  None,
  RingSize,    (* TL_MIC_PACKET_BUFFER_NUM                                 *)
  CursorMod,   (* the cursors are u8: 256                                  *)
  Threshold,   (* BUFFER_MIC_THRESHOLD                                     *)
  FewRetries, ManyRetries,   (* 1 and 3                                    *)
  Delay,       (* packets before the first one is sent: 20                 *)
  Discards,    (* DISCARD_FIRST_PACKETS on the TL321X, 0 elsewhere         *)
  AudioErrTimes

ASSUME AudioAssumption ==
  /\ RingSize \in Nat \ {0, 1}
  /\ {CursorMod, AudioErrTimes, Delay} \subseteq Nat \ {0}
  /\ {Threshold, FewRetries, ManyRetries, Discards} \subseteq Nat
  /\ CursorMod % (2 * RingSize) = 0
  /\ Packet # {} /\ None \notin Packet
  /\ None \notin {"audio", "mac", "ownAck", "ack", "data"}

VARIABLES
  buffer_mic_enc,          (* the ring                                     *)
  wptr, rptr,              (* buffer_mic_pkt_wptr, buffer_mic_pkt_rptr     *)
  audio_status, audio_delay_times, audio_discard_packets,
  out,                     (* history: the packet taken from the ring last *)
  err,                     (* g_tlAppAudioErr                              *)
  tx, cnt,                 (* AudioTxDataFlag, AudioTxCurCnt               *)
  maxFrameRetries,         (* macPib.maxFrameRetries                       *)
  tmr,                     (* TIMER_FOR_USER                               *)
  air,                     (* what the radio transmits                     *)
  done,                    (* what it has transmitted: TX_DONE pending     *)
  rx,                      (* the frame in rf_rxBuf: RX_DONE pending       *)
  due,                     (* the target may acknowledge an audio frame    *)
  busy, isAck,             (* rf_busyFlag & TX_BUSY, rf_isAck              *)
  snapshot,                (* the interrupt dispatcher still has the timer *)
                           (* to handle, from the status it read first     *)
  stopping,                (* between timer_stop and SetAudioTxState(0)    *)
  told,                    (* history: rf_txCbFunc was called just now     *)
  aborted,                 (* history: a stop left a frame behind          *)
  stale                    (* history: rf_isAck or TX_BUSY outlived what   *)
                           (* they were set for                            *)

ringVars == <<buffer_mic_enc, wptr, rptr, audio_delay_times, audio_discard_packets, out>>
frameVars == <<err, tx, cnt, maxFrameRetries>>
radioVars == <<air, done, rx, due, busy, isAck, snapshot>>
histVars == <<told, aborted, stale>>
vars == <<ringVars, audio_status, frameVars, tmr, radioVars, stopping, histVars>>

Init ==
  /\ buffer_mic_enc \in [0..RingSize - 1 -> {CHOOSE p \in Packet : TRUE}]
  /\ wptr = 0 /\ rptr = 0
  /\ audio_status = "AUDIO_IDLE" /\ audio_delay_times = 0 /\ audio_discard_packets = 0
  /\ out = None
  /\ err = 0 /\ tx = FALSE /\ cnt = 0 /\ maxFrameRetries = ManyRetries
  /\ tmr = Unset
  /\ air = None /\ done = None /\ rx = None /\ due = FALSE
  /\ busy = FALSE /\ isAck = FALSE /\ snapshot = FALSE
  /\ stopping = FALSE
  /\ told = FALSE /\ aborted = FALSE /\ stale = FALSE

-----------------------------------------------------------------------------
(* The ring. *)

(* mutant: the cursors are not bytes *)
Up_NoWrap(c) == c + 1

Up(c) == (c + 1) % CursorMod

Slot(c) == c % RingSize

(* buffer_mic_pkt_wptr - buffer_mic_pkt_rptr, masked as the encoder does *)
Pkts(w, r) == (w - r + CursorMod) % (2 * RingSize)

(* The encoder finds no unit of samples ready. *)
NoUnit == UNCHANGED <<buffer_mic_enc, wptr, audio_delay_times, audio_discard_packets>>

(* TL321X: the first packets are skipped by moving both cursors. *)
DiscardUnit ==
  /\ audio_discard_packets > 0
  /\ audio_discard_packets' = audio_discard_packets - 1
  /\ wptr' = Up(wptr) /\ rptr' = Up(rptr)
  /\ UNCHANGED <<buffer_mic_enc, audio_delay_times>>

(* mutant: a full ring loses nothing *)
Oldest_None == rptr

(* Where the encoder leaves the reader: a full ring loses its oldest. *)
Oldest == IF Pkts(Up(wptr), rptr) > RingSize THEN Up(rptr) ELSE rptr

(* mic_encoder_data_buffer: more packets waiting, fewer retries. *)
Retries(w, r) == IF (w - r + CursorMod) % CursorMod > Threshold THEN FewRetries ELSE ManyRetries

EncodeUnit(p) ==
  /\ audio_discard_packets = 0
  /\ buffer_mic_enc' = [buffer_mic_enc EXCEPT ![Slot(wptr)] = p]
  /\ wptr' = Up(wptr)
  /\ audio_delay_times' = IF audio_delay_times > 0 THEN audio_delay_times - 1 ELSE 0
  /\ UNCHANGED audio_discard_packets

-----------------------------------------------------------------------------
(* The main loop.  Interrupts are taken at once: it makes a step only when *)
(* none is pending.                                                        *)

Quiet == done = None /\ rx = None /\ ~tmr.irq /\ ~snapshot

(* The send request of the network library: an audio frame goes on the air *)
(* if nothing else is.                                                     *)
nwk_profileAudioDataSend ==
  IF air = None
  THEN /\ tx' = TRUE /\ cnt' = 0 /\ air' = "audio" /\ due' = FALSE
       /\ aborted' = FALSE
  ELSE UNCHANGED <<tx, cnt, air, due, aborted>>

(* tl_audioDataSend: too many failures end the session. *)
tl_audioDataSend ==
  \/ /\ err >= AudioErrTimes
     /\ err' = 0
     /\ audio_status' = "AUDIO_IDLE"
     /\ tx' = FALSE
     /\ UNCHANGED <<cnt, air, due, aborted>>
  \/ /\ err < AudioErrTimes
     /\ nwk_profileAudioDataSend
     /\ UNCHANGED <<err, audio_status>>

(* proc_sending84, with the reader where the encoder left it. *)
Waits(r) == audio_delay_times' > 0 \/ tx \/ r = wptr'

proc_sending84(r) ==
  \/ /\ Waits(r)
     /\ rptr' = r
     /\ UNCHANGED <<out, audio_status, frameVars, tmr, air, due, aborted>>
  \/ /\ ~Waits(r)
     /\ rptr' = Up(r)
     /\ out' = buffer_mic_enc'[Slot(r)]
     /\ maxFrameRetries' = Retries(wptr', r)
     /\ tl_audioDataSend
     /\ tmr' = drv_hwTmr_set(drv_hwTmr_cancel(tmr))

audio_recTaskRun(ready) ==
  /\ Quiet /\ ~stopping
  /\ audio_status = "AUDIO_OPENED"
  /\ IF ready
     THEN \/ DiscardUnit /\ proc_sending84(Up(rptr))
          \/ \E p \in Packet : EncodeUnit(p) /\ proc_sending84(Oldest)
     ELSE NoUnit /\ proc_sending84(rptr)
  /\ told' = FALSE
  /\ UNCHANGED <<done, rx, busy, isAck, snapshot, stopping, stale>>

(* A start response arrived. *)
audio_recTaskStart ==
  /\ Quiet /\ ~stopping
  /\ audio_status # "AUDIO_OPENED"
  /\ audio_status' = "AUDIO_OPENED"
  /\ audio_delay_times' = Delay
  /\ audio_discard_packets' = Discards
  /\ UNCHANGED <<buffer_mic_enc, wptr, rptr, out, frameVars, tmr, radioVars, stopping, histVars>>

(* tl_audio_stop, and audio_stateSettingCb as far as its timer_stop ... *)
tl_audio_stop ==
  /\ Quiet /\ ~stopping
  /\ audio_status = "AUDIO_OPENED"
  /\ audio_status' = "AUDIO_IDLE"
  /\ tmr' = hwTimerStop(tmr)
  /\ stopping' = TRUE
  /\ UNCHANGED <<ringVars, frameVars, radioVars, histVars>>

(* ... and from there on. *)
ClearTx ==
  /\ Quiet /\ stopping
  /\ stopping' = FALSE
  /\ tx' = FALSE
  /\ aborted' = (aborted \/ tx)
  /\ UNCHANGED <<ringVars, audio_status, err, cnt, maxFrameRetries, tmr, radioVars,
                 told, stale>>

(* The MAC transmits a frame of its own, never during an audio frame. *)
MacSend ==
  /\ Quiet /\ ~stopping
  /\ ~tx /\ air = None
  /\ air' = "mac" /\ due' = FALSE
  /\ told' = FALSE
  /\ UNCHANGED <<ringVars, audio_status, frameVars, tmr, done, rx, busy, isAck, snapshot,
                 stopping, aborted, stale>>

-----------------------------------------------------------------------------
(* The radio and the timer. *)

FrameSent ==
  /\ air # None
  /\ air' = None /\ done' = air
  /\ due' = (air = "audio")
  /\ UNCHANGED <<ringVars, audio_status, frameVars, tmr, rx, busy, isAck, snapshot, stopping,
                 histVars>>

(* An acknowledgement of the audio frame, or a frame that asks for one. *)
Arrive(frame) ==
  /\ air = None /\ done = None /\ rx = None
  /\ frame = "ack" => due
  /\ rx' = frame
  /\ due' = (due /\ frame # "ack")
  /\ UNCHANGED <<ringVars, audio_status, frameVars, tmr, air, done, busy, isAck, snapshot,
                 stopping, histVars>>

TimerExpires ==
  /\ Expires(tmr)
  /\ tmr' = Expired(tmr)
  /\ UNCHANGED <<ringVars, audio_status, frameVars, radioVars, stopping, histVars>>

-----------------------------------------------------------------------------
(* The interrupts. *)

(* The TLSR8258's dispatcher reads the timers' status, handles the radio   *)
(* and then the timer as it was; the others dispatch each interrupt.  The  *)
(* radio hears nothing until the end of a transmission is handled, so that *)
(* a dispatch never has both of the radio's interrupts.                    *)
Dispatch == \E s \in BOOLEAN : snapshot' = s /\ (s => tmr.irq)

tl_audioDataSendCnfHandler_Forget(status) == (* mutant: a failure clears the count *)
  /\ err' = 0
  /\ tx' = FALSE

tl_audioDataSendCnfHandler(status) ==
  /\ err' = IF status = "acked" THEN 0 ELSE err + 1
  /\ tx' = FALSE

AckOfAudio_Armed == (* mutant: the timer's record is not reset *)
  /\ tx /\ rx = "ack"
  /\ tmr' = drv_timer_clear_irq(hwTimerStop(tmr))
  /\ tl_audioDataSendCnfHandler("acked")
  /\ UNCHANGED <<cnt, maxFrameRetries, done, isAck, stale>>

AckOfAudio ==
  /\ tx /\ rx = "ack"
  /\ tmr' = drv_timer_clear_irq(hwTimerStop(hwTimerInfoReset(tmr)))
  /\ tl_audioDataSendCnfHandler("acked")
  /\ UNCHANGED <<cnt, maxFrameRetries, done, isAck, stale>>

AckForMac ==
  /\ ~tx /\ rx = "ack"
  /\ UNCHANGED <<frameVars, tmr, done, isAck, stale>>

(* The handler sends the acknowledgement and waits for its end, if it has  *)
(* a buffer for the next frame.                                            *)
SendAck ==
  /\ rx = "data"
  /\ isAck' = TRUE
  /\ \/ done' = "ownAck" /\ busy' = TRUE /\ stale' = (stale \/ tx)
     \/ done' = done /\ busy' = busy /\ stale' = TRUE
  /\ UNCHANGED <<frameVars, tmr>>

rf_rx_irq_handler ==
  /\ rx # None /\ ~snapshot
  /\ Dispatch
  /\ rx' = None
  /\ \/ busy /\ UNCHANGED <<frameVars, tmr, done, busy, isAck, stale>>
     \/ ~busy /\ (AckOfAudio \/ AckForMac) /\ UNCHANGED busy
     \/ ~busy /\ SendAck
  /\ told' = FALSE
  /\ UNCHANGED <<ringVars, audio_status, air, due, stopping, aborted>>

(* An audio frame has ended, or so it seems. *)
AudioSent ==
  /\ tx
  /\ IF cnt <= maxFrameRetries
     THEN /\ tmr' = hwTimerStart(drv_timer_clear_irq(tmr))
          /\ UNCHANGED <<err, tx>>
     ELSE /\ tl_audioDataSendCnfHandler("failed")
          /\ UNCHANGED tmr
  /\ told' = FALSE
  /\ UNCHANGED <<busy, isAck, stale>>

OtherSent_KeepAck == (* mutant: rf_isAck is not cleared *)
  /\ ~tx
  /\ busy' = FALSE
  /\ told' = ~isAck
  /\ stale' = FALSE
  /\ UNCHANGED <<isAck, err, tx, tmr>>

OtherSent_KeepBusy == (* mutant: TX_BUSY is not cleared *)
  /\ ~tx
  /\ isAck' = FALSE
  /\ told' = ~isAck
  /\ stale' = FALSE
  /\ UNCHANGED <<busy, err, tx, tmr>>

OtherSent ==
  /\ ~tx
  /\ busy' = FALSE
  /\ isAck' = FALSE
  /\ told' = ~isAck
  /\ stale' = FALSE
  /\ UNCHANGED <<err, tx, tmr>>

rf_tx_irq_handler ==
  /\ done # None /\ ~snapshot
  /\ Dispatch
  /\ done' = None
  /\ AudioSent \/ OtherSent
  /\ UNCHANGED <<ringVars, audio_status, cnt, maxFrameRetries, air, rx, due, stopping, aborted>>

AudioTimeOutTxCb ==
  /\ rx' = None /\ done' = None
  /\ air' = "audio" /\ due' = FALSE
  /\ cnt' = cnt + 1

drv_timer_irq0_handler ==
  /\ tmr.irq \/ snapshot
  /\ snapshot' = FALSE
  /\ \/ tmr.status = "WTO" /\ AudioTimeOutTxCb /\ tmr' = Called(tmr)
     \/ tmr.status # "WTO" /\ tmr' = NotArmed(tmr) /\ UNCHANGED <<rx, done, air, due, cnt>>
  /\ told' = FALSE
  /\ UNCHANGED <<ringVars, audio_status, err, tx, maxFrameRetries, busy, isAck, stopping,
                 aborted, stale>>

-----------------------------------------------------------------------------
Next ==
  \/ \E ready \in BOOLEAN : audio_recTaskRun(ready)
  \/ audio_recTaskStart
  \/ tl_audio_stop
  \/ ClearTx
  \/ MacSend
  \/ FrameSent
  \/ \E frame \in {"ack", "data"} : Arrive(frame)
  \/ TimerExpires
  \/ rf_rx_irq_handler
  \/ rf_tx_irq_handler
  \/ drv_timer_irq0_handler

(* Frames end, the timer runs on its own clock, interrupts are taken, and  *)
(* the main loop is not starved by them while the microphone records.      *)
Fairness ==
  /\ WF_vars(FrameSent) /\ WF_vars(TimerExpires)
  /\ WF_vars(rf_rx_irq_handler) /\ WF_vars(rf_tx_irq_handler) /\ WF_vars(drv_timer_irq0_handler)
  /\ SF_vars(audio_recTaskRun(TRUE)) /\ SF_vars(ClearTx)

Spec == Init /\ [][Next]_vars /\ Fairness

-----------------------------------------------------------------------------
(* Properties. *)

(* Every variable has its type; the ring never holds more than its size    *)
(* and the count of retries stays within one byte by far.                  *)
TypeOK ==
  /\ buffer_mic_enc \in [0..RingSize - 1 -> Packet]
  /\ wptr \in 0..CursorMod - 1 /\ rptr \in 0..CursorMod - 1
  /\ (wptr - rptr + CursorMod) % CursorMod <= RingSize
  /\ audio_status \in {"AUDIO_IDLE", "AUDIO_OPENED"}
  /\ audio_delay_times \in 0..Delay /\ audio_discard_packets \in 0..Discards
  /\ out \in Packet \cup {None}
  /\ err \in 0..AudioErrTimes
  /\ cnt \in 0..ManyRetries + FewRetries + 3
  /\ maxFrameRetries \in {FewRetries, ManyRetries}
  /\ tmr \in Timer
  /\ air \in {None, "audio", "mac"} /\ done \in {None, "audio", "mac", "ownAck"}
  /\ rx \in {None, "ack", "data"}
  /\ {tx, due, busy, isAck, snapshot, stopping, told, aborted, stale} \subseteq BOOLEAN

(* Packets go on the air in the order they were recorded, each once; a     *)
(* full ring loses the oldest, whatever the wrapping cursors are when a    *)
(* session starts (audio_rec_proc.c:163-166, 342-363).                     *)
Queue == INSTANCE AudioQueue WITH
  queue <- [k \in 1..(wptr - rptr + CursorMod) % CursorMod |->
              buffer_mic_enc[Slot(rptr + k - 1)]],
  skip <- audio_discard_packets,
  Capacity <- RingSize
QueueSpec == Queue!Spec

(* An audio frame is over some time, acknowledged or given up, and the     *)
(* sender goes on: neither a lost interrupt nor one of another frame       *)
(* leaves the flag set for ever (mac_phy.c:797-811, drv_timer.c:181-211).  *)
TxEnds == tx ~> ~tx

(* A session nobody acknowledges ends by itself (AudioErrTimes): the       *)
(* microphone is not left open (tl_specific_data_audio.c:133-141).         *)
UnheardSessionEnds ==
  \/ []<>(audio_status = "AUDIO_IDLE")
  \/ []<><<AckOfAudio>>_vars
  \/ []<><<audio_status = "AUDIO_OPENED" /\ air # None /\ rptr' # rptr>>_vars

(* The MAC is told of the end of its own frames and of no other.  It is    *)
(* not so after a stop in the middle of an audio frame and after a frame   *)
(* that asked for an acknowledgement came during one (mac_phy.c:797-829).  *)
OnlyMacFramesReported ==
  [][done # None /\ done' = None => (told' <=> done = "mac") \/ aborted \/ stale]_vars

(* TX_BUSY makes the receiver drop everything (mac_phy.c:635): it is set   *)
(* only while the acknowledgement it was set for is being sent, since a    *)
(* frame asked for one during an audio frame, or while an audio frame that *)
(* a stop left behind is sent.                                             *)
HearsAgain == busy /\ ~stale => done \in {"ownAck", "audio"} \/ air = "audio"

(* A frame that was acknowledged or given up is not sent again, although   *)
(* the dispatcher may handle the timer from a status it read before the    *)
(* acknowledgement stopped it (mac_phy.c:643-658, drv_timer.c:177-213).    *)
NotSentAfterAck == [][cnt' > cnt => tx \/ aborted]_vars
=============================================================================
