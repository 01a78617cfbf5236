--------------------------------- MODULE Ota ---------------------------------
(***************************************************************************)
(* Firmware update over the air                                            *)
(* (vendor/common/TL_specificData/tl_specific_data_ota.c) of the remote    *)
(* (RF4CE_CONTROLLER) from the file in the flash of its target             *)
(* (RF4CE_TARGET).                                                         *)
(*                                                                         *)
(* The remote asks for the file block by block and writes its body to the  *)
(* bank it does not run from, without the boot flag.  When the checksums   *)
(* agree it says so to the target, sets the flag of that bank, clears the  *)
(* flag of the other one and resets.                                       *)
(*                                                                         *)
(* Messages are lost, delayed, reordered and delivered twice; every timer  *)
(* races the answers; the power of the remote fails at any step and the    *)
(* target is reset with another file.  Lengths and offsets are counted in  *)
(* units of a few bytes.  The main loop runs handlers and timers one by    *)
(* one, on both sides.  Both sides find an event buffer for each message.  *)
(***************************************************************************)
EXTENDS Integers, Sequences

CONSTANTS
  Frame,       (* OTA_FRAMESIZE: file units in a data response             *)
  HdrLen,      (* the file's header: ota_hdrFields_t, otaHdrLen            *)
  LenAt,       (* where in the header its length is: OTA_HEAD_LENGTH       *)
  SignLen,     (* ota_signInfo_t, between the header and the image         *)
  CrcLen,      (* the checksum the image ends with: FIRMWARECRC_LENGTH     *)
  MaxImage,    (* OTA_MAX_IMAGE_SIZE                                       *)
  ImageAddr,   (* FLASH_OTA_NEWIMAGE_ADDR: bank 1; bank 0 is at address 0  *)
  Retries,     (* STARTREQ_RETRYCNT and DATAREQ_RETRYCNT                   *)
  Sizes,       (* sizes of the files the target may hold                   *)
  FirstSize,   (* size of the file of the image the remote runs at first   *)
  LastVersion, (* bound: newest version of a file                          *)
  MaxSessions, (* bound: sessions started                                  *)
  MaxUpdates,  (* bound: sessions start after fewer than MaxUpdates        *)
               (* restarts from the other bank                             *)
  MaxFaults,   (* bound: messages delivered twice, flash writes that fail  *)
               (* and files replaced                                       *)
  MaxBlock     (* bound: block up to which a session that has failed, and  *)
               (* never reaches the file's end, goes on asking             *)

ASSUME OtaAssumption ==
  /\ {Frame, HdrLen, SignLen, CrcLen, ImageAddr, Retries, LastVersion}
       \subseteq Nat \ {0}
  /\ {MaxImage, MaxSessions, MaxUpdates, MaxFaults, MaxBlock} \subseteq Nat
  /\ LenAt \in 0..(Frame - 1)
  /\ LenAt < HdrLen
  (* The signature field is not split over two blocks: (62 % 48) + 6 <= 48. *)
  /\ (HdrLen % Frame) + SignLen <= Frame
  /\ FirstSize \in Sizes
  /\ \A s \in Sizes : s \in Nat /\ s > HdrLen + SignLen + CrcLen

VARIABLES
  flash,    (* the two banks of the remote                                 *)
  running,  (* the bank the remote runs from                               *)
  rc,       (* the remote's variables of the update                        *)
  pending,  (* timers of ota_callBackRestore that are running              *)
  app,      (* the remote application's state                              *)
  reboot,   (* how far ota_mcuReboot is                                    *)
  file,     (* the file in the target's flash                              *)
  tgt,      (* the target's variables of the update                        *)
  msgs,     (* messages in flight; one that is never delivered is lost     *)
  used      (* what is used of the bounds                                  *)

vars == <<flash, running, rc, pending, app, reboot, file, tgt, msgs, used>>

Bank == {0, 1}

(* A unit of an image; Bad is one the flash did not take.  The byte of the *)
(* image that is its boot flag is left erased, and is kept apart in flag.  *)
Body(s)     == s - HdrLen - SignLen
Image(v, s) == [i \in 1..Body(s) |-> <<v, s, i>>]
Bad         == <<0, 0, 0>>
Whole(d)    == \E v \in 1..LastVersion, s \in Sizes : d = Image(v, s)

NoFile == [ver |-> 0, size |-> 0, ok |-> FALSE]
Files  == [ver : 1..LastVersion, size : Sizes, ok : BOOLEAN]

-----------------------------------------------------------------------------
(* Which bank. *)

BootBank == IF flash[0].flag THEN 0 ELSE 1   (* the chip's choice *)

(* u32, all ones when no bank boots. *)
mcuBootAddrGet ==
  IF flash[0].flag THEN 0 ELSE IF flash[1].flag THEN ImageAddr ELSE -1

BootAddrVar(addr) == addr % 2^8              (* u8 mcuBootAddr *)

NewBank(r) == IF r.boot # 0 THEN 0 ELSE 1

RunningVersion == flash[running].data[1][1]  (* firmwareVersion *)

-----------------------------------------------------------------------------
(* Messages *)

StartReq(v)      == [type |-> "start_req", ver |-> v]
StartRsp(v, s)   == [type |-> "start_rsp", ver |-> v, size |-> s]
DataReq(v, k)    == [type |-> "data_req", ver |-> v, block |-> k]
DataRsp(v, s, k, n) ==   (* n units of block k of the file of size s *)
  [type |-> "data_rsp", ver |-> v, size |-> s, block |-> k, len |-> n]
StopReq(v)       == [type |-> "stop_req", ver |-> v]
StopRsp(v)       == [type |-> "stop_rsp", ver |-> v]

(* m is handled, its handler sends out, and u is used of the bounds.  A    *)
(* message that its handler ignores is left in flight.                     *)
Deliver(m, out, u) ==
  \/ msgs' = (msgs \ {m}) \cup out /\ used' = u
  \/ /\ u.faults < MaxFaults
     /\ msgs' = msgs \cup out
     /\ used' = [u EXCEPT !.faults = @ + 1]

-----------------------------------------------------------------------------
(* The remote starts a session. *)

NoSession ==
  [state |-> "success", retry |-> 0, hcnt |-> 0, hsize |-> 0, count |-> 0,
   offset |-> 0, crc |-> <<>>, ver |-> 0, size |-> 0, boot |-> 0,
   auto |-> "none", try |-> FALSE]

Init ==
  /\ flash = [b \in Bank |->
                [flag |-> b = 0,
                 data |-> IF b = 0 THEN Image(1, FirstSize) ELSE <<>>]]
  /\ running = 0
  /\ rc = NoSession
  /\ pending = 0
  /\ app = "ready"
  /\ reboot = "none"
  /\ file \in {NoFile} \cup {f \in Files : f.ver = 2}
  /\ tgt = [ver |-> 0, size |-> 0, valid |-> TRUE]
  /\ msgs = {}
  /\ used = [sessions |-> 0, updates |-> 0, faults |-> 0]

RemoteRuns == reboot = "none" /\ UNCHANGED <<running, file, tgt>>

(* app_startOta, ota_startReq, ota_initInfo; ota_state keeps its value. *)
ota_startReq ==
  /\ RemoteRuns
  /\ app = "ready"
  /\ used.sessions < MaxSessions
  /\ used.updates < MaxUpdates
  /\ used' = [used EXCEPT !.sessions = @ + 1]
  /\ app' = "ota"
  /\ rc' = [NoSession EXCEPT !.state = rc.state,
                             !.retry = Retries,
                             !.boot = BootAddrVar(mcuBootAddrGet),
                             !.auto = "start"]
  /\ UNCHANGED <<flash, pending, reboot, msgs>>

Failed(r) == [r EXCEPT !.state = "failed"]

(* A polling timer: send again, or give up.  (The count then wraps, which  *)
(* nothing reads.)                                                         *)
Poll(m) ==
  /\ rc.retry > 0
  /\ rc' = [rc EXCEPT !.retry = @ - 1]
  /\ msgs' = msgs \cup {m}
  /\ UNCHANGED <<flash, pending, app, reboot, used>>

GiveUp(r) ==
  /\ rc.retry = 0
  /\ rc' = Failed(r)
  /\ pending' = pending + 1
  /\ UNCHANGED <<flash, app, reboot, msgs, used>>

ota_startReqCb ==
  /\ RemoteRuns
  /\ rc.auto = "start"
  /\ Poll(StartReq(RunningVersion)) \/ GiveUp([rc EXCEPT !.auto = "none"])

ota_dataTryReqCb ==
  /\ RemoteRuns
  /\ rc.try
  /\ Poll(DataReq(rc.ver, rc.count)) \/ GiveUp([rc EXCEPT !.try = FALSE])

ota_stopRspCb ==
  /\ RemoteRuns
  /\ rc.auto = "stop"
  /\ Poll(StopReq(rc.ver)) \/ GiveUp([rc EXCEPT !.auto = "none"])

(* ota_dataReqCb *)
Asking_NoTimer(r) == (* mutant: the request is not repeated *)
  [r EXCEPT !.retry = Retries, !.try = FALSE]
Asking(r) == [r EXCEPT !.retry = Retries, !.try = TRUE]

-----------------------------------------------------------------------------
(* The remote handles answers. *)

Erase(b) == flash' = [flash EXCEPT ![b] = [flag |-> FALSE, data |-> <<>>]]

Accepted(m) == m.ver > RunningVersion

ota_startRspHandler(m) ==
  /\ RemoteRuns
  /\ m.type = "start_rsp"
  /\ UNCHANGED <<app, reboot>>
  /\ LET r == [rc EXCEPT !.ver = m.ver, !.size = m.size, !.auto = "none"]
         s == Asking([r EXCEPT !.state = "starting"])
     IN  \/ /\ Accepted(m) /\ m.size < MaxImage
            /\ rc' = s
            /\ Erase(NewBank(rc))
            /\ Deliver(m, {DataReq(s.ver, s.count)}, used)
            /\ UNCHANGED pending
         \/ /\ ~(Accepted(m) /\ m.size < MaxImage)
            /\ rc' = [Failed(IF Accepted(m) THEN r ELSE rc)
                        EXCEPT !.retry = 0, !.auto = "none"]
            /\ pending' = pending + 1
            /\ Deliver(m, {}, used)
            /\ UNCHANGED flash

(* ota_DataProcess.  The fields of the header are taken from where they    *)
(* should be: a block that is not the first one leaves values no file has. *)
(* The image starts SignLen after the header's end.                        *)
HasFields(r, n) == r.state = "starting" /\ LenAt \in r.hcnt..(r.hcnt + n - 1)

HeaderSize(r, m) ==
  IF ~HasFields(r, m.len) THEN r.hsize ELSE IF m.block = 0 THEN HdrLen ELSE 0

HeaderVer(r, m) ==
  IF ~HasFields(r, m.len) THEN r.ver ELSE IF m.block = 0 THEN m.ver ELSE -1

HeaderEnds(r, m) ==
  /\ r.state = "starting"
  /\ HeaderSize(r, m) # 0
  /\ HeaderSize(r, m) - r.hcnt \in 0..(m.len - 1)

Skipped(r, m) ==
  IF HeaderEnds(r, m) THEN HeaderSize(r, m) - r.hcnt + SignLen ELSE 0

BodyUnits(r, m) ==
  IF r.state = "dataing" \/ HeaderEnds(r, m)
  THEN LET skip == Skipped(r, m)
       IN  [i \in 1..(m.len - skip) |->
              <<m.ver, m.size, m.block * Frame + skip + i - HdrLen - SignLen>>]
  ELSE <<>>

(* How many of the n units that end at hcnt the checksum is taken of. *)
Summed(r, skip, n) ==
  LET start == r.hcnt + skip
      end   == start + n
      over  == end - (r.size - CrcLen)
  IN  IF over <= 0 THEN n
      ELSE IF start > r.size - CrcLen \/ n <= over THEN 0
      ELSE n - over

Parsed(r, m) ==
  LET skip == Skipped(r, m)
      data == BodyUnits(r, m)
  IN  IF r.state \in {"starting", "dataing"}
      THEN [r EXCEPT !.state = IF HeaderEnds(r, m) THEN "dataing" ELSE @,
                     !.hsize = HeaderSize(r, m),
                     !.ver = HeaderVer(r, m),
                     !.hcnt = @ + m.len,
                     !.offset = @ + Len(data),
                     !.crc = @ \o SubSeq(data, 1, Summed(r, skip, Len(data)))]
      ELSE r

(* Programming what is not erased gives neither value. *)
Written(d, at, u) ==
  LET end == at + Len(u)
  IN  [i \in 1..(IF end > Len(d) THEN end ELSE Len(d)) |->
         IF i \in (at + 1)..end
         THEN IF i <= Len(d) THEN Bad ELSE u[i - at]
         ELSE IF i <= Len(d) THEN d[i] ELSE Bad]

(* The checksum at the end of the bank is of the units received, and the   *)
(* image in the bank agrees with it (verifyFirmwareCrc).                   *)
Verified_SumOnly(r, d) == (* mutant: what the flash took is not read back *)
  \E v \in 1..LastVersion, s \in Sizes :
    r.crc = SubSeq(Image(v, s), 1, Body(s) - CrcLen)
Verified(r, d) ==
  /\ r.hsize = HdrLen
  /\ \E v \in 1..LastVersion, s \in Sizes :
       /\ d = Image(v, s)
       /\ r.size = s
       /\ r.crc = SubSeq(d, 1, Body(s) - CrcLen)

Expected_AnyBlock(m) == m.ver = rc.ver (* mutant: late answers are taken *)
Expected(m) == m.ver = rc.ver /\ m.block = rc.count

(* A response without data, which is what a file of whole frames ends in.  *)
EmptyRsp(m) ==
  /\ m.len = 0
  /\ rc' = Failed([rc EXCEPT !.auto = "none", !.try = FALSE])
  /\ pending' = pending + 1
  /\ Deliver(m, {}, used)
  /\ UNCHANGED flash

(* The block is processed; `failed' is 1 when the flash does not take it.  *)
(* What follows does not depend on that.                                   *)
BlockRsp(m, failed) ==
  LET data == BodyUnits(rc, m)
      unit == IF failed = 1 THEN [i \in DOMAIN data |-> Bad] ELSE data
      r1   == [Parsed(rc, m) EXCEPT !.auto = "none", !.try = FALSE,
                                    !.count = @ + 1]
      r    == IF failed = 1 THEN Failed(r1) ELSE r1
      bank == IF data = <<>> THEN flash[NewBank(rc)].data
              ELSE Written(flash[NewBank(rc)].data, rc.offset, unit)
      u    == [used EXCEPT !.faults = @ + failed]
  IN  /\ m.len > 0
      /\ failed = 1 => data # <<>> /\ used.faults < MaxFaults
      /\ flash' = [flash EXCEPT ![NewBank(rc)].data = bank]
      /\ \/ /\ r.hcnt < r.size
            /\ rc' = Asking(r)
            /\ pending' = pending + failed
            /\ Deliver(m, {DataReq(r.ver, r.count)}, u)
         \/ /\ ~(r.hcnt < r.size)
            /\ Verified(r, bank)
            /\ rc' = [r EXCEPT !.state = "success", !.retry = Retries,
                               !.auto = "stop"]
            /\ pending' = pending + failed
            /\ Deliver(m, {}, u)
         \/ /\ ~(r.hcnt < r.size)
            /\ ~Verified(r, bank)
            /\ rc' = Failed(r)
            /\ pending' = pending + failed + 1
            /\ Deliver(m, {}, u)

ota_dataRspHandler(m) ==
  /\ RemoteRuns
  /\ m.type = "data_rsp"
  /\ Expected(m)
  /\ rc.count <= MaxBlock
  /\ EmptyRsp(m) \/ \E failed \in {0, 1} : BlockRsp(m, failed)
  /\ UNCHANGED <<app, reboot>>

ota_stopRspHandler(m) ==
  /\ RemoteRuns
  /\ m.type = "stop_rsp"
  /\ rc' = IF m.ver = rc.ver THEN [rc EXCEPT !.auto = "none"] ELSE Failed(rc)
  /\ pending' = pending + 1
  /\ Deliver(m, {}, used)
  /\ UNCHANGED <<flash, app, reboot>>

-----------------------------------------------------------------------------
(* The end of a session: app_otaStateCb and ota_mcuReboot. *)

ota_callBackRestore ==
  /\ RemoteRuns
  /\ pending > 0
  /\ pending' = pending - 1
  /\ IF rc.state = "success" THEN reboot' = "flag" /\ UNCHANGED app
                             ELSE app' = "ready" /\ UNCHANGED reboot
  /\ UNCHANGED <<flash, rc, msgs, used>>

WriteFlag ==
  /\ reboot = "flag"
  /\ reboot' = "clear"
  /\ flash' = [flash EXCEPT ![NewBank(rc)].flag = TRUE]
  /\ UNCHANGED <<running, rc, pending, app, file, tgt, msgs, used>>

ClearFlag ==
  /\ reboot = "clear"
  /\ reboot' = "reset"
  /\ flash' = [flash EXCEPT ![1 - NewBank(rc)].flag = FALSE]
  /\ UNCHANGED <<running, rc, pending, app, file, tgt, msgs, used>>

(* The remote starts again: its RAM is lost, and so are the messages in    *)
(* flight, which do not last as long.                                      *)
Restart ==
  /\ running' = BootBank
  /\ rc' = NoSession
  /\ pending' = 0
  /\ app' = "ready"
  /\ reboot' = "none"
  /\ msgs' = {}
  /\ used' = IF BootBank = running THEN used
             ELSE [used EXCEPT !.updates = @ + 1]
  /\ UNCHANGED <<file, tgt>>

SystemReset ==
  /\ reboot = "reset"
  /\ Restart
  /\ UNCHANGED flash

(* The battery fails, perhaps while the new bank is erased or written. *)
PowerLoss ==
  /\ Restart
  /\ \/ UNCHANGED flash
     \/ /\ reboot = "none"
        /\ rc.try
        /\ flash' = [flash EXCEPT ![NewBank(rc)].data = <<Bad>>]

-----------------------------------------------------------------------------
(* The target *)

TargetRuns == UNCHANGED <<flash, running, rc, pending, app, reboot, file>>

ota_startReqHandler(m) ==
  /\ TargetRuns
  /\ m.type = "start_req"
  /\ tgt' = [ver   |-> file.ver,
             size  |-> file.size,
             valid |-> IF file.ver = 0 THEN tgt.valid
                       ELSE m.ver < file.ver /\ file.ok /\ file.size < MaxImage]
  /\ Deliver(m, {StartRsp(file.ver, file.size)}, used)

BlockLen_Rest(s, k) == (* mutant: the rest of the file *)
  IF k * Frame + Frame < s THEN Frame ELSE s - k * Frame
BlockLen(s, k) ==
  IF k * Frame + Frame < s THEN Frame ELSE s % Frame

(* A request of another file gets a header without a payload (721-741).    *)
(* The remote reads on in its buffer, where there is either no answer to   *)
(* its request, or one it has had before: that is a repeated answer, which *)
(* Deliver has for every message, and needs no message of its own.         *)
ota_dataReqHandler(m) ==
  /\ TargetRuns
  /\ m.type = "data_req"
  /\ LET known == m.ver = tgt.ver /\ tgt.valid
         n     == BlockLen(tgt.size, m.block)
         rsp   == DataRsp(tgt.ver, tgt.size, m.block, n)
     IN  Deliver(m, IF known THEN {rsp} ELSE {}, used)
  /\ UNCHANGED tgt

ota_stopReqHandler(m) ==
  /\ TargetRuns
  /\ m.type = "stop_req"
  /\ Deliver(m, IF m.ver = tgt.ver THEN {StopRsp(m.ver)} ELSE {}, used)
  /\ UNCHANGED tgt

(* Another file is programmed into the target, which starts again with     *)
(* ota_state 0, OTA_BIN_VALID.                                             *)
LoadFile ==
  /\ used.faults < MaxFaults
  /\ used' = [used EXCEPT !.faults = @ + 1]
  /\ \E f \in Files : f.ver > file.ver /\ file' = f
  /\ tgt' = [ver |-> 0, size |-> 0, valid |-> TRUE]
  /\ msgs' = {}
  /\ UNCHANGED <<flash, running, rc, pending, app, reboot>>

-----------------------------------------------------------------------------
tl_appOtaCmdHandler ==
  \E m \in msgs :
    \/ ota_startRspHandler(m)
    \/ ota_dataRspHandler(m)
    \/ ota_stopRspHandler(m)
    \/ ota_startReqHandler(m)
    \/ ota_dataReqHandler(m)
    \/ ota_stopReqHandler(m)

Timers ==
  \/ ota_startReqCb
  \/ ota_dataTryReqCb
  \/ ota_stopRspCb
  \/ ota_callBackRestore

Rebooting == WriteFlag \/ ClearFlag \/ SystemReset

Next ==
  \/ ota_startReq
  \/ tl_appOtaCmdHandler
  \/ Timers
  \/ Rebooting
  \/ PowerLoss
  \/ LoadFile

Spec == Init /\ [][Next]_vars

(* The main loop does not stop serving timers that are due, in any order,  *)
(* and ota_mcuReboot runs to its end.  The network owes nothing.           *)
Fairness == WF_vars(Timers \/ Rebooting)

FairSpec == Spec /\ Fairness

-----------------------------------------------------------------------------
(* The variables have their types; a data response has at most a frame,    *)
(* the header count stays below the file's end plus one frame for every    *)
(* block asked (ota_dataReqHandler, ota_DataProcess).                      *)
TypeOK ==
  /\ DOMAIN flash = Bank /\ \A b \in Bank : flash[b].flag \in BOOLEAN
  /\ running \in Bank
  /\ rc.state \in {"success", "failed", "starting", "dataing"}
  /\ rc.retry \in 0..Retries
  /\ rc.count \in 0..(MaxBlock + 1)
  /\ rc.hcnt \in 0..(rc.count * Frame)
  /\ rc.offset \in 0..rc.hcnt
  /\ rc.auto \in {"none", "start", "stop"}
  /\ rc.boot \in 0..255
  /\ pending \in Nat
  /\ app \in {"ready", "ota"}
  /\ reboot \in {"none", "flag", "clear", "reset"}
  /\ \A m \in msgs : m.type = "data_rsp" => m.len \in 0..Frame

(* Whenever the supply fails, the chip finds a flagged bank, and the image *)
(* in it is whole: ota_mcuReboot runs only with a verified image, and sets *)
(* the new flag before it clears the old one.                              *)
BootsWhole ==
  flash[BootBank].flag /\ Whole(flash[BootBank].data)

(* While the body is received in step, the bank holds the part of the      *)
(* image that the counters say: no block twice, none missing, none of      *)
(* another file, whatever the network does (ota_dataRspHandler).  Answers  *)
(* to a session that failed are counted and not written, so that a start   *)
(* response after them (ota_startRspHandler resumes the session) leaves    *)
(* the counters out of step; then only the checksums are left.             *)
DataInOrder ==
  rc.state = "dataing" /\ rc.ver # 0 /\ rc.hcnt = rc.count * Frame =>
    /\ flash[NewBank(rc)].data = SubSeq(Image(rc.ver, rc.size), 1, rc.offset)
    /\ rc.hcnt = HdrLen + SignLen + rc.offset

(* The application learns of the end of every session, or the remote       *)
(* starts again: the timers see to it without any answer.                  *)
SessionReported == app = "ota" ~> app = "ready"

(* mcuBootAddrGet's comment says 0 for a boot from 0 and 1 for a boot from *)
(* 0x40000; with either the bank a session erases is the other one.        *)
RunningBankSpared == app = "ota" => NewBank(rc) # running
=============================================================================
