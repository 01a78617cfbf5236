----------------------------- MODULE Ota_proofs -----------------------------
(***************************************************************************)
(* A remote always boots a whole image, for every number of sessions, of   *)
(* updates, of power failures and of messages lost, repeated or late, and  *)
(* for every file and every length - as long as a session spares the bank  *)
(* the remote runs from.  That it does not from bank 1 on is the finding   *)
(* about BootAddrVar.                                                      *)
(*                                                                         *)
(* The inductive invariant follows the two flags: a flagged bank is whole, *)
(* a bank that is being written is not flagged, and a state of success     *)
(* means a whole bank, or a session that has not been answered yet, whose  *)
(* state is left from before and which no message can end.                 *)
(*                                                                         *)
(* The second half is the data: a session in step has in flash the blocks  *)
(* of the target's file that its counters say, in order.                   *)
(***************************************************************************)
EXTENDS Ota, SequenceTheorems, TLAPS

Fields ==
  {"state", "retry", "hcnt", "hsize", "count", "offset", "crc", "ver", "size", "boot", "auto",
   "try"}

Shape ==
  /\ DOMAIN rc = Fields
  /\ DOMAIN flash = Bank /\ \A b \in Bank : DOMAIN flash[b] = {"flag", "data"}
  /\ running \in Bank /\ pending \in Nat
  /\ reboot \in {"none", "flag", "clear", "reset"}

New == NewBank(rc)

(* Nothing has happened since the remote started. *)
Idle == rc = NoSession /\ msgs = {} /\ pending = 0 /\ reboot = "none"

Spared == Idle \/ New # running

Flagged == \A b \in Bank : flash[b].flag => Whole(flash[b].data)

Bootable ==
  /\ reboot \in {"none", "flag"} => flash[running].flag
  /\ reboot \in {"clear", "reset"} => flash[New].flag

Writes == rc.state \in {"starting", "dataing"}

Transfer == {"data_req", "data_rsp"}

Unflagged ==
  /\ reboot = "none"
  /\ rc.try \/ Writes \/ \E m \in msgs : m.type \in Transfer
  => ~flash[New].flag

(* No message or timer can end the session with success. *)
Unanswered ==
  /\ pending = 0 /\ rc.auto # "stop"
  /\ \A m \in msgs : m.type # "stop_req" /\ m.type # "stop_rsp"

Success ==
  rc.state = "success" =>
    /\ ~(rc.hcnt < rc.size)
    /\ Whole(flash[New].data) \/ Unanswered

Reboots == reboot # "none" => Whole(flash[New].data)

IInv == Shape /\ Spared /\ Flagged /\ Bootable /\ Unflagged /\ Success /\ Reboots

-----------------------------------------------------------------------------
(* A delivery takes at most the message away.                              *)
LEMMA Delivered ==
  ASSUME NEW m, NEW out, NEW u, Deliver(m, out, u)
  PROVE  \A k \in msgs' : k \in msgs \/ k \in out
BY DEF Deliver

(* Which bank a session writes is told by its copy of the boot address.    *)
LEMMA SameBank ==
  ASSUME rc'.boot = rc.boot
  PROVE  New' = New /\ New \in Bank
BY DEF New, NewBank, Bank

(* A block received outside of a transfer moves no counter of the header.  *)
LEMMA ParsedIs ==
  ASSUME NEW m, DOMAIN rc = Fields
  PROVE  LET p == Parsed(rc, m)
         IN  /\ DOMAIN p = Fields /\ p.boot = rc.boot /\ p.size = rc.size
             /\ Writes => p.state \in {"starting", "dataing"}
             /\ ~Writes => p.state = rc.state /\ p.hcnt = rc.hcnt
<1> DEFINE p == Parsed(rc, m)
<1>1. CASE Writes
  <2>1. p = [rc EXCEPT !.state = IF HeaderEnds(rc, m) THEN "dataing" ELSE @,
                       !.hsize = HeaderSize(rc, m),
                       !.ver = HeaderVer(rc, m),
                       !.hcnt = @ + m.len,
                       !.offset = @ + Len(BodyUnits(rc, m)),
                       !.crc = @ \o SubSeq(BodyUnits(rc, m), 1,
                                     Summed(rc, Skipped(rc, m), Len(BodyUnits(rc, m))))]
    BY <1>1, Zenon DEF Parsed, Writes
  <2>2. DOMAIN p = Fields /\ p.boot = rc.boot /\ p.size = rc.size
    BY <2>1 DEF Fields
  <2>3. p.state = (IF HeaderEnds(rc, m) THEN "dataing" ELSE rc.state)
    BY <2>1 DEF Fields
  <2> QED BY <1>1, <2>2, <2>3 DEF Writes
<1>2. CASE ~Writes
  <2>1. p = rc
    BY <1>2, Zenon DEF Parsed, Writes
  <2> QED BY <1>2, <2>1
<1> QED BY <1>1, <1>2

-----------------------------------------------------------------------------
(* The remote starts on an image that is flagged and whole.                *)
LEMMA InitIInv == Init => IInv
<1> SUFFICES ASSUME Init PROVE IInv
  OBVIOUS
<1>0. flash[0].data = Image(1, FirstSize) /\ flash[0].flag /\ ~flash[1].flag
  <2>1. 0 \in Bank /\ 1 \in Bank /\ 1 # 0
    BY DEF Bank
  <2>2. /\ flash[0].data = (IF 0 = 0 THEN Image(1, FirstSize) ELSE <<>>)
        /\ flash[0].flag = (0 = 0) /\ flash[1].flag = (1 = 0)
    <3>1. flash = [b \in Bank |->
                     [flag |-> b = 0,
                      data |-> IF b = 0 THEN Image(1, FirstSize) ELSE <<>>]]
      BY DEF Init
    <3>2. \A b \in Bank : /\ flash[b].flag = (b = 0)
                          /\ flash[b].data = (IF b = 0 THEN Image(1, FirstSize) ELSE <<>>)
      BY <3>1, Zenon
    <3> QED BY <2>1, <3>2, Zenon
  <2> QED BY <2>1, <2>2, Zenon
<1>2. Whole(Image(1, FirstSize))
  <2>1. LastVersion \in Nat \ {0} /\ FirstSize \in Sizes
    BY OtaAssumption
  <2>2. 1 \in 1..LastVersion
    BY <2>1
  <2> QED BY <2>1, <2>2 DEF Whole
<1> USE DEF Init, Bank
<1>1. Shape /\ Idle
  BY DEF Shape, Idle, NoSession, Fields
<1>3. Flagged
  BY <1>0, <1>2 DEF Flagged
<1>4. Bootable
  BY <1>0 DEF Bootable
<1>5. Unflagged
  BY DEF Unflagged, Writes, NoSession
<1>6. Success /\ Reboots
  BY DEF Success, Reboots, Unanswered, NoSession
<1> QED BY <1>1, <1>3, <1>4, <1>5, <1>6 DEF IInv, Spared

(* A step that writes no flash and leaves the session as it is keeps the   *)
(* invariant if it sends nothing new of what the invariant looks at.       *)
LEMMA QuietStep ==
  ASSUME IInv, UNCHANGED <<flash, running, rc, pending, reboot>>,
         Idle => msgs' = {},
         \A m \in msgs' : m.type \in Transfer => \E k \in msgs : k.type \in Transfer,
         \A m \in msgs' : m.type \in {"stop_req", "stop_rsp"} =>
           \E k \in msgs : k.type \in {"stop_req", "stop_rsp"}
  PROVE  IInv'
<1>1. Shape' /\ Flagged' /\ Bootable' /\ Reboots' /\ New' = New
  BY DEF IInv, Shape, Flagged, Bootable, Reboots, New, NewBank
<1>2. Spared'
  BY <1>1 DEF IInv, Spared, Idle
<1>3. Unflagged'
  BY <1>1 DEF IInv, Unflagged, Writes
<1>4. Success'
  BY <1>1 DEF IInv, Success, Unanswered
<1> QED BY <1>1, <1>2, <1>3, <1>4 DEF IInv

(* The target answers; it asks nothing of its own (ota_startReqHandler,    *)
(* ota_dataReqHandler, ota_stopReqHandler).                                *)
LEMMA TargetStep ==
  ASSUME IInv, NEW m \in msgs,
         ota_startReqHandler(m) \/ ota_dataReqHandler(m) \/ ota_stopReqHandler(m)
  PROVE  IInv'
<1>0. ~Idle
  BY DEF Idle
<1>1. UNCHANGED <<flash, running, rc, pending, reboot>>
  BY DEF ota_startReqHandler, ota_dataReqHandler, ota_stopReqHandler, TargetRuns
<1>2. CASE ota_startReqHandler(m)
  <2>1. \A k \in msgs' : k \in msgs \/ k.type = "start_rsp"
    BY <1>2, Delivered DEF ota_startReqHandler, StartRsp
  <2> QED BY <1>0, <1>1, <2>1, QuietStep DEF Transfer
<1>3. CASE ota_dataReqHandler(m)
  <2>1. m.type \in Transfer /\ \A k \in msgs' : k \in msgs \/ k.type = "data_rsp"
    BY <1>3, Delivered DEF ota_dataReqHandler, DataRsp, Transfer
  <2> QED BY <1>0, <1>1, <2>1, QuietStep
<1>4. CASE ota_stopReqHandler(m)
  <2>1. m.type = "stop_req" /\ \A k \in msgs' : k \in msgs \/ k.type = "stop_rsp"
    BY <1>4, Delivered DEF ota_stopReqHandler, StopRsp
  <2> QED BY <1>0, <1>1, <2>1, QuietStep DEF Transfer
<1> QED BY <1>2, <1>3, <1>4

(* The target gets another file.                                           *)
LEMMA LoadFileStep ==
  ASSUME IInv, LoadFile
  PROVE  IInv'
BY QuietStep DEF LoadFile

-----------------------------------------------------------------------------
(* A new session writes the bank the last one wrote: neither is the one    *)
(* the remote runs from.                                                   *)
LEMMA StartStep ==
  ASSUME IInv, RunningBankSpared', ota_startReq
  PROVE  IInv'
<1>1. /\ UNCHANGED <<flash, pending, reboot, msgs, running>>
      /\ reboot = "none" /\ app' = "ota"
  BY DEF ota_startReq, RemoteRuns
<1>2. /\ DOMAIN rc' = Fields /\ rc'.state = rc.state /\ rc'.auto = "start" /\ ~rc'.try
      /\ rc'.hcnt = 0 /\ rc'.size = 0
  BY DEF ota_startReq, NoSession, Fields
<1>3. Shape' /\ Reboots' /\ New' # running'
  BY <1>1, <1>2 DEF IInv, Shape, Reboots, RunningBankSpared, New
<1>4. Flagged' /\ Bootable'
  BY <1>1 DEF IInv, Flagged, Bootable
<1>5. ~Idle => New' = New
  BY <1>1, <1>3 DEF IInv, Spared, Shape, New, NewBank, Bank
<1>6. Unflagged'
  BY <1>1, <1>2, <1>5 DEF IInv, Unflagged, Writes, Idle, NoSession
<1>7. Success'
  <2>1. CASE Idle
    BY <1>1, <1>2, <2>1 DEF Success, Unanswered, Idle
  <2>2. CASE ~Idle
    BY <1>1, <1>2, <1>5, <2>2 DEF IInv, Success, Unanswered
  <2> QED BY <2>1, <2>2
<1> QED BY <1>3, <1>4, <1>6, <1>7 DEF IInv, Spared

(* A timer asks again.                                                     *)
LEMMA PollStep ==
  ASSUME IInv, RemoteRuns, ~Idle, NEW m, Poll(m),
         m.type \in Transfer => rc.try,
         m.type \in {"stop_req", "stop_rsp"} => rc.auto = "stop"
  PROVE  IInv'
<1>1. /\ UNCHANGED <<flash, pending, app, reboot, running>>
      /\ reboot = "none"
      /\ rc' = [rc EXCEPT !.retry = @ - 1] /\ msgs' = msgs \cup {m}
  BY DEF RemoteRuns, Poll
<1>2. /\ DOMAIN rc' = Fields /\ rc'.state = rc.state /\ rc'.auto = rc.auto /\ rc'.try = rc.try
      /\ rc'.hcnt = rc.hcnt /\ rc'.size = rc.size /\ rc'.boot = rc.boot
  BY <1>1 DEF IInv, Shape, Fields
<1>3. Shape' /\ Flagged' /\ Bootable' /\ Reboots' /\ New' = New /\ Spared'
  BY <1>1, <1>2, SameBank DEF IInv, Shape, Flagged, Bootable, Reboots, Spared
<1>4. Unflagged'
  BY <1>1, <1>2, <1>3 DEF IInv, Unflagged, Writes
<1>5. Success'
  BY <1>1, <1>2, <1>3 DEF IInv, Success, Unanswered
<1> QED BY <1>3, <1>4, <1>5 DEF IInv

(* The session fails, and nothing is written.                              *)
LEMMA FailStep ==
  ASSUME IInv, RemoteRuns, ~Idle, UNCHANGED <<flash, reboot>>,
         DOMAIN rc' = Fields, rc'.state = "failed", rc'.boot = rc.boot,
         rc'.try => rc.try, pending' = pending + 1,
         \A m \in msgs' : m.type \in Transfer => m \in msgs
  PROVE  IInv'
<1>1. reboot = "none" /\ UNCHANGED running
  BY DEF RemoteRuns
<1>2. Shape' /\ Flagged' /\ Bootable' /\ Reboots' /\ New' = New /\ Spared'
  BY <1>1, SameBank DEF IInv, Shape, Flagged, Bootable, Reboots, Spared
<1>3. Unflagged' /\ Success'
  BY <1>1, <1>2 DEF IInv, Unflagged, Success, Writes
<1> QED BY <1>2, <1>3 DEF IInv

(* The polling timers of the remote.                                       *)
LEMMA TimerStep ==
  ASSUME IInv, ota_startReqCb \/ ota_dataTryReqCb \/ ota_stopRspCb
  PROVE  IInv'
<1>1. DOMAIN rc = Fields
  BY DEF IInv, Shape
<1>2. CASE ota_startReqCb
  <2>1. RemoteRuns /\ ~Idle
    BY <1>2 DEF ota_startReqCb, Idle, NoSession
  <2>2. CASE Poll(StartReq(RunningVersion))
    BY <2>1, <2>2, PollStep DEF StartReq, Transfer
  <2>3. CASE GiveUp([rc EXCEPT !.auto = "none"])
    <3>1. /\ rc' = [[rc EXCEPT !.auto = "none"] EXCEPT !.state = "failed"]
          /\ UNCHANGED <<flash, reboot, msgs>> /\ pending' = pending + 1
      BY <2>3 DEF GiveUp, Failed
    <3>2. DOMAIN rc' = Fields /\ rc'.state = "failed" /\ rc'.boot = rc.boot /\ rc'.try = rc.try
      BY <1>1, <3>1 DEF Fields
    <3> QED BY <2>1, <3>1, <3>2, FailStep
  <2> QED BY <1>2, <2>2, <2>3 DEF ota_startReqCb
<1>3. CASE ota_dataTryReqCb
  <2>1. RemoteRuns /\ ~Idle /\ rc.try
    BY <1>3 DEF ota_dataTryReqCb, Idle, NoSession
  <2>2. CASE Poll(DataReq(rc.ver, rc.count))
    BY <2>1, <2>2, PollStep DEF DataReq
  <2>3. CASE GiveUp([rc EXCEPT !.try = FALSE])
    <3>1. /\ rc' = [[rc EXCEPT !.try = FALSE] EXCEPT !.state = "failed"]
          /\ UNCHANGED <<flash, reboot, msgs>> /\ pending' = pending + 1
      BY <2>3 DEF GiveUp, Failed
    <3>2. DOMAIN rc' = Fields /\ rc'.state = "failed" /\ rc'.boot = rc.boot /\ ~rc'.try
      BY <1>1, <3>1 DEF Fields
    <3> QED BY <2>1, <3>1, <3>2, FailStep
  <2> QED BY <1>3, <2>2, <2>3 DEF ota_dataTryReqCb
<1>4. CASE ota_stopRspCb
  <2>1. RemoteRuns /\ ~Idle /\ rc.auto = "stop"
    BY <1>4 DEF ota_stopRspCb, Idle, NoSession
  <2>2. CASE Poll(StopReq(rc.ver))
    BY <2>1, <2>2, PollStep DEF StopReq, Transfer
  <2>3. CASE GiveUp([rc EXCEPT !.auto = "none"])
    <3>1. /\ rc' = [[rc EXCEPT !.auto = "none"] EXCEPT !.state = "failed"]
          /\ UNCHANGED <<flash, reboot, msgs>> /\ pending' = pending + 1
      BY <2>3 DEF GiveUp, Failed
    <3>2. DOMAIN rc' = Fields /\ rc'.state = "failed" /\ rc'.boot = rc.boot /\ rc'.try = rc.try
      BY <1>1, <3>1 DEF Fields
    <3> QED BY <2>1, <3>1, <3>2, FailStep
  <2> QED BY <1>4, <2>2, <2>3 DEF ota_stopRspCb
<1> QED BY <1>2, <1>3, <1>4

-----------------------------------------------------------------------------
(* The transfer begins: the other bank is erased, or nothing happens.      *)
LEMMA StartRspStep ==
  ASSUME IInv, NEW m \in msgs, ota_startRspHandler(m)
  PROVE  IInv'
<1> DEFINE r == [rc EXCEPT !.ver = m.ver, !.size = m.size, !.auto = "none"]
           s == Asking([r EXCEPT !.state = "starting"])
<1>0. RemoteRuns /\ ~Idle /\ reboot = "none" /\ UNCHANGED <<reboot, running>>
  BY DEF ota_startRspHandler, Idle, RemoteRuns
<1>1. CASE rc' = s /\ Erase(New) /\ UNCHANGED pending
  <2>1. DOMAIN rc' = Fields /\ rc'.state = "starting" /\ rc'.boot = rc.boot
    BY <1>1 DEF IInv, Shape, Fields, Asking
  <2>2. New' = New /\ New \in Bank /\ New # running
    BY <1>0, <2>1, SameBank DEF IInv, Spared
  <2>3. flash' = [flash EXCEPT ![New] = [flag |-> FALSE, data |-> <<>>]]
    BY <1>1 DEF Erase
  <2>4. /\ DOMAIN flash' = Bank /\ ~flash'[New].flag
        /\ \A b \in Bank : b # New => flash'[b] = flash[b]
        /\ \A b \in Bank : DOMAIN flash'[b] = {"flag", "data"}
    BY <2>2, <2>3 DEF IInv, Shape
  <2>5. Shape' /\ Flagged' /\ Spared'
    BY <1>0, <1>1, <2>1, <2>2, <2>4 DEF IInv, Shape, Flagged, Spared
  <2>6. Bootable' /\ Reboots'
    BY <1>0, <2>2, <2>4 DEF IInv, Shape, Bootable, Reboots
  <2>7. Unflagged' /\ Success'
    BY <2>1, <2>2, <2>4 DEF Unflagged, Success
  <2> QED BY <2>5, <2>6, <2>7 DEF IInv
<1>2. CASE /\ rc' = [Failed(IF Accepted(m) THEN r ELSE rc) EXCEPT !.retry = 0, !.auto = "none"]
           /\ pending' = pending + 1 /\ UNCHANGED flash /\ Deliver(m, {}, used)
  <2>1. DOMAIN rc' = Fields /\ rc'.state = "failed" /\ rc'.boot = rc.boot /\ rc'.try = rc.try
    <3>1. CASE Accepted(m)
      <4>1. rc' = [Failed(r) EXCEPT !.retry = 0, !.auto = "none"]
        BY <1>2, <3>1
      <4> QED BY <4>1 DEF IInv, Shape, Fields, Failed
    <3>2. CASE ~Accepted(m)
      <4>1. rc' = [Failed(rc) EXCEPT !.retry = 0, !.auto = "none"]
        BY <1>2, <3>2
      <4> QED BY <4>1 DEF IInv, Shape, Fields, Failed
    <3> QED BY <3>1, <3>2
  <2>2. \A k \in msgs' : k \in msgs
    BY <1>2, Delivered
  <2> QED BY <1>0, <1>2, <2>1, <2>2, FailStep
<1> QED BY <1>1, <1>2 DEF ota_startRspHandler, New

(* The target has answered the end of the session.                         *)
LEMMA StopRspStep ==
  ASSUME IInv, NEW m \in msgs, ota_stopRspHandler(m)
  PROVE  IInv'
<1>0. /\ RemoteRuns /\ ~Idle /\ reboot = "none" /\ UNCHANGED <<flash, reboot, running>>
      /\ pending' = pending + 1 /\ m.type = "stop_rsp"
  BY DEF ota_stopRspHandler, Idle, RemoteRuns
<1>1. \A k \in msgs' : k \in msgs
  BY Delivered DEF ota_stopRspHandler
<1>2. CASE rc' = [rc EXCEPT !.auto = "none"]
  <2>1. /\ DOMAIN rc' = Fields /\ rc'.state = rc.state /\ rc'.try = rc.try
        /\ rc'.hcnt = rc.hcnt /\ rc'.size = rc.size /\ rc'.boot = rc.boot
    BY <1>2 DEF IInv, Shape, Fields
  <2>2. Shape' /\ Flagged' /\ Bootable' /\ Reboots' /\ New' = New /\ Spared'
    BY <1>0, <2>1, SameBank DEF IInv, Shape, Flagged, Bootable, Reboots, Spared
  <2>3. Unflagged'
    BY <1>0, <1>1, <2>1, <2>2 DEF IInv, Unflagged, Writes
  <2>4. Success'
    BY <1>0, <2>1, <2>2 DEF IInv, Success, Unanswered
  <2> QED BY <2>2, <2>3, <2>4 DEF IInv
<1>3. CASE rc' = Failed(rc)
  <2>1. DOMAIN rc' = Fields /\ rc'.state = "failed" /\ rc'.boot = rc.boot /\ rc'.try = rc.try
    BY <1>3 DEF IInv, Shape, Fields, Failed
  <2> QED BY <1>0, <1>1, <2>1, FailStep
<1> QED BY <1>2, <1>3 DEF ota_stopRspHandler

(* A block is written to a bank that is not flagged, and success means     *)
(* that it holds an image.                                                 *)
LEMMA BlockStep ==
  ASSUME IInv, RemoteRuns, UNCHANGED reboot, NEW m \in msgs, m.type = "data_rsp",
         NEW failed \in {0, 1}, BlockRsp(m, failed)
  PROVE  IInv'
<1> DEFINE data == BodyUnits(rc, m)
           unit == IF failed = 1 THEN [i \in DOMAIN data |-> Bad] ELSE data
           p    == Parsed(rc, m)
           r1   == [p EXCEPT !.auto = "none", !.try = FALSE, !.count = @ + 1]
           r    == IF failed = 1 THEN Failed(r1) ELSE r1
           bank == IF data = <<>> THEN flash[New].data
                   ELSE Written(flash[New].data, rc.offset, unit)
<1>1. ~Idle /\ reboot = "none" /\ UNCHANGED running
  BY DEF Idle, RemoteRuns
<1>2. ~flash[New].flag
  BY <1>1 DEF IInv, Unflagged, Transfer
<1>3. /\ DOMAIN r1 = Fields /\ r1.boot = rc.boot /\ r1.state = p.state
      /\ r1.hcnt = p.hcnt /\ r1.size = rc.size
  BY ParsedIs DEF IInv, Shape, Fields
<1>4. /\ DOMAIN r = Fields /\ r.boot = rc.boot
      /\ r.state = p.state \/ r.state = "failed"
      /\ r.hcnt = p.hcnt /\ r.size = rc.size
  BY <1>3 DEF Failed, Fields
<1>5. p.state = "success" => ~(p.hcnt < rc.size)
  BY ParsedIs DEF IInv, Success, Shape, Writes
<1>6. flash' = [flash EXCEPT ![New].data = bank]
  BY DEF BlockRsp, New
<1>7. \/ r.hcnt < r.size /\ rc' = Asking(r) /\ pending' = pending + failed
      \/ /\ ~(r.hcnt < r.size) /\ Verified(r, bank) /\ pending' = pending + failed
         /\ rc' = [r EXCEPT !.state = "success", !.retry = Retries, !.auto = "stop"]
      \/ rc' = Failed(r) /\ pending' = pending + failed + 1
  BY Zenon DEF BlockRsp, New
<1>8. /\ DOMAIN rc' = Fields /\ rc'.boot = rc.boot
      /\ rc'.state = "success" =>
           /\ Verified(r, bank)
           /\ ~(rc'.hcnt < rc'.size)
  <2>1. CASE r.hcnt < r.size /\ rc' = Asking(r)
    BY <1>4, <1>5, <2>1 DEF Asking, Fields
  <2>2. CASE /\ ~(r.hcnt < r.size) /\ Verified(r, bank)
             /\ rc' = [r EXCEPT !.state = "success", !.retry = Retries, !.auto = "stop"]
    <3>1. /\ DOMAIN rc' = Fields /\ rc'.boot = r.boot
          /\ rc'.hcnt = r.hcnt /\ rc'.size = r.size
      BY <1>4, <2>2 DEF Fields
    <3> QED BY <1>4, <2>2, <3>1
  <2>3. CASE rc' = Failed(r)
    BY <1>4, <2>3 DEF Failed, Fields
  <2> QED BY <1>7, <2>1, <2>2, <2>3
<1>9. New' = New /\ New \in Bank /\ New # running
  BY <1>1, <1>8, SameBank DEF IInv, Spared
<1>10. /\ DOMAIN flash' = Bank /\ flash'[New].data = bank
       /\ \A b \in Bank : DOMAIN flash'[b] = {"flag", "data"} /\ flash'[b].flag = flash[b].flag
       /\ \A b \in Bank : b # New => flash'[b].data = flash[b].data
  BY <1>6, <1>9 DEF IInv, Shape
<1>11. Shape' /\ Flagged' /\ Spared' /\ Bootable' /\ Reboots' /\ Unflagged'
  <2>1. pending' \in Nat
    BY <1>7 DEF IInv, Shape
  <2>2. Shape'
    BY <1>1, <1>8, <1>10, <2>1 DEF IInv, Shape
  <2>3. Flagged' /\ Spared'
    BY <1>1, <1>2, <1>9, <1>10 DEF IInv, Flagged, Spared
  <2>4. Bootable' /\ Reboots' /\ Unflagged'
    BY <1>1, <1>2, <1>9, <1>10 DEF IInv, Shape, Bootable, Reboots, Unflagged
  <2> QED BY <2>2, <2>3, <2>4
<1>12. Success'
  <2>1. Verified(r, bank) => Whole(bank)
    BY DEF Verified, Whole
  <2> QED BY <1>8, <1>9, <1>10, <2>1 DEF Success
<1> QED BY <1>11, <1>12 DEF IInv

(* The remote gets a data response (ota_dataRspHandler).                   *)
LEMMA DataRspStep ==
  ASSUME IInv, NEW m \in msgs, ota_dataRspHandler(m)
  PROVE  IInv'
<1>1. RemoteRuns /\ UNCHANGED reboot /\ m.type = "data_rsp" /\ ~Idle
  BY DEF ota_dataRspHandler, Idle
<1>2. CASE EmptyRsp(m)
  <2>1. rc' = [[rc EXCEPT !.auto = "none", !.try = FALSE] EXCEPT !.state = "failed"]
    BY <1>2 DEF EmptyRsp, Failed
  <2>2. DOMAIN rc' = Fields /\ rc'.state = "failed" /\ rc'.boot = rc.boot /\ ~rc'.try
    BY <2>1 DEF IInv, Shape, Fields
  <2>3. /\ UNCHANGED flash /\ pending' = pending + 1
        /\ \A k \in msgs' : k \in msgs
    BY <1>2, Delivered DEF EmptyRsp
  <2> QED BY <1>1, <2>2, <2>3, FailStep
<1>3. CASE \E failed \in {0, 1} : BlockRsp(m, failed)
  BY <1>1, <1>3, BlockStep
<1> QED BY <1>2, <1>3 DEF ota_dataRspHandler

-----------------------------------------------------------------------------
(* A session with success that ends has a whole bank, which no session in  *)
(* progress writes.                                                        *)
LEMMA RestoreStep ==
  ASSUME IInv, ota_callBackRestore
  PROVE  IInv'
<1>1. /\ UNCHANGED <<flash, rc, msgs, running>> /\ reboot = "none"
      /\ pending' = pending - 1 /\ pending > 0 /\ ~Idle
  BY DEF ota_callBackRestore, RemoteRuns, Idle
<1>2. \/ rc.state = "success" /\ reboot' = "flag"
      \/ rc.state # "success" /\ reboot' = "none"
  BY <1>1 DEF ota_callBackRestore
<1>3. New' = New
  BY <1>1 DEF New, NewBank
<1>4. rc.state = "success" => Whole(flash[New].data) /\ ~(rc.hcnt < rc.size)
  BY <1>1 DEF IInv, Shape, Success, Unanswered
<1>5. Shape' /\ Flagged' /\ Spared' /\ Bootable'
  BY <1>1, <1>2, <1>3 DEF IInv, Shape, Flagged, Spared, Bootable
<1>6. Unflagged' /\ Success' /\ Reboots'
  BY <1>1, <1>2, <1>3, <1>4 DEF IInv, Unflagged, Writes, Success, Reboots
<1> QED BY <1>5, <1>6 DEF IInv

(* The new flag is set, then the old one is cleared (ota_mcuReboot).       *)
LEMMA FlagStep ==
  ASSUME IInv, WriteFlag \/ ClearFlag
  PROVE  IInv'
<1>1. /\ UNCHANGED <<running, rc, pending, msgs>> /\ reboot \in {"flag", "clear"} /\ ~Idle
  BY DEF WriteFlag, ClearFlag, Idle
<1>2. New' = New /\ New \in Bank /\ 1 - New \in Bank /\ 1 - New # New /\ New # running
  BY <1>1, SameBank DEF IInv, Spared, New, NewBank, Bank
<1>3. Whole(flash[New].data)
  BY <1>1 DEF IInv, Reboots
<1>4. reboot' \in {"clear", "reset"} /\ DOMAIN flash' = Bank /\ flash'[New].flag
  <2>1. CASE WriteFlag
    BY <1>2, <2>1 DEF IInv, Shape, WriteFlag, New
  <2>2. CASE ClearFlag
    <3>1. reboot = "clear" /\ reboot' = "reset" /\ flash[New].flag
      BY <2>2 DEF IInv, Bootable, ClearFlag
    <3>2. flash'[New] = flash[New] /\ DOMAIN flash' = Bank
      BY <1>2, <2>2 DEF IInv, Shape, ClearFlag, New
    <3> QED BY <3>1, <3>2
  <2> QED BY <2>1, <2>2
<1>5. \A b \in Bank : /\ flash'[b].data = flash[b].data /\ DOMAIN flash'[b] = {"flag", "data"}
                      /\ b # New => (flash'[b].flag => flash[b].flag)
  <2>1. CASE WriteFlag
    BY <1>2, <2>1 DEF IInv, Shape, WriteFlag, New
  <2>2. CASE ClearFlag
    BY <1>2, <2>2 DEF IInv, Shape, ClearFlag, New
  <2> QED BY <2>1, <2>2
<1>6. Shape' /\ Spared' /\ Bootable' /\ Reboots'
  BY <1>1, <1>2, <1>3, <1>4, <1>5 DEF IInv, Shape, Spared, Bootable, Reboots
<1>7. Flagged'
  BY <1>2, <1>3, <1>5 DEF IInv, Flagged
<1>8. Unflagged' /\ Success'
  BY <1>1, <1>2, <1>3, <1>4, <1>5 DEF IInv, Unflagged, Success
<1> QED BY <1>6, <1>7, <1>8 DEF IInv

(* The chip finds a flagged bank, whatever step the power fails at.        *)
LEMMA SomeFlagged ==
  ASSUME IInv
  PROVE  BootBank \in Bank /\ flash[BootBank].flag /\ Whole(flash[BootBank].data)
<1>1. flash[0].flag \/ flash[1].flag
  BY DEF IInv, Shape, Bootable, New, NewBank, Bank
<1> QED BY <1>1 DEF BootBank, IInv, Flagged, Bank

(* After a restart nothing is left of the session.                         *)
LEMMA RestartStep ==
  ASSUME Restart, DOMAIN flash' = Bank, \A b \in Bank : DOMAIN flash'[b] = {"flag", "data"},
         UNCHANGED BootBank, BootBank \in Bank, flash'[BootBank].flag, Flagged'
  PROVE  IInv'
<1>1. Shape' /\ Idle'
  BY DEF Restart, Shape, Idle, NoSession, Fields
<1>2. running' = BootBank /\ reboot' = "none" /\ msgs' = {} /\ rc' = NoSession /\ pending' = 0
  BY DEF Restart
<1>3. Bootable' /\ Reboots'
  BY <1>2 DEF Bootable, Reboots
<1>4. Unflagged'
  BY <1>2 DEF Unflagged, Writes, NoSession
<1>5. Success'
  BY <1>2 DEF Success, Unanswered, NoSession
<1> QED BY <1>1, <1>3, <1>4, <1>5 DEF IInv, Spared

(* ota_mcuReboot's reset, and the battery.                                 *)
LEMMA ResetStep ==
  ASSUME IInv, SystemReset \/ PowerLoss
  PROVE  IInv'
<1>1. Restart
  BY DEF SystemReset, PowerLoss
<1>2. CASE UNCHANGED flash
  BY <1>1, <1>2, SomeFlagged, RestartStep DEF IInv, Shape, Flagged, BootBank
<1>3. CASE reboot = "none" /\ rc.try /\ flash' = [flash EXCEPT ![New].data = <<Bad>>]
  <2>1. ~flash[New].flag /\ New \in Bank
    BY <1>3 DEF IInv, Unflagged, New, NewBank, Bank
  <2>2. /\ DOMAIN flash' = Bank /\ \A b \in Bank : DOMAIN flash'[b] = {"flag", "data"}
        /\ \A b \in Bank : flash'[b].flag = flash[b].flag
        /\ \A b \in Bank : b # New => flash'[b].data = flash[b].data
    BY <1>3, <2>1 DEF IInv, Shape
  <2>3. Flagged'
    BY <2>1, <2>2 DEF IInv, Flagged
  <2>4. UNCHANGED BootBank
    BY <2>2 DEF BootBank, Bank
  <2> QED BY <1>1, <2>2, <2>3, <2>4, SomeFlagged, RestartStep
<1> QED BY <1>2, <1>3 DEF SystemReset, PowerLoss, New

-----------------------------------------------------------------------------
(* Every step keeps the invariant, as long as the bank it starts a session *)
(* for is not the running one.                                             *)
LEMMA StepIInv == IInv /\ RunningBankSpared' /\ [Next]_vars => IInv'
<1> SUFFICES ASSUME IInv, RunningBankSpared', [Next]_vars PROVE IInv'
  OBVIOUS
<1>1. CASE ota_startReq
  BY <1>1, StartStep
<1>2. CASE tl_appOtaCmdHandler
  BY <1>2, StartRspStep, DataRspStep, StopRspStep, TargetStep DEF tl_appOtaCmdHandler
<1>3. CASE Timers
  BY <1>3, TimerStep, RestoreStep DEF Timers
<1>4. CASE Rebooting
  BY <1>4, FlagStep, ResetStep DEF Rebooting
<1>5. CASE PowerLoss
  BY <1>5, ResetStep
<1>6. CASE LoadFile
  BY <1>6, LoadFileStep
<1>7. CASE UNCHANGED vars
  <2>1. UNCHANGED <<flash, running, rc, pending, reboot, msgs>>
    BY <1>7 DEF vars
  <2> QED BY <2>1, QuietStep DEF Idle
<1> QED BY <1>1, <1>2, <1>3, <1>4, <1>5, <1>6, <1>7 DEF Next

(* Whenever the supply fails the chip finds a flagged bank, and the image  *)
(* in it is whole (ota_mcuReboot, ota_DataProcess): for every file, every  *)
(* frame size and any number of sessions, losses and power failures, as    *)
(* long as no session writes the bank the remote runs from.                *)
THEOREM BootsWholeTheorem == Spec /\ []RunningBankSpared => []BootsWhole
<1>1. IInv => BootsWhole
  BY SomeFlagged DEF BootsWhole
<1> QED BY <1>1, InitIInv, StepIInv, PTL DEF Spec

-----------------------------------------------------------------------------
(* The types.  A session counts at most a frame for each block it has      *)
(* asked for, because the target sends at most a frame: the length of the  *)
(* messages, the size of the file and the size of the header belong to the *)
(* invariant.                                                              *)

RcOK(r) ==
  /\ DOMAIN r = Fields
  /\ r.state \in {"success", "failed", "starting", "dataing"}
  /\ r.retry \in 0..Retries /\ r.auto \in {"none", "start", "stop"} /\ r.boot \in 0..255
  /\ r.count \in 0..(MaxBlock + 1)
  /\ r.hcnt \in 0..(r.count * Frame) /\ r.offset \in 0..r.hcnt
  /\ r.hsize \in {0, HdrLen}

FlashOK ==
  DOMAIN flash = Bank /\ \A b \in Bank : DOMAIN flash[b] = {"flag", "data"}
                                         /\ flash[b].flag \in BOOLEAN

MsgsOK == \A m \in msgs : m.type = "data_rsp" => m.len \in 0..Frame

RestOK ==
  /\ running \in Bank /\ pending \in Nat /\ app \in {"ready", "ota"}
  /\ reboot \in {"none", "flag", "clear", "reset"}
  /\ file.size \in Nat /\ tgt.size \in Nat

TInv == RcOK(rc) /\ FlashOK /\ MsgsOK /\ RestOK

(* The lengths, as the numbers they are.                                   *)
LEMMA Lengths ==
  /\ Frame \in Nat \ {0} /\ HdrLen \in Nat \ {0} /\ SignLen \in Nat \ {0} /\ CrcLen \in Nat \ {0}
  /\ Retries \in Nat \ {0} /\ MaxBlock \in Nat /\ LenAt \in Nat /\ ImageAddr \in Nat
  /\ LenAt < Frame /\ LenAt < HdrLen
BY OtaAssumption

(* A record of the session with the counters of another one.               *)
LEMMA SameCounters ==
  ASSUME NEW r, RcOK(r), NEW s, DOMAIN s = Fields,
         s.count = r.count, s.hcnt = r.hcnt, s.offset = r.offset, s.hsize = r.hsize,
         s.boot = r.boot, s.state \in {"success", "failed", "starting", "dataing"},
         s.retry \in 0..Retries, s.auto \in {"none", "start", "stop"}
  PROVE  RcOK(s)
BY DEF RcOK

(* The copy of the boot address is the low byte of it.                     *)
LEMMA BootByte ==
  BootAddrVar(mcuBootAddrGet) \in 0..255
<1>1. mcuBootAddrGet \in Int
  BY Lengths DEF mcuBootAddrGet
<1>2. \A x \in Int : x % 2^8 \in 0..255
  OBVIOUS
<1> QED BY <1>1, <1>2 DEF BootAddrVar

(* No session has counted anything.                                        *)
LEMMA FreshOK ==
  RcOK(NoSession)
<1>1. DOMAIN NoSession = Fields
  BY DEF NoSession, Fields
<1>2. 0 * Frame = 0 /\ 0 \in 0..Retries /\ 0 \in 0..(MaxBlock + 1)
  BY Lengths
<1> QED BY <1>1, <1>2 DEF NoSession, RcOK

(* The body of a block is no longer than the block.                        *)
LEMMA BodyLen ==
  ASSUME NEW m, m.len \in Nat, rc.hcnt \in Nat, rc.hsize \in {0, HdrLen}
  PROVE  Len(BodyUnits(rc, m)) \in 0..m.len
<1>1. Skipped(rc, m) \in Nat
  <2>1. HeaderSize(rc, m) \in Nat
    BY Lengths DEF HeaderSize
  <2>2. CASE HeaderEnds(rc, m)
    <3>1. HeaderSize(rc, m) - rc.hcnt \in Nat
      BY <2>1, <2>2 DEF HeaderEnds
    <3> QED BY <2>2, <3>1, Lengths DEF Skipped
  <2>3. CASE ~HeaderEnds(rc, m)
    BY <2>3 DEF Skipped
  <2> QED BY <2>2, <2>3
<1>2. CASE rc.state = "dataing" \/ HeaderEnds(rc, m)
  <2> DEFINE n == m.len - Skipped(rc, m)
  <2>1. BodyUnits(rc, m) = [i \in 1..n |->
           <<m.ver, m.size, m.block * Frame + Skipped(rc, m) + i - HdrLen - SignLen>>]
    BY <1>2, Zenon DEF BodyUnits
  <2>2. n \in Int /\ n <= m.len
    BY <1>1
  <2> HIDE DEF n
  <2>3. CASE n \in Nat
    BY <2>1, <2>2, <2>3
  <2>4. CASE n \notin Nat
    <3>1. 1..n = 1..0
      BY <2>2, <2>4
    <3>2. BodyUnits(rc, m) = [i \in 1..0 |->
             <<m.ver, m.size, m.block * Frame + Skipped(rc, m) + i - HdrLen - SignLen>>]
      BY <2>1, <3>1, Zenon
    <3>3. Len(BodyUnits(rc, m)) = 0
      BY <3>2
    <3> QED BY <3>3
  <2> QED BY <2>3, <2>4
<1>3. CASE ~(rc.state = "dataing" \/ HeaderEnds(rc, m))
  <2>1. BodyUnits(rc, m) = <<>>
    BY <1>3, Zenon DEF BodyUnits
  <2> QED BY <2>1
<1> QED BY <1>2, <1>3

(* What a block makes of the session's counters.                           *)
LEMMA BlockFields ==
  ASSUME DOMAIN rc = Fields, rc.state \in {"success", "failed", "starting", "dataing"},
         NEW m, NEW failed \in {0, 1}, BlockRsp(m, failed)
  PROVE  /\ DOMAIN rc' = Fields /\ rc'.boot = rc.boot /\ rc'.size = rc.size
         /\ rc'.count = rc.count + 1
         /\ rc'.retry \in {rc.retry, Retries} /\ rc'.auto \in {"none", "stop"}
         /\ Writes => /\ rc'.hcnt = rc.hcnt + m.len
                      /\ rc'.offset = rc.offset + Len(BodyUnits(rc, m))
                      /\ rc'.hsize = HeaderSize(rc, m) /\ rc'.ver = HeaderVer(rc, m)
         /\ ~Writes => /\ rc'.hcnt = rc.hcnt /\ rc'.offset = rc.offset
                       /\ rc'.hsize = rc.hsize /\ rc'.ver = rc.ver
         /\ \/ rc'.state \in {"failed", "success"}
            \/ /\ failed = 0 /\ Writes
               /\ rc'.state = IF HeaderEnds(rc, m) THEN "dataing" ELSE rc.state
         /\ pending' \in {pending + failed, pending + failed + 1}
         /\ \A k \in msgs' : k \in msgs \/ k = DataReq(rc'.ver, rc'.count)
<1> DEFINE data == BodyUnits(rc, m)
           p    == Parsed(rc, m)
           r1   == [p EXCEPT !.auto = "none", !.try = FALSE, !.count = @ + 1]
           r    == IF failed = 1 THEN Failed(r1) ELSE r1
           bank == IF data = <<>> THEN flash[New].data
                   ELSE Written(flash[New].data, rc.offset,
                                IF failed = 1 THEN [i \in DOMAIN data |-> Bad] ELSE data)
<1>1. /\ DOMAIN p = Fields /\ p.boot = rc.boot /\ p.size = rc.size /\ p.count = rc.count
      /\ p.retry = rc.retry
      /\ Writes => /\ p.hcnt = rc.hcnt + m.len /\ p.offset = rc.offset + Len(data)
                   /\ p.hsize = HeaderSize(rc, m) /\ p.ver = HeaderVer(rc, m)
                   /\ p.state = IF HeaderEnds(rc, m) THEN "dataing" ELSE rc.state
      /\ ~Writes => p = rc
  <2>1. CASE Writes
    <3>1. p = [rc EXCEPT !.state = IF HeaderEnds(rc, m) THEN "dataing" ELSE @,
                         !.hsize = HeaderSize(rc, m),
                         !.ver = HeaderVer(rc, m),
                         !.hcnt = @ + m.len,
                         !.offset = @ + Len(data),
                         !.crc = @ \o SubSeq(data, 1, Summed(rc, Skipped(rc, m), Len(data)))]
      BY <2>1, Zenon DEF Parsed, Writes
    <3> HIDE DEF p, data
    <3>2. /\ DOMAIN p = Fields /\ p.boot = rc.boot /\ p.size = rc.size /\ p.count = rc.count
          /\ p.retry = rc.retry
      BY <3>1 DEF Fields
    <3>3. /\ p.hcnt = rc.hcnt + m.len /\ p.offset = rc.offset + Len(data)
          /\ p.hsize = HeaderSize(rc, m) /\ p.ver = HeaderVer(rc, m)
          /\ p.state = IF HeaderEnds(rc, m) THEN "dataing" ELSE rc.state
      BY <3>1 DEF Fields
    <3> QED BY <2>1, <3>2, <3>3
  <2>2. CASE ~Writes
    <3>1. p = rc
      BY <2>2, Zenon DEF Parsed, Writes
    <3> QED BY <2>2, <3>1
  <2> QED BY <2>1, <2>2
<1>2. \/ /\ rc' = Asking(r) /\ pending' = pending + failed
         /\ Deliver(m, {DataReq(r.ver, r.count)}, [used EXCEPT !.faults = @ + failed])
      \/ /\ rc' = [r EXCEPT !.state = "success", !.retry = Retries, !.auto = "stop"]
         /\ pending' = pending + failed
         /\ Deliver(m, {}, [used EXCEPT !.faults = @ + failed])
      \/ /\ rc' = Failed(r) /\ pending' = pending + failed + 1
         /\ Deliver(m, {}, [used EXCEPT !.faults = @ + failed])
  BY Zenon DEF BlockRsp, New
<1>3. /\ DOMAIN r1 = Fields /\ r1.boot = p.boot /\ r1.size = p.size /\ r1.count = p.count + 1
      /\ r1.retry = p.retry /\ r1.auto = "none" /\ ~r1.try
      /\ r1.hcnt = p.hcnt /\ r1.offset = p.offset /\ r1.hsize = p.hsize /\ r1.ver = p.ver
      /\ r1.state = p.state
  <2> HIDE DEF p
  <2> QED BY <1>1 DEF Fields
<1>4. /\ DOMAIN r = Fields /\ r.boot = p.boot /\ r.size = p.size /\ r.count = p.count + 1
      /\ r.retry = p.retry /\ r.auto = "none"
      /\ r.hcnt = p.hcnt /\ r.offset = p.offset /\ r.hsize = p.hsize /\ r.ver = p.ver
      /\ r.state = IF failed = 1 THEN "failed" ELSE p.state
  <2> HIDE DEF r1
  <2> QED BY <1>3 DEF Fields, Failed
<1> HIDE DEF p, r1, r
<1>5. CASE /\ rc' = Asking(r) /\ pending' = pending + failed
           /\ Deliver(m, {DataReq(r.ver, r.count)}, [used EXCEPT !.faults = @ + failed])
  <2>1. /\ DOMAIN rc' = Fields /\ rc'.boot = r.boot /\ rc'.size = r.size /\ rc'.count = r.count
        /\ rc'.retry = Retries /\ rc'.auto = "none"
        /\ rc'.hcnt = r.hcnt /\ rc'.offset = r.offset /\ rc'.hsize = r.hsize /\ rc'.ver = r.ver
        /\ rc'.state = r.state
    BY <1>4, <1>5 DEF Asking, Fields
  <2>2. \A k \in msgs' : k \in msgs \/ k = DataReq(rc'.ver, rc'.count)
    BY <1>5, <2>1, Delivered
  <2>3. \/ rc'.state \in {"failed", "success"}
        \/ /\ failed = 0 /\ Writes
           /\ rc'.state = IF HeaderEnds(rc, m) THEN "dataing" ELSE rc.state
    <3>1. CASE Writes
      BY <1>1, <1>4, <2>1, <3>1
    <3>2. CASE ~Writes
      BY <1>1, <1>4, <2>1, <3>2 DEF Writes
    <3> QED BY <3>1, <3>2
  <2> QED BY <1>1, <1>4, <1>5, <2>1, <2>2, <2>3
<1>6. CASE /\ rc' = [r EXCEPT !.state = "success", !.retry = Retries, !.auto = "stop"]
           /\ pending' = pending + failed
           /\ Deliver(m, {}, [used EXCEPT !.faults = @ + failed])
  <2>1. /\ DOMAIN rc' = Fields /\ rc'.boot = r.boot /\ rc'.size = r.size /\ rc'.count = r.count
        /\ rc'.retry = Retries /\ rc'.auto = "stop"
        /\ rc'.hcnt = r.hcnt /\ rc'.offset = r.offset /\ rc'.hsize = r.hsize /\ rc'.ver = r.ver
        /\ rc'.state = "success"
    BY <1>4, <1>6 DEF Fields
  <2>2. \A k \in msgs' : k \in msgs
    BY <1>6, Delivered
  <2> QED BY <1>1, <1>4, <1>6, <2>1, <2>2
<1>7. CASE /\ rc' = Failed(r) /\ pending' = pending + failed + 1
           /\ Deliver(m, {}, [used EXCEPT !.faults = @ + failed])
  <2>1. /\ DOMAIN rc' = Fields /\ rc'.boot = r.boot /\ rc'.size = r.size /\ rc'.count = r.count
        /\ rc'.retry = r.retry /\ rc'.auto = "none"
        /\ rc'.hcnt = r.hcnt /\ rc'.offset = r.offset /\ rc'.hsize = r.hsize /\ rc'.ver = r.ver
        /\ rc'.state = "failed"
    BY <1>4, <1>7 DEF Failed, Fields
  <2>2. \A k \in msgs' : k \in msgs
    BY <1>7, Delivered
  <2> QED BY <1>1, <1>4, <1>7, <2>1, <2>2
<1> QED BY <1>2, <1>5, <1>6, <1>7

(* The counters after a block: at most a frame more for one block more.    *)
LEMMA BlockTypes ==
  ASSUME TInv, NEW m \in msgs, m.type = "data_rsp", rc.count <= MaxBlock, UNCHANGED <<app, reboot>>,
         RemoteRuns, NEW failed \in {0, 1}, BlockRsp(m, failed)
  PROVE  TInv'
<1>1. m.len \in 0..Frame /\ m.len \in Nat
  BY Lengths DEF TInv, MsgsOK
<1>2. /\ DOMAIN rc = Fields /\ rc.state \in {"success", "failed", "starting", "dataing"}
      /\ rc.retry \in 0..Retries /\ rc.boot \in 0..255
      /\ rc.count \in 0..(MaxBlock + 1) /\ rc.hcnt \in 0..(rc.count * Frame)
      /\ rc.offset \in 0..rc.hcnt /\ rc.hsize \in {0, HdrLen}
  BY DEF TInv, RcOK
<1>3. /\ rc.count \in Nat /\ rc.count * Frame \in Nat /\ (rc.count + 1) * Frame = rc.count * Frame + Frame
  BY <1>2, Lengths
<1>4. Len(BodyUnits(rc, m)) \in 0..m.len
  BY <1>1, <1>2, <1>3, BodyLen
<1>5. /\ DOMAIN rc' = Fields /\ rc'.boot = rc.boot /\ rc'.count = rc.count + 1
      /\ rc'.retry \in {rc.retry, Retries} /\ rc'.auto \in {"none", "stop"}
      /\ Writes => /\ rc'.hcnt = rc.hcnt + m.len
                   /\ rc'.offset = rc.offset + Len(BodyUnits(rc, m))
                   /\ rc'.hsize = HeaderSize(rc, m)
      /\ ~Writes => rc'.hcnt = rc.hcnt /\ rc'.offset = rc.offset /\ rc'.hsize = rc.hsize
      /\ \/ rc'.state \in {"failed", "success"}
         \/ rc'.state = IF HeaderEnds(rc, m) THEN "dataing" ELSE rc.state
      /\ pending' \in {pending + failed, pending + failed + 1}
      /\ \A k \in msgs' : k \in msgs \/ k = DataReq(rc'.ver, rc'.count)
  BY <1>2, BlockFields
<1>6. RcOK(rc')
  <2>1. rc'.count \in 0..(MaxBlock + 1) /\ rc'.retry \in 0..Retries
    <3>1. rc.count \in Nat /\ rc'.count = rc.count + 1 /\ rc.count <= MaxBlock /\ MaxBlock \in Nat
      BY <1>3, <1>5, Lengths
    <3>2. rc'.retry \in {rc.retry, Retries} /\ rc.retry \in 0..Retries /\ Retries \in Nat
      BY <1>2, <1>5, Lengths
    <3>3. rc'.count \in 0..(MaxBlock + 1)
      BY <3>1
    <3>4. rc'.retry \in 0..Retries
      BY <3>2
    <3> QED BY <3>3, <3>4
  <2>2. rc'.count * Frame = rc.count * Frame + Frame
    BY <1>3, <1>5
  <2>3. HeaderSize(rc, m) \in {0, HdrLen}
    BY <1>2 DEF HeaderSize
  <2>4. rc'.state \in {"success", "failed", "starting", "dataing"}
    BY <1>2, <1>5
  <2> DEFINE c == rc.count * Frame
  <2>5. c \in Nat /\ rc.hcnt \in 0..c /\ rc'.count * Frame = c + Frame
    BY <1>2, <1>3, <2>2
  <2> HIDE DEF c
  <2>6. rc'.hcnt \in 0..(c + Frame) /\ rc'.offset \in 0..rc'.hcnt /\ rc'.hsize \in {0, HdrLen}
    <3>1. CASE Writes
      <4>1. /\ rc'.hcnt = rc.hcnt + m.len /\ rc'.offset = rc.offset + Len(BodyUnits(rc, m))
            /\ rc'.hsize \in {0, HdrLen}
        BY <1>5, <2>3, <3>1
      <4>2. /\ c \in Nat /\ Frame \in Nat /\ rc.hcnt \in 0..c /\ rc.offset \in 0..rc.hcnt
            /\ m.len \in 0..Frame /\ Len(BodyUnits(rc, m)) \in 0..m.len
        BY <1>1, <1>2, <1>4, <2>5, Lengths
      <4>3. rc'.hcnt \in 0..(c + Frame)
        BY <4>1, <4>2
      <4>4. rc'.offset \in 0..rc'.hcnt
        BY <4>1, <4>2
      <4> QED BY <4>1, <4>3, <4>4
    <3>2. CASE ~Writes
      <4>1. rc'.hcnt = rc.hcnt /\ rc'.offset = rc.offset /\ rc'.hsize = rc.hsize
        BY <1>5, <3>2
      <4>2. /\ c \in Nat /\ Frame \in Nat /\ rc.hcnt \in 0..c /\ rc.offset \in 0..rc.hcnt
            /\ rc.hsize \in {0, HdrLen}
        BY <1>2, <2>5, Lengths
      <4>3. rc'.hcnt \in 0..(c + Frame)
        BY <4>1, <4>2
      <4> QED BY <4>1, <4>2, <4>3
    <3> QED BY <3>1, <3>2
  <2> QED BY <1>2, <1>5, <2>1, <2>4, <2>5, <2>6 DEF RcOK
<1>7. FlashOK'
  <2>1. /\ NewBank(rc) \in Bank
        /\ \E d : flash' = [flash EXCEPT ![NewBank(rc)].data = d]
    BY Zenon DEF BlockRsp, NewBank, Bank
  <2> QED BY <2>1 DEF TInv, FlashOK
<1>8. MsgsOK'
  BY <1>5 DEF TInv, MsgsOK, DataReq
<1>9. RestOK'
  BY <1>5 DEF TInv, RestOK, RemoteRuns
<1> QED BY <1>6, <1>7, <1>8, <1>9 DEF TInv

(* The session fails, or it is as it was but for what the types bound.     *)
LEMMA FailTypes ==
  ASSUME TInv, RemoteRuns, UNCHANGED <<flash, app, reboot>>, DOMAIN rc' = Fields,
         rc'.count = rc.count, rc'.hcnt = rc.hcnt, rc'.offset = rc.offset, rc'.hsize = rc.hsize,
         rc'.boot = rc.boot, rc'.state \in {rc.state, "failed", "starting"},
         rc'.retry \in 0..Retries, rc'.auto \in {rc.auto, "none"},
         pending' \in {pending, pending + 1},
         \A k \in msgs' : k \in msgs \/ k.type # "data_rsp"
  PROVE  TInv'
<1>1. RcOK(rc')
  <2>1. /\ RcOK(rc) /\ rc'.state \in {"success", "failed", "starting", "dataing"}
        /\ rc'.auto \in {"none", "start", "stop"}
    BY DEF TInv, RcOK
  <2> QED BY <2>1, SameCounters
<1>2. FlashOK' /\ MsgsOK' /\ RestOK'
  BY DEF TInv, FlashOK, MsgsOK, RestOK, RemoteRuns
<1> QED BY <1>1, <1>2 DEF TInv

(* The timers of the remote.                                               *)
LEMMA TimerTypes ==
  ASSUME TInv, Timers
  PROVE  TInv'
<1>1. DOMAIN rc = Fields /\ rc.retry \in 0..Retries
  BY DEF TInv, RcOK
<1>2. ASSUME RemoteRuns, NEW m, m.type # "data_rsp", Poll(m)
      PROVE  TInv'
  <2>1. /\ rc' = [rc EXCEPT !.retry = @ - 1] /\ rc.retry > 0 /\ msgs' = msgs \cup {m}
        /\ UNCHANGED <<flash, app, reboot, pending>>
    BY <1>2 DEF Poll
  <2>2. /\ DOMAIN rc' = Fields /\ rc'.count = rc.count /\ rc'.hcnt = rc.hcnt
        /\ rc'.offset = rc.offset /\ rc'.hsize = rc.hsize /\ rc'.boot = rc.boot
        /\ rc'.state = rc.state /\ rc'.auto = rc.auto /\ rc'.retry = rc.retry - 1
    BY <1>1, <2>1 DEF Fields
  <2>3. rc'.retry \in 0..Retries
    BY <1>1, <2>1, <2>2, Lengths
  <2> QED BY <1>2, <2>1, <2>2, <2>3, FailTypes
<1>3. ASSUME RemoteRuns, NEW r, r \in {[rc EXCEPT !.auto = "none"], [rc EXCEPT !.try = FALSE]},
             GiveUp(r)
      PROVE  TInv'
  <2>1. /\ rc' = [r EXCEPT !.state = "failed"] /\ pending' = pending + 1
        /\ UNCHANGED <<flash, app, reboot, msgs>>
    BY <1>3 DEF GiveUp, Failed
  <2>2. /\ DOMAIN r = Fields /\ r.count = rc.count /\ r.hcnt = rc.hcnt
        /\ r.offset = rc.offset /\ r.hsize = rc.hsize /\ r.boot = rc.boot
        /\ r.auto \in {rc.auto, "none"} /\ r.retry = rc.retry
    BY <1>1, <1>3 DEF Fields
  <2>3. /\ DOMAIN rc' = Fields /\ rc'.count = rc.count /\ rc'.hcnt = rc.hcnt
        /\ rc'.offset = rc.offset /\ rc'.hsize = rc.hsize /\ rc'.boot = rc.boot
        /\ rc'.state = "failed" /\ rc'.auto \in {rc.auto, "none"} /\ rc'.retry = rc.retry
    BY <2>1, <2>2 DEF Fields
  <2> QED BY <1>1, <1>3, <2>1, <2>3, FailTypes
<1>4. CASE ota_startReqCb
  BY <1>2, <1>3, <1>4 DEF ota_startReqCb, StartReq
<1>5. CASE ota_dataTryReqCb
  BY <1>2, <1>3, <1>5 DEF ota_dataTryReqCb, DataReq
<1>6. CASE ota_stopRspCb
  BY <1>2, <1>3, <1>6 DEF ota_stopRspCb, StopReq
<1>7. CASE ota_callBackRestore
  <2>1. /\ UNCHANGED <<flash, rc, msgs>> /\ pending > 0 /\ pending' = pending - 1
        /\ reboot' \in {reboot, "flag"} /\ app' \in {app, "ready"}
    BY <1>7 DEF ota_callBackRestore
  <2>2. UNCHANGED <<running, file, tgt>>
    BY <1>7 DEF ota_callBackRestore, RemoteRuns
  <2>3. RestOK'
    BY <2>1, <2>2 DEF TInv, RestOK
  <2> QED BY <2>1, <2>3 DEF TInv, FlashOK, MsgsOK
<1> QED BY <1>4, <1>5, <1>6, <1>7 DEF Timers

(* The answers the remote gets.                                            *)
LEMMA AnswerTypes ==
  ASSUME TInv, NEW m \in msgs,
         ota_startRspHandler(m) \/ ota_dataRspHandler(m) \/ ota_stopRspHandler(m)
  PROVE  TInv'
<1>1. DOMAIN rc = Fields /\ rc.retry \in 0..Retries /\ 0 \in 0..Retries /\ Retries \in 0..Retries
  BY Lengths DEF TInv, RcOK
<1>2. CASE ota_startRspHandler(m)
  <2> DEFINE r == [rc EXCEPT !.ver = m.ver, !.size = m.size, !.auto = "none"]
             s == Asking([r EXCEPT !.state = "starting"])
  <2>1. /\ RemoteRuns /\ UNCHANGED <<app, reboot>>
        /\ \/ /\ rc' = s /\ Erase(NewBank(rc)) /\ UNCHANGED pending
              /\ Deliver(m, {DataReq(s.ver, s.count)}, used)
           \/ /\ rc' = [Failed(IF Accepted(m) THEN r ELSE rc) EXCEPT !.retry = 0, !.auto = "none"]
              /\ pending' = pending + 1 /\ UNCHANGED flash /\ Deliver(m, {}, used)
    BY <1>2 DEF ota_startRspHandler
  <2>2. /\ DOMAIN r = Fields /\ r.count = rc.count /\ r.hcnt = rc.hcnt
        /\ r.offset = rc.offset /\ r.hsize = rc.hsize /\ r.boot = rc.boot /\ r.auto = "none"
    BY <1>1 DEF Fields
  <2>3. /\ DOMAIN s = Fields /\ s.count = rc.count /\ s.hcnt = rc.hcnt
        /\ s.offset = rc.offset /\ s.hsize = rc.hsize /\ s.boot = rc.boot /\ s.auto = "none"
        /\ s.state = "starting" /\ s.retry = Retries
    <3> HIDE DEF r
    <3> QED BY <2>2 DEF Fields, Asking
  <2> HIDE DEF r, s
  <2>4. CASE /\ rc' = s /\ Erase(NewBank(rc)) /\ UNCHANGED pending
             /\ Deliver(m, {DataReq(s.ver, s.count)}, used)
    <3>1. RcOK(rc')
      BY <1>1, <2>3, <2>4, SameCounters DEF TInv
    <3>2. FlashOK'
      <4>1. NewBank(rc) \in Bank
        BY DEF NewBank, Bank
      <4> QED BY <2>4, <4>1 DEF TInv, FlashOK, Erase
    <3>3. MsgsOK'
      <4>1. \A k \in msgs' : k \in msgs \/ k = DataReq(s.ver, s.count)
        BY <2>4, Delivered
      <4> QED BY <4>1 DEF TInv, MsgsOK, DataReq
    <3>4. RestOK'
      BY <2>1, <2>4 DEF TInv, RestOK, RemoteRuns
    <3> QED BY <3>1, <3>2, <3>3, <3>4 DEF TInv
  <2>5. CASE /\ rc' = [Failed(IF Accepted(m) THEN r ELSE rc) EXCEPT !.retry = 0, !.auto = "none"]
             /\ pending' = pending + 1 /\ UNCHANGED flash /\ Deliver(m, {}, used)
    <3> DEFINE q == IF Accepted(m) THEN r ELSE rc
    <3>1. /\ DOMAIN q = Fields /\ q.count = rc.count /\ q.hcnt = rc.hcnt
          /\ q.offset = rc.offset /\ q.hsize = rc.hsize /\ q.boot = rc.boot
      BY <1>1, <2>2
    <3>2. rc' = [Failed(q) EXCEPT !.retry = 0, !.auto = "none"]
      BY <2>5
    <3> HIDE DEF q
    <3>3. /\ DOMAIN rc' = Fields /\ rc'.count = rc.count /\ rc'.hcnt = rc.hcnt
          /\ rc'.offset = rc.offset /\ rc'.hsize = rc.hsize /\ rc'.boot = rc.boot
          /\ rc'.auto = "none" /\ rc'.retry = 0 /\ rc'.state = "failed"
      BY <3>1, <3>2 DEF Fields, Failed
    <3>4. \A k \in msgs' : k \in msgs
      BY <2>5, Delivered
    <3> QED BY <1>1, <2>1, <2>5, <3>3, <3>4, FailTypes
  <2> QED BY <2>1, <2>4, <2>5
<1>3. CASE ota_dataRspHandler(m)
  <2>1. RemoteRuns /\ UNCHANGED <<app, reboot>> /\ rc.count <= MaxBlock /\ m.type = "data_rsp"
    BY <1>3 DEF ota_dataRspHandler
  <2>2. CASE EmptyRsp(m)
    <3>1. /\ rc' = [[rc EXCEPT !.auto = "none", !.try = FALSE] EXCEPT !.state = "failed"]
          /\ UNCHANGED flash /\ pending' = pending + 1 /\ Deliver(m, {}, used)
      BY <2>2 DEF EmptyRsp, Failed
    <3>2. /\ DOMAIN rc' = Fields /\ rc'.count = rc.count /\ rc'.hcnt = rc.hcnt
          /\ rc'.offset = rc.offset /\ rc'.hsize = rc.hsize /\ rc'.boot = rc.boot
          /\ rc'.auto = "none" /\ rc'.retry = rc.retry /\ rc'.state = "failed"
      BY <1>1, <3>1 DEF Fields
    <3>3. \A k \in msgs' : k \in msgs
      BY <3>1, Delivered
    <3> QED BY <1>1, <2>1, <3>1, <3>2, <3>3, FailTypes
  <2>3. CASE \E failed \in {0, 1} : BlockRsp(m, failed)
    BY <2>1, <2>3, BlockTypes
  <2> QED BY <1>3, <2>2, <2>3 DEF ota_dataRspHandler
<1>4. CASE ota_stopRspHandler(m)
  <2>1. /\ RemoteRuns /\ UNCHANGED <<flash, app, reboot>> /\ pending' = pending + 1
        /\ Deliver(m, {}, used)
        /\ rc' \in {[rc EXCEPT !.auto = "none"], [rc EXCEPT !.state = "failed"]}
    BY <1>4 DEF ota_stopRspHandler, Failed
  <2>2. /\ DOMAIN rc' = Fields /\ rc'.count = rc.count /\ rc'.hcnt = rc.hcnt
        /\ rc'.offset = rc.offset /\ rc'.hsize = rc.hsize /\ rc'.boot = rc.boot
        /\ rc'.auto \in {rc.auto, "none"} /\ rc'.retry = rc.retry
        /\ rc'.state \in {rc.state, "failed"}
    BY <1>1, <2>1 DEF Fields
  <2>3. \A k \in msgs' : k \in msgs
    BY <2>1, Delivered
  <2> QED BY <1>1, <2>1, <2>2, <2>3, FailTypes
<1> QED BY <1>2, <1>3, <1>4

(* The target sends at most a frame (ota_dataReqHandler).                  *)
LEMMA TargetTypes ==
  ASSUME TInv, (\E m \in msgs : \/ ota_startReqHandler(m) \/ ota_dataReqHandler(m)
                                \/ ota_stopReqHandler(m))
               \/ LoadFile
  PROVE  TInv'
<1>1. tgt.size \in Nat /\ file.size \in Nat
  BY DEF TInv, RestOK
<1>2. ASSUME UNCHANGED <<flash, running, rc, pending, app, reboot>>, MsgsOK',
             file'.size \in Nat, tgt'.size \in Nat
      PROVE  TInv'
  BY <1>2 DEF TInv, FlashOK, RestOK
<1>3. ASSUME NEW m \in msgs, ota_startReqHandler(m)
      PROVE  TInv'
  <2>1. /\ UNCHANGED <<flash, running, rc, pending, app, reboot, file>>
        /\ tgt'.size = file.size /\ Deliver(m, {StartRsp(file.ver, file.size)}, used)
    BY <1>3 DEF ota_startReqHandler, TargetRuns
  <2>2. \A k \in msgs' : k \in msgs \/ k = StartRsp(file.ver, file.size)
    BY <2>1, Delivered
  <2>3. MsgsOK'
    BY <2>2 DEF TInv, MsgsOK, StartRsp
  <2> QED BY <1>1, <1>2, <2>1, <2>3
<1>4. ASSUME NEW m \in msgs, ota_dataReqHandler(m)
      PROVE  TInv'
  <2> DEFINE rsp == DataRsp(tgt.ver, tgt.size, m.block, BlockLen(tgt.size, m.block))
  <2>1. /\ UNCHANGED <<flash, running, rc, pending, app, reboot, file, tgt>>
        /\ Deliver(m, {rsp}, used) \/ Deliver(m, {}, used)
    BY <1>4 DEF ota_dataReqHandler, TargetRuns
  <2>2. BlockLen(tgt.size, m.block) \in 0..Frame
    <3>1. tgt.size % Frame \in 0..Frame /\ Frame \in 0..Frame
      BY <1>1, Lengths
    <3> QED BY <3>1 DEF BlockLen
  <2>3. rsp.len \in 0..Frame
    BY <2>2 DEF DataRsp
  <2> HIDE DEF rsp
  <2>4. \A k \in msgs' : k \in msgs \/ k = rsp
    BY <2>1, Delivered
  <2>5. MsgsOK'
    BY <2>3, <2>4 DEF TInv, MsgsOK
  <2> QED BY <1>1, <1>2, <2>1, <2>5
<1>5. ASSUME NEW m \in msgs, ota_stopReqHandler(m)
      PROVE  TInv'
  <2>1. /\ UNCHANGED <<flash, running, rc, pending, app, reboot, file, tgt>>
        /\ Deliver(m, {StopRsp(m.ver)}, used) \/ Deliver(m, {}, used)
    BY <1>5 DEF ota_stopReqHandler, TargetRuns
  <2>2. \A k \in msgs' : k \in msgs \/ k = StopRsp(m.ver)
    BY <2>1, Delivered
  <2>3. MsgsOK'
    BY <2>2 DEF TInv, MsgsOK, StopRsp
  <2> QED BY <1>1, <1>2, <2>1, <2>3
<1>6. CASE LoadFile
  <2>1. /\ UNCHANGED <<flash, running, rc, pending, app, reboot>> /\ msgs' = {}
        /\ file' \in Files /\ tgt'.size = 0
    BY <1>6 DEF LoadFile
  <2>2. file'.size \in Nat
    BY <2>1, OtaAssumption DEF Files
  <2>3. MsgsOK'
    BY <2>1 DEF MsgsOK
  <2> QED BY <1>2, <2>1, <2>2, <2>3
<1> QED BY <1>3, <1>4, <1>5, <1>6

(* A new session, and the end of one.                                      *)
LEMMA RebootTypes ==
  ASSUME TInv, ota_startReq \/ Rebooting \/ PowerLoss
  PROVE  TInv'
<1>0. NewBank(rc) \in Bank /\ 1 - NewBank(rc) \in Bank /\ BootBank \in Bank
  BY DEF NewBank, Bank, BootBank
<1>1. CASE ota_startReq
  <2>1. /\ rc' = [NoSession EXCEPT !.state = rc.state, !.retry = Retries,
                                   !.boot = BootAddrVar(mcuBootAddrGet), !.auto = "start"]
        /\ app' = "ota" /\ UNCHANGED <<flash, pending, reboot, msgs, running, file, tgt>>
    BY <1>1 DEF ota_startReq, RemoteRuns
  <2>2. /\ DOMAIN rc' = Fields /\ rc'.state = rc.state /\ rc'.retry = Retries
        /\ rc'.boot = BootAddrVar(mcuBootAddrGet) /\ rc'.auto = "start"
        /\ rc'.count = 0 /\ rc'.hcnt = 0 /\ rc'.offset = 0 /\ rc'.hsize = 0
    BY <2>1 DEF NoSession, Fields
  <2>3. /\ rc'.boot \in 0..255 /\ Retries \in 0..Retries /\ 0 * Frame = 0
        /\ 0 \in 0..(MaxBlock + 1) /\ 0 \in 0..0
    BY <2>2, BootByte, Lengths
  <2>4. rc.state \in {"success", "failed", "starting", "dataing"}
    BY DEF TInv, RcOK
  <2>5. RcOK(rc')
    BY <2>2, <2>3, <2>4 DEF RcOK
  <2> QED BY <2>1, <2>5 DEF TInv, FlashOK, MsgsOK, RestOK
<1>2. CASE WriteFlag
  <2>1. FlashOK'
    BY <1>0, <1>2 DEF WriteFlag, TInv, FlashOK
  <2> QED BY <1>2, <2>1 DEF WriteFlag, TInv, MsgsOK, RestOK
<1>3. CASE ClearFlag
  <2>1. FlashOK'
    BY <1>0, <1>3 DEF ClearFlag, TInv, FlashOK
  <2> QED BY <1>3, <2>1 DEF ClearFlag, TInv, MsgsOK, RestOK
<1>4. ASSUME Restart, FlashOK' PROVE TInv'
  <2>1. /\ rc' = NoSession /\ msgs' = {} /\ running' = BootBank /\ pending' = 0
        /\ app' = "ready" /\ reboot' = "none" /\ UNCHANGED <<file, tgt>>
    BY <1>4 DEF Restart
  <2>2. RcOK(rc') /\ MsgsOK' /\ RestOK'
    BY <1>0, <2>1, FreshOK DEF TInv, MsgsOK, RestOK
  <2> QED BY <1>4, <2>2 DEF TInv
<1>5. CASE SystemReset
  BY <1>4, <1>5 DEF SystemReset, TInv, FlashOK
<1>6. CASE PowerLoss
  <2>1. Restart /\ (UNCHANGED flash \/ flash' = [flash EXCEPT ![NewBank(rc)].data = <<Bad>>])
    BY <1>6 DEF PowerLoss
  <2>2. FlashOK'
    BY <1>0, <2>1 DEF TInv, FlashOK
  <2> QED BY <1>4, <2>1, <2>2
<1> QED BY <1>1, <1>2, <1>3, <1>5, <1>6 DEF Rebooting

(* What the target may hold at first.                                      *)
LEMMA FileIs ==
  ASSUME Init
  PROVE  file.ver \in Nat /\ file.size \in Nat
<1>1. file = NoFile \/ file \in Files
  BY DEF Init
<1>2. CASE file = NoFile
  BY <1>2 DEF NoFile
<1>3. CASE file \in Files
  <2>1. file.ver \in 1..LastVersion /\ file.size \in Sizes
    BY <1>3 DEF Files
  <2> QED BY <2>1, OtaAssumption
<1> QED BY <1>1, <1>2, <1>3

(* Before the first session nothing is counted.                            *)
LEMMA InitTInv == Init => TInv
<1> SUFFICES ASSUME Init PROVE TInv
  OBVIOUS
<1>1. RcOK(rc) /\ MsgsOK
  BY FreshOK DEF Init, MsgsOK
<1>2. FlashOK
  <2>1. flash = [b \in Bank |->
                   [flag |-> b = 0,
                    data |-> IF b = 0 THEN Image(1, FirstSize) ELSE <<>>]]
    BY DEF Init
  <2>2. DOMAIN flash = Bank
    BY <2>1
  <2>3. \A b \in Bank : DOMAIN flash[b] = {"flag", "data"} /\ flash[b].flag = (b = 0)
    BY <2>1, Zenon
  <2>4. \A b \in Bank : (b = 0) \in BOOLEAN
    BY Zenon
  <2> QED BY <2>2, <2>3, <2>4, Zenon DEF FlashOK
<1>3. file.size \in Nat /\ tgt.size \in Nat
  <2>1. tgt.size = 0
    BY DEF Init
  <2> QED BY <2>1, FileIs
<1>4. running \in Bank /\ pending \in Nat /\ app = "ready" /\ reboot = "none"
  BY DEF Init, Bank
<1> QED BY <1>1, <1>2, <1>3, <1>4 DEF TInv, RestOK

(* Every step keeps the types.                                             *)
LEMMA StepTInv == TInv /\ [Next]_vars => TInv'
<1> SUFFICES ASSUME TInv, [Next]_vars PROVE TInv'
  OBVIOUS
<1>1. CASE tl_appOtaCmdHandler
  BY <1>1, AnswerTypes, TargetTypes DEF tl_appOtaCmdHandler
<1>2. CASE UNCHANGED vars
  BY <1>2 DEF vars, TInv, FlashOK, MsgsOK, RestOK
<1> QED BY <1>1, <1>2, TimerTypes, TargetTypes, RebootTypes DEF Next

(* The variables have their types, a data response has at most a frame,    *)
(* and the counters of a session stay within a frame for each block it has *)
(* asked for (ota_dataReqHandler, ota_DataProcess): for every file, every  *)
(* frame size, and whichever bank is written.                              *)
THEOREM TypeTheorem == Spec => []TypeOK
<1>1. TInv => TypeOK
  BY DEF TInv, RcOK, FlashOK, MsgsOK, RestOK, TypeOK
<1> QED BY <1>1, InitTInv, StepTInv, PTL DEF Spec

-----------------------------------------------------------------------------
(* What a bank holds while it is written.  The answers under way are about *)
(* the file the target holds (Sent, Known); a session whose header count   *)
(* is a frame for each block has had every block of that file, and only    *)
(* those (Steps).                                                          *)

Sent ==
  \A m \in msgs :
    /\ m.type = "start_rsp" => m.ver = file.ver /\ m.size = file.size
    /\ m.type = "data_req" => m.ver # 0
    /\ m.type = "data_rsp" => /\ m.ver = file.ver /\ m.ver # 0 /\ m.size = file.size
                              /\ m.len = BlockLen(m.size, m.block)

Known ==
  /\ file.ver \in Nat /\ file.size \in Nat
  /\ tgt.ver # 0 => tgt.ver = file.ver /\ tgt.size = file.size
  /\ rc.ver \in Nat \cup {-1} /\ rc.ver <= file.ver
  /\ rc.ver = file.ver /\ rc.ver # 0 => rc.size = file.size
  /\ rc.try => rc.ver # 0

Steps ==
  /\ rc.offset # 0 => rc.hcnt > HdrLen
  /\ rc.ver # 0 =>
       /\ rc.state = "dataing" => rc.hcnt > HdrLen
       /\ rc.state = "starting" /\ rc.hcnt <= HdrLen => flash[New].data = <<>>

HInv == Sent /\ Known /\ Steps /\ DataInOrder

(* The remote runs an image of some version.                               *)
LEMMA RunsVersion ==
  ASSUME IInv, reboot = "none"
  PROVE  RunningVersion \in Nat \ {0}
<1>1. Whole(flash[running].data)
  BY DEF IInv, Shape, Bootable, Flagged
<1>2. PICK v \in 1..LastVersion, s \in Sizes : flash[running].data = Image(v, s)
  BY <1>1 DEF Whole
<1>3. Body(s) \in Nat \ {0}
  BY OtaAssumption DEF Body
<1>4. Image(v, s)[1] = <<v, s, 1>>
  BY <1>3 DEF Image
<1>5. <<v, s, 1>>[1] = v
  OBVIOUS
<1>6. v \in Nat \ {0}
  BY Lengths
<1> QED BY <1>2, <1>4, <1>5, <1>6 DEF RunningVersion

(* A block of a whole frame ends before the file does.                     *)
LEMMA WholeFrame ==
  ASSUME NEW s \in Nat, NEW k \in Nat, BlockLen(s, k) = Frame
  PROVE  k * Frame + Frame < s
<1>1. s % Frame # Frame
  BY Lengths
<1> QED BY <1>1 DEF BlockLen

(* The block the header ends in is the one the assumption about the        *)
(* signature field speaks of.                                              *)
LEMMA HeaderBlock ==
  ASSUME NEW k \in Nat, HdrLen - k * Frame \in 0..(Frame - 1)
  PROVE  HdrLen - k * Frame + SignLen <= Frame
<1>1. Frame \in Nat \ {0} /\ HdrLen \in Nat /\ SignLen \in Nat /\ (HdrLen % Frame) + SignLen <= Frame
  BY OtaAssumption
<1> DEFINE q == HdrLen \div Frame
           a == HdrLen % Frame
<1>2. q \in Int /\ a \in 0..(Frame - 1) /\ HdrLen = q * Frame + a
  BY <1>1
<1> HIDE DEF q, a
<1>3. (q - k) * Frame = q * Frame - k * Frame
  BY <1>1, <1>2
<1>4. CASE q - k >= 1
  <2>1. (q - k) * Frame >= Frame
    BY <1>1, <1>2, <1>4
  <2> QED BY <1>1, <1>2, <1>3, <2>1
<1>5. CASE q - k <= -1
  <2>1. (q - k) * Frame <= -Frame
    BY <1>1, <1>2, <1>5
  <2> QED BY <1>1, <1>2, <1>3, <2>1
<1>6. CASE q = k
  BY <1>1, <1>2, <1>6 DEF a
<1> QED BY <1>2, <1>4, <1>5, <1>6

(* The first o units of an image, and n units after them.                  *)
Part(d, v, s, o) == d = SubSeq(Image(v, s), 1, o)
Units(u, v, s, o, n) == u = [i \in 1..n |-> <<v, s, o + i>>]
Fits(s, o, n) == s \in Int /\ o \in Nat /\ n \in Nat /\ o + n <= Body(s)

(* Units written where the part of an image ends continue it.              *)
LEMMA WrittenIs ==
  ASSUME NEW v, NEW s, NEW o, NEW n, NEW d, NEW u,
         Fits(s, o, n), Part(d, v, s, o), Units(u, v, s, o, n)
  PROVE  Part(Written(d, o, u), v, s, o + n)
<1> USE DEF Fits, Part, Units
<1>1. Body(s) \in Int
  BY Lengths DEF Body
<1> DEFINE I == Image(v, s)
<1>2. I = [i \in 1..Body(s) |-> <<v, s, i>>] /\ Body(s) \in Nat
  BY <1>1 DEF Image
<1>3. /\ d = [i \in 1..o |-> <<v, s, i>>] /\ Len(d) = o
      /\ SubSeq(I, 1, o + n) = [i \in 1..(o + n) |-> <<v, s, i>>]
  <2> HIDE DEF I
  <2>1. \A j \in 0..Body(s) : SubSeq(I, 1, j) = [i \in 1..j |-> <<v, s, i>>]
    <3> SUFFICES ASSUME NEW j \in 0..Body(s) PROVE SubSeq(I, 1, j) = [i \in 1..j |-> <<v, s, i>>]
      OBVIOUS
    <3>1. SubSeq(I, 1, j) = [i \in 1..j |-> I[i]]
      <4>1. SubSeq(I, 1, j) = [i \in 1..(1 + j - 1) |-> I[i + 1 - 1]]
        OBVIOUS
      <4> QED BY <4>1
    <3>2. \A i \in 1..j : I[i] = <<v, s, i>>
      BY <1>2
    <3> QED BY <3>1, <3>2
  <2>2. d = [i \in 1..o |-> <<v, s, i>>]
    BY <1>2, <2>1 DEF I
  <2>3. Len(d) = o
    BY <2>2
  <2> QED BY <1>2, <2>1, <2>2, <2>3
<1> HIDE DEF I
<1>4. Len(u) = n /\ \A i \in 1..n : u[i] = <<v, s, o + i>>
  OBVIOUS
<1>5. Written(d, o, u) =
        [i \in 1..(o + n) |-> IF i \in (o + 1)..(o + n) THEN u[i - o] ELSE d[i]]
  <2> DEFINE W(i) == IF i \in (o + 1)..(o + n)
                     THEN IF i <= o THEN Bad ELSE u[i - o]
                     ELSE IF i <= o THEN d[i] ELSE Bad
  <2>1. Written(d, o, u) = [i \in 1..(IF o + n > o THEN o + n ELSE o) |-> W(i)]
    BY <1>3, <1>4 DEF Written
  <2>2. (IF o + n > o THEN o + n ELSE o) = o + n
    OBVIOUS
  <2>3. \A i \in 1..(o + n) : W(i) = IF i \in (o + 1)..(o + n) THEN u[i - o] ELSE d[i]
    OBVIOUS
  <2> HIDE DEF W
  <2> QED BY <2>1, <2>2, <2>3
<1>6. \A i \in 1..(o + n) : (IF i \in (o + 1)..(o + n) THEN u[i - o] ELSE d[i]) = <<v, s, i>>
  <2> SUFFICES ASSUME NEW i \in 1..(o + n)
               PROVE  (IF i \in (o + 1)..(o + n) THEN u[i - o] ELSE d[i]) = <<v, s, i>>
    OBVIOUS
  <2>1. CASE i \in (o + 1)..(o + n)
    <3>1. i - o \in 1..n /\ o + (i - o) = i
      BY <2>1
    <3>2. u[i - o] = <<v, s, o + (i - o)>>
      BY <1>4, <3>1
    <3> QED BY <2>1, <3>1, <3>2
  <2>2. CASE i \notin (o + 1)..(o + n)
    <3>1. i \in 1..o
      BY <2>2
    <3> QED BY <1>3, <2>2, <3>1
  <2> QED BY <2>1, <2>2
<1>7. Written(d, o, u) = SubSeq(I, 1, o + n)
  <2> HIDE DEF Fits, Part, Units
  <2> QED BY <1>3, <1>5, <1>6
<1> QED BY <1>7 DEF I

(* What a block that the session takes does to the bank.                   *)
LEMMA BlockFlash ==
  ASSUME FlashOK, NEW m, BlockRsp(m, 0)
  PROVE  /\ BodyUnits(rc, m) = <<>> => flash'[New].data = flash[New].data
         /\ BodyUnits(rc, m) # <<>> =>
              flash'[New].data = Written(flash[New].data, rc.offset, BodyUnits(rc, m))
<1> DEFINE data == BodyUnits(rc, m)
           bank == IF data = <<>> THEN flash[New].data
                   ELSE Written(flash[New].data, rc.offset, data)
<1>1. flash' = [flash EXCEPT ![New].data = bank]
  BY DEF BlockRsp, New
<1>2. New \in Bank
  BY DEF New, NewBank, Bank
<1> HIDE DEF bank
<1>3. flash'[New].data = bank
  BY <1>1, <1>2 DEF FlashOK
<1> QED BY <1>3 DEF bank

(* A session that fails or goes on as it was: nothing is written, and      *)
(* nothing is sent but answers about the file and requests with a version. *)
LEMMA StillH ==
  ASSUME HInv, UNCHANGED <<flash, file, tgt>>, New' = New,
         rc'.state = "failed" \/ rc'.state = rc.state,
         rc'.hcnt = rc.hcnt, rc'.count = rc.count, rc'.offset = rc.offset,
         \/ rc'.ver = rc.ver /\ rc'.size = rc.size
         \/ rc'.ver = file.ver /\ rc'.size = file.size /\ rc'.ver # 0 /\ rc'.state = "failed",
         rc'.try => rc.try,
         \A k \in msgs' : \/ k \in msgs
                          \/ k.type \notin {"start_rsp", "data_req", "data_rsp"}
                          \/ k.type = "data_req" /\ k.ver # 0
  PROVE  HInv'
<1>1. Sent'
  BY DEF HInv, Sent
<1>2. Known'
  BY DEF HInv, Known
<1>3. Steps'
  BY DEF HInv, Steps
<1>4. DataInOrder'
  <2>1. CASE rc'.state = "failed"
    BY <2>1 DEF DataInOrder
  <2>2. CASE rc'.state = rc.state /\ rc'.ver = rc.ver /\ rc'.size = rc.size
    <3>1. rc'.boot = rc.boot \/ NewBank(rc') = NewBank(rc)
      BY DEF New
    <3> QED BY <2>2, <3>1 DEF HInv, DataInOrder, New, NewBank
  <2> QED BY <2>1, <2>2
<1> QED BY <1>1, <1>2, <1>3, <1>4 DEF HInv

(* The timers of the remote.                                               *)
LEMMA TimerH ==
  ASSUME TInv, HInv, Timers
  PROVE  HInv'
<1>1. DOMAIN rc = Fields
  BY DEF TInv, RcOK
<1>2. ASSUME RemoteRuns, NEW m, m.type = "data_req" => m.ver # 0,
             m.type \notin {"start_rsp", "data_rsp"}, Poll(m)
      PROVE  HInv'
  <2>1. /\ rc' = [rc EXCEPT !.retry = @ - 1] /\ msgs' = msgs \cup {m}
        /\ UNCHANGED <<flash, file, tgt>>
    BY <1>2 DEF Poll, RemoteRuns
  <2>2. /\ rc'.count = rc.count /\ rc'.hcnt = rc.hcnt /\ rc'.offset = rc.offset
        /\ rc'.boot = rc.boot /\ rc'.state = rc.state /\ rc'.ver = rc.ver
        /\ rc'.size = rc.size /\ rc'.try = rc.try
    BY <1>1, <2>1 DEF Fields
  <2>3. New' = New
    BY <2>2, SameBank
  <2>4. \A k \in msgs' : \/ k \in msgs
                         \/ k.type \notin {"start_rsp", "data_req", "data_rsp"}
                         \/ k.type = "data_req" /\ k.ver # 0
    BY <1>2, <2>1
  <2> QED BY <2>1, <2>2, <2>3, <2>4, StillH
<1>3. ASSUME RemoteRuns, NEW r, r \in {[rc EXCEPT !.auto = "none"], [rc EXCEPT !.try = FALSE]},
             GiveUp(r)
      PROVE  HInv'
  <2>1. /\ rc' = [r EXCEPT !.state = "failed"] /\ UNCHANGED <<flash, file, tgt, msgs>>
    BY <1>3 DEF GiveUp, Failed, RemoteRuns
  <2>2. /\ DOMAIN r = Fields /\ r.count = rc.count /\ r.hcnt = rc.hcnt
        /\ r.offset = rc.offset /\ r.boot = rc.boot /\ r.ver = rc.ver /\ r.size = rc.size
        /\ r.try => rc.try
    <3>1. CASE r = [rc EXCEPT !.auto = "none"]
      BY <1>1, <3>1 DEF Fields
    <3>2. CASE r = [rc EXCEPT !.try = FALSE]
      BY <1>1, <3>2 DEF Fields
    <3> QED BY <1>3, <3>1, <3>2
  <2>3. /\ rc'.count = rc.count /\ rc'.hcnt = rc.hcnt /\ rc'.offset = rc.offset
        /\ rc'.boot = rc.boot /\ rc'.state = "failed" /\ rc'.ver = rc.ver
        /\ rc'.size = rc.size /\ rc'.try = r.try
    BY <2>1, <2>2 DEF Fields
  <2>4. New' = New
    BY <2>3, SameBank
  <2> QED BY <2>1, <2>2, <2>3, <2>4, StillH
<1>4. CASE ota_startReqCb
  BY <1>2, <1>3, <1>4 DEF ota_startReqCb, StartReq
<1>5. CASE ota_dataTryReqCb
  <2>1. rc.ver # 0
    BY <1>5 DEF ota_dataTryReqCb, HInv, Known
  <2>2. /\ DataReq(rc.ver, rc.count).type = "data_req"
        /\ DataReq(rc.ver, rc.count).ver = rc.ver
    BY DEF DataReq
  <2> QED BY <1>2, <1>3, <1>5, <2>1, <2>2 DEF ota_dataTryReqCb
<1>6. CASE ota_stopRspCb
  BY <1>2, <1>3, <1>6 DEF ota_stopRspCb, StopReq
<1>7. CASE ota_callBackRestore
  <2>1. UNCHANGED <<flash, rc, msgs, file, tgt>>
    BY <1>7 DEF ota_callBackRestore, RemoteRuns
  <2> QED BY <2>1, StillH DEF New, NewBank
<1> QED BY <1>4, <1>5, <1>6, <1>7 DEF Timers

(* The target answers with what its file is.                               *)
LEMMA TargetH ==
  ASSUME TInv, HInv, (\E m \in msgs : \/ ota_startReqHandler(m) \/ ota_dataReqHandler(m)
                                      \/ ota_stopReqHandler(m))
                     \/ LoadFile
  PROVE  HInv'
<1>1. ASSUME UNCHANGED <<flash, running, rc, pending, app, reboot>>, Sent', Known'
      PROVE  HInv'
  BY <1>1 DEF HInv, Steps, DataInOrder, New, NewBank
<1>2. ASSUME NEW m \in msgs, ota_startReqHandler(m)
      PROVE  HInv'
  <2>1. /\ UNCHANGED <<flash, running, rc, pending, app, reboot, file>>
        /\ tgt'.size = file.size /\ tgt'.ver = file.ver
        /\ Deliver(m, {StartRsp(file.ver, file.size)}, used)
    BY <1>2 DEF ota_startReqHandler, TargetRuns
  <2>2. \A k \in msgs' : k \in msgs \/ k = StartRsp(file.ver, file.size)
    BY <2>1, Delivered
  <2>3. Sent'
    BY <2>1, <2>2 DEF HInv, Sent, StartRsp
  <2>4. Known'
    BY <2>1 DEF HInv, Known
  <2> QED BY <1>1, <2>1, <2>3, <2>4
<1>3. ASSUME NEW m \in msgs, ota_dataReqHandler(m)
      PROVE  HInv'
  <2> DEFINE n   == BlockLen(tgt.size, m.block)
             rsp == DataRsp(tgt.ver, tgt.size, m.block, n)
  <2>1. /\ UNCHANGED <<flash, running, rc, pending, app, reboot, file, tgt>>
        /\ m.type = "data_req"
        /\ (Deliver(m, {rsp}, used) /\ m.ver = tgt.ver) \/ Deliver(m, {}, used)
    BY <1>3 DEF ota_dataReqHandler, TargetRuns
  <2>2. /\ rsp.type = "data_rsp" /\ rsp.ver = tgt.ver /\ rsp.size = tgt.size
        /\ rsp.block = m.block /\ rsp.len = n
    BY DEF DataRsp
  <2>3. \A k \in msgs' : k \in msgs \/ (k = rsp /\ m.ver = tgt.ver)
    <3> HIDE DEF rsp
    <3> QED BY <2>1, Delivered
  <2>4. m.ver # 0
    BY <2>1 DEF HInv, Sent
  <2>5. m.ver = tgt.ver => tgt.ver = file.ver /\ tgt.size = file.size
    BY <2>4 DEF HInv, Known
  <2>6. n = BlockLen(rsp.size, rsp.block)
    BY <2>2
  <2> HIDE DEF rsp, n
  <2>7. Sent'
    BY <2>1, <2>2, <2>3, <2>4, <2>5, <2>6 DEF HInv, Sent
  <2>8. Known'
    BY <2>1 DEF HInv, Known
  <2> QED BY <1>1, <2>1, <2>7, <2>8
<1>4. ASSUME NEW m \in msgs, ota_stopReqHandler(m)
      PROVE  HInv'
  <2>1. /\ UNCHANGED <<flash, running, rc, pending, app, reboot, file, tgt>>
        /\ Deliver(m, {StopRsp(m.ver)}, used) \/ Deliver(m, {}, used)
    BY <1>4 DEF ota_stopReqHandler, TargetRuns
  <2>2. \A k \in msgs' : k \in msgs \/ k = StopRsp(m.ver)
    BY <2>1, Delivered
  <2>3. Sent'
    BY <2>1, <2>2 DEF HInv, Sent, StopRsp
  <2>4. Known'
    BY <2>1 DEF HInv, Known
  <2> QED BY <1>1, <2>1, <2>3, <2>4
<1>5. CASE LoadFile
  <2>1. /\ UNCHANGED <<flash, running, rc, pending, app, reboot>> /\ msgs' = {}
        /\ file' \in Files /\ file'.ver > file.ver /\ tgt'.ver = 0
    BY <1>5 DEF LoadFile
  <2>2. file'.size \in Nat /\ file'.ver \in Nat
    BY <2>1, OtaAssumption DEF Files
  <2>3. Known'
    BY <2>1, <2>2 DEF HInv, Known
  <2>4. Sent'
    BY <2>1 DEF Sent
  <2> QED BY <1>1, <2>1, <2>3, <2>4
<1> QED BY <1>2, <1>3, <1>4, <1>5

(* A session that begins, and the steps of a restart, have written         *)
(* nothing.                                                                *)
LEMMA RebootH ==
  ASSUME TInv, HInv, ota_startReq \/ Rebooting \/ PowerLoss
  PROVE  HInv'
<1>1. ASSUME rc'.ver = 0, rc'.offset = 0, ~rc'.try, UNCHANGED <<file, tgt>>,
             msgs' = msgs \/ msgs' = {}
      PROVE  HInv'
  BY <1>1 DEF HInv, Sent, Known, Steps, DataInOrder
<1>2. CASE ota_startReq
  <2>1. /\ rc' = [NoSession EXCEPT !.state = rc.state, !.retry = Retries,
                                   !.boot = BootAddrVar(mcuBootAddrGet), !.auto = "start"]
        /\ UNCHANGED <<msgs, file, tgt>>
    BY <1>2 DEF ota_startReq, RemoteRuns
  <2>2. rc'.ver = 0 /\ rc'.offset = 0 /\ ~rc'.try
    BY <2>1 DEF NoSession
  <2> QED BY <1>1, <2>1, <2>2
<1>3. CASE WriteFlag \/ ClearFlag
  <2>1. UNCHANGED <<rc, msgs, file, tgt>> /\ New' = New /\ New \in Bank
    BY <1>3 DEF WriteFlag, ClearFlag, New, NewBank, Bank
  <2>2. flash'[New].data = flash[New].data
    <3>1. CASE WriteFlag
      BY <2>1, <3>1 DEF WriteFlag, TInv, FlashOK, New
    <3>2. CASE ClearFlag
      BY <2>1, <3>2 DEF ClearFlag, TInv, FlashOK, New
    <3> QED BY <1>3, <3>1, <3>2
  <2>3. Sent' /\ Known'
    BY <2>1 DEF HInv, Sent, Known
  <2>4. Steps' /\ DataInOrder'
    BY <2>1, <2>2 DEF HInv, Steps, DataInOrder, New
  <2> QED BY <2>3, <2>4 DEF HInv
<1>4. CASE SystemReset \/ PowerLoss
  <2>1. rc' = NoSession /\ msgs' = {} /\ UNCHANGED <<file, tgt>>
    BY <1>4 DEF SystemReset, PowerLoss, Restart
  <2>2. rc'.ver = 0 /\ rc'.offset = 0 /\ ~rc'.try
    BY <2>1 DEF NoSession
  <2> QED BY <1>1, <2>1, <2>2
<1> QED BY <1>2, <1>3, <1>4 DEF Rebooting

(* A block in step continues the image; out of step it is left to the      *)
(* checksums.                                                              *)
LEMMA BlockH ==
  ASSUME TInv, HInv, RemoteRuns, NEW m \in msgs, m.type = "data_rsp", Expected(m),
         NEW failed \in {0, 1}, BlockRsp(m, failed)
  PROVE  HInv'
<1> DEFINE data == BodyUnits(rc, m)
           c    == rc.count * Frame
<1>1. m.len \in 0..Frame /\ m.len \in Nat
  BY Lengths DEF TInv, MsgsOK
<1>2. /\ DOMAIN rc = Fields /\ rc.state \in {"success", "failed", "starting", "dataing"}
      /\ rc.count \in Nat /\ rc.hcnt \in 0..c /\ rc.offset \in 0..rc.hcnt
      /\ rc.hsize \in {0, HdrLen} /\ c \in Nat /\ (rc.count + 1) * Frame = c + Frame
  BY Lengths DEF TInv, RcOK
<1>3. Len(data) \in 0..m.len
  BY <1>1, <1>2, BodyLen
<1>4. /\ DOMAIN rc' = Fields /\ rc'.boot = rc.boot /\ rc'.size = rc.size
      /\ rc'.count = rc.count + 1
      /\ Writes => /\ rc'.hcnt = rc.hcnt + m.len /\ rc'.offset = rc.offset + Len(data)
                   /\ rc'.ver = HeaderVer(rc, m)
      /\ ~Writes => rc'.hcnt = rc.hcnt /\ rc'.offset = rc.offset /\ rc'.ver = rc.ver
      /\ \/ rc'.state \in {"failed", "success"}
         \/ /\ failed = 0 /\ Writes
            /\ rc'.state = IF HeaderEnds(rc, m) THEN "dataing" ELSE rc.state
      /\ \A k \in msgs' : k \in msgs \/ k = DataReq(rc'.ver, rc'.count)
  BY <1>2, BlockFields
<1>5. New' = New /\ UNCHANGED <<file, tgt>>
  BY <1>4, SameBank DEF RemoteRuns
<1>6. /\ m.ver = rc.ver /\ m.block = rc.count
      /\ m.ver = file.ver /\ m.ver # 0 /\ m.size = file.size /\ m.len = BlockLen(m.size, m.block)
  BY DEF Expected, HInv, Sent
<1>7. rc.size = m.size /\ m.size \in Nat /\ rc.ver \in Nat
  BY <1>6 DEF HInv, Known
<1>8. rc'.ver \in {rc.ver, -1} /\ (rc'.ver = -1 => rc.hcnt <= LenAt /\ rc.count # 0)
  <2>1. CASE Writes
    <3>1. HeaderVer(rc, m) = rc.ver \/ (HeaderVer(rc, m) = -1 /\ rc.hcnt <= LenAt /\ m.block # 0)
      <4>1. CASE HasFields(rc, m.len) /\ m.block # 0
        <5>1. LenAt \in rc.hcnt..(rc.hcnt + m.len - 1)
          BY <4>1 DEF HasFields
        <5>2. rc.hcnt <= LenAt
          BY <1>1, <1>2, <5>1, Lengths
        <5> QED BY <4>1, <5>2 DEF HeaderVer
      <4>2. CASE ~(HasFields(rc, m.len) /\ m.block # 0)
        BY <1>6, <4>2 DEF HeaderVer
      <4> QED BY <4>1, <4>2
    <3> QED BY <1>4, <1>6, <1>7, <2>1, <3>1
  <2>2. CASE ~Writes
    BY <1>4, <1>7, <2>2
  <2> QED BY <2>1, <2>2
<1>9. rc'.hcnt >= rc.hcnt /\ rc'.hcnt \in Nat
  BY <1>1, <1>2, <1>4
<1>10. HeaderEnds(rc, m) =>
         /\ HeaderSize(rc, m) = HdrLen /\ rc.state = "starting"
         /\ rc.hcnt <= HdrLen /\ HdrLen < rc.hcnt + m.len
  <2>1. HeaderSize(rc, m) \in {0, HdrLen}
    BY <1>2 DEF HeaderSize
  <2>2. ASSUME HeaderEnds(rc, m)
        PROVE  HeaderSize(rc, m) = HdrLen /\ rc.state = "starting"
               /\ HdrLen - rc.hcnt \in 0..(m.len - 1)
    BY <2>1, <2>2 DEF HeaderEnds
  <2>3. ASSUME HdrLen - rc.hcnt \in 0..(m.len - 1)
        PROVE  rc.hcnt <= HdrLen /\ HdrLen < rc.hcnt + m.len
    BY <1>1, <1>2, <2>3, Lengths
  <2> QED BY <2>2, <2>3
<1>11. rc.state = "dataing" => rc.hcnt > HdrLen
  BY <1>6 DEF HInv, Steps
<1>12. data # <<>> => rc.state = "dataing" \/ HeaderEnds(rc, m)
  BY DEF BodyUnits
<1>13. Writes /\ (rc.state = "dataing" \/ HeaderEnds(rc, m)) => rc'.hcnt > HdrLen
  BY <1>1, <1>2, <1>4, <1>9, <1>10, <1>11, Lengths
<1>14. Sent'
  <2>1. rc'.ver # 0
    BY <1>6, <1>8
  <2>2. DataReq(rc'.ver, rc'.count).type = "data_req" /\ DataReq(rc'.ver, rc'.count).ver = rc'.ver
    BY DEF DataReq
  <2> QED BY <1>4, <1>5, <2>1, <2>2 DEF HInv, Sent
<1>15. Known'
  BY <1>4, <1>5, <1>6, <1>7, <1>8 DEF HInv, Known
<1>16. failed = 0 => FlashOK /\ BlockRsp(m, 0)
  BY DEF TInv
<1>17. Steps'
  <2>1. ASSUME rc'.offset # 0 PROVE rc'.hcnt > HdrLen
    <3>1. CASE Writes /\ data # <<>>
      BY <1>12, <1>13, <3>1
    <3>2. CASE rc'.offset = rc.offset
      BY <1>2, <1>9, <2>1, <3>2, Lengths DEF HInv, Steps
    <3>3. CASE Writes /\ data = <<>>
      <4>1. Len(data) = 0
        BY <3>3
      <4>2. rc'.offset = rc.offset
        BY <1>2, <1>4, <3>3, <4>1
      <4> QED BY <3>2, <4>2
    <3> QED BY <1>4, <3>1, <3>2, <3>3
  <2>2. ASSUME rc'.state = "dataing" PROVE rc'.hcnt > HdrLen
    BY <1>4, <1>13, <2>2 DEF Writes
  <2>3. ASSUME rc'.state = "starting", rc'.hcnt <= HdrLen PROVE flash'[New'].data = <<>>
    <3>1. failed = 0 /\ Writes /\ ~HeaderEnds(rc, m) /\ rc.state = "starting"
      BY <1>4, <2>3
    <3>2. data = <<>>
      BY <1>12, <3>1
    <3>3. rc.hcnt <= HdrLen
      BY <1>2, <1>9, <2>3, Lengths
    <3>4. flash[New].data = <<>>
      BY <1>6, <3>1, <3>3 DEF HInv, Steps
    <3>5. flash'[New].data = flash[New].data
      BY <1>16, <3>1, <3>2, BlockFlash
    <3> QED BY <1>5, <3>4, <3>5
  <2> QED BY <2>1, <2>2, <2>3 DEF Steps
<1>18. DataInOrder'
  <2> SUFFICES ASSUME rc'.state = "dataing", rc'.ver # 0, rc'.hcnt = rc'.count * Frame
               PROVE  /\ flash'[New'].data = SubSeq(Image(rc'.ver, rc'.size), 1, rc'.offset)
                      /\ rc'.hcnt = HdrLen + SignLen + rc'.offset
    BY DEF DataInOrder, New
  <2>1. failed = 0 /\ Writes /\ (rc.state = "dataing" \/ HeaderEnds(rc, m))
    BY <1>4
  <2>2. m.len = Frame /\ rc.hcnt = c
    <3>1. rc'.hcnt = c + Frame /\ rc'.hcnt = rc.hcnt + m.len
      BY <1>2, <1>4, <2>1
    <3> QED BY <1>1, <1>2, <3>1, Lengths
  <2>3. c + Frame < rc.size
    BY <1>2, <1>6, <1>7, <2>2, WholeFrame
  <2>4. rc'.ver = rc.ver
    <3>1. CASE rc'.ver = -1
      <4>1. c <= LenAt /\ rc.count >= 1
        BY <1>2, <1>8, <2>2, <3>1
      <4>2. c >= Frame
        BY <1>2, <4>1, Lengths
      <4> QED BY <1>2, <4>1, <4>2, Lengths
    <3> QED BY <1>8, <3>1
  <2> DEFINE o == rc.offset
             n == Frame - Skipped(rc, m)
  <2>5. /\ o \in Nat /\ n \in Nat /\ o + n = c + Frame - HdrLen - SignLen
        /\ c + Skipped(rc, m) - HdrLen - SignLen = o
        /\ flash[New].data = SubSeq(Image(rc.ver, rc.size), 1, o)
    <3>1. CASE rc.state = "dataing"
      <4>1. /\ flash[New].data = SubSeq(Image(rc.ver, rc.size), 1, o)
            /\ rc.hcnt = HdrLen + SignLen + o
        BY <1>6, <2>2, <3>1 DEF HInv, DataInOrder, New
      <4>2. Skipped(rc, m) = 0
        BY <3>1 DEF Skipped, HeaderEnds
      <4>3. c \in Nat /\ o \in Nat /\ rc.hcnt = c
        BY <1>2, <2>2
      <4> HIDE DEF c, o
      <4>4. /\ n \in Nat /\ o + n = c + Frame - HdrLen - SignLen
            /\ c + Skipped(rc, m) - HdrLen - SignLen = o
        BY <4>1, <4>2, <4>3, Lengths
      <4> QED BY <4>1, <4>3, <4>4
    <3>2. CASE HeaderEnds(rc, m)
      <4>1. rc.hcnt <= HdrLen /\ HdrLen < c + Frame /\ rc.state = "starting"
        BY <1>10, <2>2, <3>2
      <4>2. o = 0 /\ flash[New].data = <<>>
        BY <1>2, <1>6, <4>1, Lengths DEF HInv, Steps
      <4>3. Skipped(rc, m) = HdrLen - c + SignLen
        BY <1>10, <2>2, <3>2 DEF Skipped
      <4>4. HdrLen - c \in 0..(Frame - 1)
        BY <1>2, <2>2, <4>1, Lengths
      <4>5. HdrLen - c + SignLen <= Frame
        BY <1>2, <4>4, HeaderBlock
      <4>6. SubSeq(Image(rc.ver, rc.size), 1, 0) = <<>>
        BY SubSeqEmpty
      <4>7. /\ o \in Nat /\ n \in Nat /\ o + n = c + Frame - HdrLen - SignLen
            /\ c + Skipped(rc, m) - HdrLen - SignLen = o
        <5>1. c \in Nat
          BY <1>2
        <5> HIDE DEF c
        <5>2. Skipped(rc, m) \in Int /\ Skipped(rc, m) = HdrLen - c + SignLen
          BY <4>3, <5>1, Lengths
        <5>3. n \in Nat /\ o + n = c + Frame - HdrLen - SignLen
          BY <4>2, <4>5, <5>1, <5>2, Lengths
        <5>4. c + Skipped(rc, m) - HdrLen - SignLen = o
          BY <4>2, <5>1, <5>2, Lengths
        <5> QED BY <4>2, <5>3, <5>4
      <4> QED BY <4>2, <4>6, <4>7
    <3> QED BY <2>1, <3>1, <3>2
  <2>6. data = [i \in 1..n |-> <<rc.ver, rc.size, o + i>>]
    <3>1. data = [i \in 1..(m.len - Skipped(rc, m)) |->
             <<m.ver, m.size, m.block * Frame + Skipped(rc, m) + i - HdrLen - SignLen>>]
      BY <2>1, Zenon DEF BodyUnits
    <3>2. data = [i \in 1..n |-> <<rc.ver, rc.size, c + Skipped(rc, m) + i - HdrLen - SignLen>>]
      BY <1>6, <1>7, <2>2, <3>1
    <3>3. Skipped(rc, m) \in Int
      BY <2>5, <1>2, Lengths, <2>1, <1>10 DEF Skipped, HeaderEnds
    <3>4. \A i \in 1..n : c + Skipped(rc, m) + i - HdrLen - SignLen = o + i
      <4>1. /\ c \in Nat /\ o \in Nat /\ n \in Nat
            /\ c + Skipped(rc, m) - HdrLen - SignLen = o
        BY <1>2, <2>5
      <4> HIDE DEF data, n, o, c
      <4> QED BY <3>3, <4>1, Lengths
    <3> HIDE DEF data, n, o, c
    <3> QED BY <3>2, <3>4
  <2>7. Len(data) = n
    <3>1. n \in Nat
      BY <2>5
    <3> HIDE DEF data, n, o
    <3> QED BY <2>6, <3>1
  <2>8. rc'.offset = o + n
    BY <1>4, <2>1, <2>7
  <2>9. rc'.hcnt = HdrLen + SignLen + rc'.offset
    <3>1. c \in Nat /\ rc'.hcnt = c + Frame
      BY <1>2, <1>4, <2>1, <2>2
    <3>2. o \in Nat /\ n \in Nat /\ o + n = c + Frame - HdrLen - SignLen
      BY <2>5
    <3> HIDE DEF c, o, n
    <3> QED BY <2>8, <3>1, <3>2, Lengths
  <2>10. o + n <= Body(rc.size)
    <3>1. /\ c \in Nat /\ rc.size \in Nat /\ c + Frame < rc.size
          /\ o + n = c + Frame - HdrLen - SignLen
      BY <1>2, <1>7, <2>3, <2>5
    <3> HIDE DEF c, o, n
    <3> QED BY <3>1, Lengths DEF Body
  <2>11. flash'[New].data = SubSeq(Image(rc.ver, rc.size), 1, o + n)
    <3>1. CASE data = <<>>
      <4>1. n = 0 /\ o + n = o
        <5>1. Len(data) = 0
          BY <3>1
        <5> QED BY <2>5, <2>7, <5>1
      <4>2. flash'[New].data = flash[New].data
        <5>1. FlashOK /\ BlockRsp(m, 0)
          BY <1>16, <2>1
        <5> QED BY <3>1, <5>1, BlockFlash
      <4> QED BY <2>5, <4>1, <4>2
    <3>2. CASE data # <<>>
      <4>1. flash'[New].data = Written(flash[New].data, o, data)
        <5>1. FlashOK /\ BlockRsp(m, 0)
          BY <1>16, <2>1
        <5> QED BY <3>2, <5>1, BlockFlash
      <4>2. rc.size \in Int
        BY <1>7
      <4>3. o \in Nat /\ n \in Nat /\ flash[New].data = SubSeq(Image(rc.ver, rc.size), 1, o)
        BY <2>5
      <4> HIDE DEF data, o, n
      <4>4. Written(flash[New].data, o, data) = SubSeq(Image(rc.ver, rc.size), 1, o + n)
        <5>1. Part(flash[New].data, rc.ver, rc.size, o) /\ Units(data, rc.ver, rc.size, o, n)
          BY <2>6, <4>3 DEF Units, Part
        <5>2. Fits(rc.size, o, n)
          BY <2>10, <4>2, <4>3 DEF Fits
        <5>3. Part(Written(flash[New].data, o, data), rc.ver, rc.size, o + n)
          BY <5>1, <5>2, WrittenIs, Zenon
        <5> QED BY <5>3 DEF Part
      <4> QED BY <4>1, <4>4
    <3> QED BY <3>1, <3>2
  <2> QED BY <1>4, <1>5, <2>4, <2>8, <2>9, <2>11
<1> QED BY <1>14, <1>15, <1>17, <1>18 DEF HInv

(* The answers the remote gets.                                            *)
LEMMA AnswerH ==
  ASSUME IInv, TInv, HInv, NEW m \in msgs,
         ota_startRspHandler(m) \/ ota_dataRspHandler(m) \/ ota_stopRspHandler(m)
  PROVE  HInv'
<1>1. DOMAIN rc = Fields
  BY DEF TInv, RcOK
<1>2. CASE ota_startRspHandler(m)
  <2> DEFINE r == [rc EXCEPT !.ver = m.ver, !.size = m.size, !.auto = "none"]
             s == Asking([r EXCEPT !.state = "starting"])
  <2>1. /\ RemoteRuns /\ m.type = "start_rsp" /\ UNCHANGED <<file, tgt>> /\ reboot = "none"
        /\ \/ /\ rc' = s /\ Erase(NewBank(rc)) /\ Accepted(m)
              /\ Deliver(m, {DataReq(s.ver, s.count)}, used)
           \/ /\ rc' = [Failed(IF Accepted(m) THEN r ELSE rc) EXCEPT !.retry = 0, !.auto = "none"]
              /\ UNCHANGED flash /\ Deliver(m, {}, used)
    BY <1>2 DEF ota_startRspHandler, RemoteRuns
  <2>2. m.ver = file.ver /\ m.size = file.size /\ file.ver \in Nat
    BY <2>1 DEF HInv, Sent, Known
  <2>3. Accepted(m) => m.ver # 0
    BY <2>1, <2>2, RunsVersion DEF Accepted
  <2>4. /\ DOMAIN r = Fields /\ r.count = rc.count /\ r.hcnt = rc.hcnt
        /\ r.offset = rc.offset /\ r.boot = rc.boot
        /\ r.ver = m.ver /\ r.size = m.size /\ r.try = rc.try
    BY <1>1 DEF Fields
  <2>5. /\ s.count = rc.count /\ s.hcnt = rc.hcnt /\ s.offset = rc.offset /\ s.boot = rc.boot
        /\ s.ver = m.ver /\ s.size = m.size /\ s.state = "starting"
    <3> HIDE DEF r
    <3> QED BY <2>4 DEF Fields, Asking
  <2> HIDE DEF r, s
  <2>6. CASE /\ rc' = s /\ Erase(NewBank(rc)) /\ Accepted(m)
             /\ Deliver(m, {DataReq(s.ver, s.count)}, used)
    <3>1. New' = New /\ New \in Bank
      BY <2>5, <2>6, SameBank
    <3>2. flash'[New].data = <<>>
      BY <2>6, <3>1 DEF Erase, New, TInv, FlashOK
    <3>3. \A k \in msgs' : k \in msgs \/ k = DataReq(s.ver, s.count)
      BY <2>6, Delivered
    <3>4. Sent'
      <4>1. DataReq(s.ver, s.count).type = "data_req" /\ DataReq(s.ver, s.count).ver # 0
        BY <2>3, <2>5, <2>6 DEF DataReq
      <4> QED BY <2>1, <3>3, <4>1 DEF HInv, Sent
    <3>5. Known'
      BY <2>1, <2>2, <2>3, <2>5, <2>6 DEF HInv, Known
    <3>6. Steps'
      BY <2>5, <2>6, <3>1, <3>2 DEF HInv, Steps
    <3>7. DataInOrder'
      BY <2>5, <2>6 DEF DataInOrder
    <3> QED BY <3>4, <3>5, <3>6, <3>7 DEF HInv
  <2>7. CASE /\ rc' = [Failed(IF Accepted(m) THEN r ELSE rc) EXCEPT !.retry = 0, !.auto = "none"]
             /\ UNCHANGED flash /\ Deliver(m, {}, used)
    <3> DEFINE q == IF Accepted(m) THEN r ELSE rc
    <3>1. /\ DOMAIN q = Fields /\ q.count = rc.count /\ q.hcnt = rc.hcnt
          /\ q.offset = rc.offset /\ q.boot = rc.boot /\ q.try = rc.try
          /\ \/ q.ver = rc.ver /\ q.size = rc.size
             \/ q.ver = file.ver /\ q.size = file.size /\ q.ver # 0
      BY <1>1, <2>2, <2>3, <2>4
    <3>2. rc' = [Failed(q) EXCEPT !.retry = 0, !.auto = "none"]
      BY <2>7
    <3> HIDE DEF q
    <3>3. /\ rc'.count = q.count /\ rc'.hcnt = q.hcnt /\ rc'.offset = q.offset
          /\ rc'.boot = q.boot /\ rc'.state = "failed" /\ rc'.ver = q.ver
          /\ rc'.size = q.size /\ rc'.try = q.try
      BY <3>1, <3>2 DEF Fields, Failed
    <3>4. New' = New
      BY <3>1, <3>3, SameBank
    <3>5. \A k \in msgs' : k \in msgs
      BY <2>7, Delivered
    <3> QED BY <2>1, <2>7, <3>1, <3>3, <3>4, <3>5, StillH
  <2> QED BY <2>1, <2>6, <2>7
<1>3. CASE ota_dataRspHandler(m)
  <2>1. RemoteRuns /\ Expected(m) /\ m.type = "data_rsp"
    BY <1>3 DEF ota_dataRspHandler
  <2>2. CASE EmptyRsp(m)
    <3>1. /\ rc' = [[rc EXCEPT !.auto = "none", !.try = FALSE] EXCEPT !.state = "failed"]
          /\ UNCHANGED flash /\ Deliver(m, {}, used)
      BY <2>2 DEF EmptyRsp, Failed
    <3>2. /\ rc'.count = rc.count /\ rc'.hcnt = rc.hcnt /\ rc'.offset = rc.offset
          /\ rc'.boot = rc.boot /\ rc'.state = "failed" /\ rc'.ver = rc.ver
          /\ rc'.size = rc.size /\ ~rc'.try
      BY <1>1, <3>1 DEF Fields
    <3>3. New' = New
      BY <3>2, SameBank
    <3>4. \A k \in msgs' : k \in msgs
      BY <3>1, Delivered
    <3> QED BY <2>1, <3>1, <3>2, <3>3, <3>4, StillH DEF RemoteRuns
  <2>3. CASE \E failed \in {0, 1} : BlockRsp(m, failed)
    BY <2>1, <2>3, BlockH
  <2> QED BY <1>3, <2>2, <2>3 DEF ota_dataRspHandler
<1>4. CASE ota_stopRspHandler(m)
  <2>1. /\ RemoteRuns /\ UNCHANGED <<flash, file, tgt>> /\ Deliver(m, {}, used)
        /\ rc' \in {[rc EXCEPT !.auto = "none"], [rc EXCEPT !.state = "failed"]}
    BY <1>4 DEF ota_stopRspHandler, Failed, RemoteRuns
  <2>2. /\ rc'.count = rc.count /\ rc'.hcnt = rc.hcnt /\ rc'.offset = rc.offset
        /\ rc'.boot = rc.boot /\ rc'.state \in {rc.state, "failed"} /\ rc'.ver = rc.ver
        /\ rc'.size = rc.size /\ rc'.try = rc.try
    BY <1>1, <2>1 DEF Fields
  <2>3. New' = New
    BY <2>2, SameBank
  <2>4. \A k \in msgs' : k \in msgs
    BY <2>1, Delivered
  <2> QED BY <2>1, <2>2, <2>3, <2>4, StillH
<1> QED BY <1>2, <1>3, <1>4

(* While the body is received in step the bank holds the part of the image *)
(* that the counters say: no block twice, none missing, none of another    *)
(* file, whatever is lost, late, repeated or fails                         *)
(* (ota_dataRspHandler, ota_DataProcess) - as long as no session writes    *)
(* the bank the remote runs from, whose version it compares with.          *)
THEOREM DataInOrderTheorem == Spec /\ []RunningBankSpared => []DataInOrder
<1>1. Init => HInv
  <2> SUFFICES ASSUME Init PROVE HInv
    OBVIOUS
  <2>1. rc.ver = 0 /\ rc.offset = 0 /\ ~rc.try /\ msgs = {} /\ tgt.ver = 0
    BY DEF Init, NoSession
  <2>2. file.ver \in Nat /\ file.size \in Nat
    BY FileIs
  <2> QED BY <2>1, <2>2 DEF HInv, Sent, Known, Steps, DataInOrder
<1>2. IInv /\ TInv /\ HInv /\ [Next]_vars => HInv'
  <2> SUFFICES ASSUME IInv, TInv, HInv, [Next]_vars PROVE HInv'
    OBVIOUS
  <2>1. CASE tl_appOtaCmdHandler
    BY <2>1, AnswerH, TargetH DEF tl_appOtaCmdHandler
  <2>2. CASE UNCHANGED vars
    BY <2>2 DEF vars, HInv, Sent, Known, Steps, DataInOrder, New, NewBank
  <2> QED BY <2>1, <2>2, TimerH, TargetH, RebootH DEF Next
<1>3. HInv => DataInOrder
  BY DEF HInv
<1> QED BY <1>1, <1>2, <1>3, InitIInv, StepIInv, InitTInv, StepTInv, PTL DEF Spec
=============================================================================
