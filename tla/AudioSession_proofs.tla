------------------------ MODULE AudioSession_proofs -------------------------
(***************************************************************************)
(* Proofs about the audio session, for every number of channels, range of  *)
(* energies, number of retries and length of the timers.                   *)
(*                                                                         *)
(* The inductive invariant says what the scan knows of the channels it has *)
(* measured (Best), that the result of a scan and its timers go together,  *)
(* and that every answer under way names the channel the dongle listens    *)
(* on, as long as no scan began behind it.                                 *)
(*                                                                         *)
(* The second half is how many frames are on their way at a time, and what *)
(* must have been lost before the remote gives up.                         *)
(***************************************************************************)
EXTENDS AudioSession, SequenceTheorems, TLAPS

SomeChannel == Channel \cup {NoChannel}

Rsp == [channel : SomeChannel, left : Nat]

Types ==
  /\ curChannelIdx \in Nat
  /\ bestChannel \in SomeChannel /\ bestChannelEnergy \in Energy
  /\ dChan \in SomeChannel /\ rChan \in SomeChannel
  /\ measured \in Seq(Energy)
  /\ rsps \in Seq(Rsp)
  /\ scanTimer \in BOOLEAN /\ mic \in BOOLEAN /\ rescan \in BOOLEAN
  /\ scanSta \in {"IDLE", "DOING", "DONE"}
  /\ life \in Nat \cup {Off}

(* bestChannel is a channel of the least energy measured, if any energy    *)
(* was below the largest.                                                  *)
Best ==
  /\ \A i \in DOMAIN measured : bestChannelEnergy <= measured[i]
  /\ bestChannelEnergy # EdMax =>
       /\ bestChannel \in Channel
       /\ bestChannel + 1 \in DOMAIN measured
       /\ measured[bestChannel + 1] = bestChannelEnergy

Scanning ==
  scanTimer =>
    /\ curChannelIdx < ChannelNum
    /\ Len(measured) = curChannelIdx
    /\ \A i \in DOMAIN measured : measured[i] > EdQuiet
    /\ Best

Scanned ==
  scanSta = "DONE" =>
    /\ dChan = bestChannel
    /\ Best
    /\ bestChannelEnergy # EdMax => \A i \in 1..bestChannel : measured[i] > EdQuiet

Agreed ==
  ~rescan =>
    /\ mic => rChan = dChan
    /\ mic \/ rsps # <<>> => ~scanTimer
    /\ \A i \in DOMAIN rsps : rsps[i].channel = dChan

IInv == Types /\ ResultTimed /\ Scanning /\ Scanned /\ Agreed

-----------------------------------------------------------------------------
(* What taking or losing the oldest answer leaves, and what an answer      *)
(* adds, for the answers under way.                                        *)
LEMMA RspTail ==
  ASSUME NEW s \in Seq(Rsp), s # <<>>, NEW c, \A i \in DOMAIN s : s[i].channel = c
  PROVE  /\ Tail(s) \in Seq(Rsp)
         /\ \A i \in DOMAIN Tail(s) : Tail(s)[i].channel = c
         /\ Head(s) \in Rsp /\ Head(s).channel = c
<1>1. /\ Tail(s) \in Seq(Rsp) /\ Len(Tail(s)) = Len(s) - 1
      /\ \A i \in 1..Len(Tail(s)) : Tail(s)[i] = s[i + 1]
      /\ Head(s) = s[1]
  BY HeadTailProperties
<1>2. Len(s) \in Nat /\ Len(s) # 0 /\ DOMAIN s = 1..Len(s) /\ DOMAIN Tail(s) = 1..Len(Tail(s))
  BY <1>1, LenProperties, EmptySeq
<1>3. 1 \in DOMAIN s /\ s[1] \in Rsp
  BY <1>2, ElementOfSeq
<1>4. ASSUME NEW i \in DOMAIN Tail(s) PROVE Tail(s)[i].channel = c
  <2>1. i \in 1..Len(Tail(s)) /\ i + 1 \in DOMAIN s
    BY <1>1, <1>2
  <2> QED BY <1>1, <2>1
<1> QED BY <1>1, <1>3, <1>4

(* The types of the answers alone.                                         *)
LEMMA RspTailType ==
  ASSUME NEW s \in Seq(Rsp), s # <<>>
  PROVE  Tail(s) \in Seq(Rsp) /\ Head(s) \in Rsp
BY HeadTailProperties, LenProperties, EmptySeq, ElementOfSeq

-----------------------------------------------------------------------------
(* Before the first key nothing was measured and nobody has a channel.     *)
THEOREM InitIInv == Init => IInv
<1> SUFFICES ASSUME Init PROVE IInv
  OBVIOUS
<1> USE ScanAssumption, SessionAssumption
<1>1. Types
  <2>1. 0 \in Channel /\ 0 \in SomeChannel /\ 0 \in Energy
    BY DEF Channel, SomeChannel, Energy
  <2>2. dChan \in SomeChannel /\ bestChannel \in SomeChannel
    BY DEF Init, ScanInit, SomeChannel
  <2>3. measured \in Seq(Energy) /\ rsps \in Seq(Rsp)
    BY EmptySeq DEF Init, ScanInit
  <2> QED BY <2>1, <2>2, <2>3 DEF Types, Init, ScanInit
<1>2. ResultTimed
  BY DEF ResultTimed, Init, ScanInit
<1>3. Scanning /\ Scanned
  BY DEF Scanning, Scanned, Init, ScanInit
<1>4. Agreed
  BY DEF Agreed, Init, ScanInit
<1> QED BY <1>1, <1>2, <1>3, <1>4 DEF IInv

-----------------------------------------------------------------------------
(* The remote's steps leave the scan alone.                                *)
LEMMA ScanKept ==
  ASSUME Scanning, Scanned, UNCHANGED <<scanVars, scanSta>>
  PROVE  Scanning' /\ Scanned'
BY DEF scanVars, Scanning, Scanned, Best

(* A key sends the first request; no channel and no answer changes.        *)
LEMMA KeyStep ==
  ASSUME IInv, app_audioStart PROVE IInv'
<1> USE DEF app_audioStart, dongleVars, IInv
<1>1. Types' /\ ResultTimed'
  BY DEF Types, scanVars, ResultTimed
<1>2. Scanning' /\ Scanned'
  BY ScanKept
<1>3. Agreed'
  BY DEF Agreed, scanVars, Types
<1> QED BY <1>1, <1>2, <1>3

(* Giving up, a retry or a stop can only close the microphone.             *)
LEMMA RetryStep ==
  ASSUME IInv, GiveUp \/ Retry \/ tl_audio_stop PROVE IInv'
<1> USE DEF IInv
<1>1. /\ UNCHANGED <<scanVars, scanSta, life, rsps, rChan, rescan>>
      /\ mic' = mic \/ mic' = FALSE
  BY DEF GiveUp, Retry, tl_audio_stop, dongleVars, airVars, histVars
<1>2. Types' /\ ResultTimed'
  BY <1>1 DEF Types, scanVars, ResultTimed
<1>3. Scanning' /\ Scanned'
  BY <1>1, ScanKept
<1>4. Agreed'
  BY <1>1 DEF Agreed, scanVars, Types
<1> QED BY <1>2, <1>3, <1>4

(* An answer that opens the microphone names the dongle's channel.         *)
LEMMA StartRspStep ==
  ASSUME IInv, StartRsp PROVE IInv'
<1> USE DEF StartRsp, dongleVars, histVars, IInv
<1>1. Tail(rsps) \in Seq(Rsp) /\ Head(rsps) \in Rsp
  BY RspTailType DEF Types
<1>2. Types' /\ ResultTimed'
  BY <1>1 DEF Types, scanVars, ResultTimed, Rsp
<1>3. Scanning' /\ Scanned'
  BY ScanKept
<1>4. Agreed'
  <2>1. ASSUME ~rescan PROVE /\ Head(rsps).channel = dChan
                             /\ \A i \in DOMAIN Tail(rsps) : Tail(rsps)[i].channel = dChan
    BY <2>1, RspTail DEF Agreed, Types
  <2> QED BY <2>1 DEF Agreed, scanVars, Types
<1> QED BY <1>2, <1>3, <1>4

-----------------------------------------------------------------------------
(* The dongle answers only when its scan is over.                          *)
LEMMA AnsweredStep ==
  ASSUME IInv, StartReq, Answered PROVE IInv'
<1> USE DEF StartReq, Answered, dongleVars, remoteVars, IInv
<1> DEFINE r == [channel |-> dChan, left |-> FlightTime]
<1>1. r \in Rsp
  BY SessionAssumption DEF Types, Rsp
<1>2. /\ Append(rsps, r) \in Seq(Rsp)
      /\ \A i \in 1..Len(rsps) : Append(rsps, r)[i] = rsps[i]
      /\ Append(rsps, r)[Len(rsps) + 1] = r
      /\ Len(Append(rsps, r)) = Len(rsps) + 1
  BY <1>1, AppendProperties DEF Types
<1>3. Types' /\ ResultTimed'
  BY <1>2 DEF Types, scanVars, ResultTimed
<1>4. Scanning' /\ Scanned'
  BY ScanKept
<1>5. Agreed'
  <2>1. ~scanTimer
    BY DEF ResultTimed, Types
  <2>2. Len(rsps) \in Nat /\ DOMAIN rsps = 1..Len(rsps)
        /\ DOMAIN Append(rsps, r) = 1..(Len(rsps) + 1)
    BY <1>2, LenProperties DEF Types
  <2>3. ASSUME ~rescan, NEW i \in DOMAIN Append(rsps, r)
        PROVE  Append(rsps, r)[i].channel = dChan
    <3>1. CASE i \in 1..Len(rsps)
      BY <3>1, <2>2, <2>3, <1>2 DEF Agreed
    <3>2. CASE i = Len(rsps) + 1
      BY <3>2, <1>2
    <3> QED BY <3>1, <3>2, <2>2
  <2> QED BY <2>1, <2>3 DEF Agreed, scanVars, Types
<1> QED BY <1>3, <1>4, <1>5

(* A scan that begins with an answer under way is what rescan remembers.   *)
LEMMA ScansStep ==
  ASSUME IInv, StartReq, Scans PROVE IInv'
<1> USE DEF StartReq, Scans, app_edScanStart, remoteVars, IInv
<1>1. ~scanTimer
  BY DEF ResultTimed
<1>2. Types'
  <2>1. 0 \in SomeChannel /\ EdMax \in Energy /\ <<>> \in Seq(Energy)
    BY ScanAssumption, EmptySeq DEF SomeChannel, Channel, Energy
  <2> QED BY <1>1, <2>1 DEF Types
<1>3. ResultTimed'
  BY <1>1, SessionAssumption DEF ResultTimed, Types
<1>4. Scanning' /\ Scanned'
  <2>1. measured' = <<>> /\ Len(measured') = 0 /\ DOMAIN measured' = {}
    BY <1>1
  <2>2. Best'
    BY <1>1, <2>1 DEF Best
  <2> QED BY <1>1, <2>1, <2>2, ScanAssumption DEF Scanning, Scanned
<1>5. Agreed'
  <2>1. ASSUME ~rescan' PROVE ~mic' /\ rsps' = <<>>
    BY <2>1 DEF Types
  <2> QED BY <2>1 DEF Agreed, Types
<1> QED BY <1>2, <1>3, <1>4, <1>5

(* A request that reaches the dongle is answered or begins a scan.         *)
LEMMA StartReqStep ==
  ASSUME IInv, StartReq PROVE IInv'
<1>1. CASE Answered
  BY <1>1, AnsweredStep
<1>2. CASE Scans
  BY <1>2, ScansStep
<1>3. CASE Ignored
  <2> USE <1>3 DEF StartReq, Ignored, dongleVars, remoteVars, IInv
  <2>1. Types' /\ ResultTimed'
    BY DEF Types, scanVars, ResultTimed
  <2>2. Scanning' /\ Scanned'
    BY ScanKept
  <2>3. Agreed'
    BY DEF Agreed, scanVars, Types
  <2> QED BY <2>1, <2>2, <2>3
<1> QED BY <1>1, <1>2, <1>3 DEF StartReq

-----------------------------------------------------------------------------
(* The energy of the next channel.  While the scan runs, nobody depends on *)
(* the channel.                                                            *)
LEMMA MeasureStep ==
  ASSUME IInv, NEW e \in Energy, Measure(e) PROVE IInv'
<1> USE DEF IInv
<1> USE ScanAssumption, SessionAssumption
<1>1. /\ scanTimer /\ scanSta = "DOING" /\ life = Off
      /\ Len(measured) = curChannelIdx /\ curChannelIdx \in Channel
      /\ DOMAIN measured = 1..curChannelIdx
      /\ \A i \in DOMAIN measured : measured[i] > EdQuiet
      /\ Best
  <2>1. scanTimer /\ scanSta = "DOING"
    BY DEF Measure, app_energyScanCb, ResultTimed
  <2>2. life = Off
    BY <2>1 DEF ResultTimed
  <2>3. curChannelIdx \in Channel
    BY <2>1 DEF Scanning, Types, Channel
  <2>4. DOMAIN measured = 1..Len(measured)
    BY LenProperties DEF Types
  <2> QED BY <2>1, <2>2, <2>3, <2>4 DEF Scanning
<1>2. /\ measured' \in Seq(Energy)
      /\ DOMAIN measured' = 1..(curChannelIdx + 1) /\ Len(measured') = curChannelIdx + 1
      /\ \A i \in 1..curChannelIdx : measured'[i] = measured[i]
      /\ measured'[curChannelIdx + 1] = e
  <2>1. measured' = Append(measured, e)
    BY DEF Measure, app_energyScanCb
  <2>2. measured \in Seq(Energy)
    BY DEF Types
  <2>3. Append(measured, e) \in Seq(Energy) /\ Len(Append(measured, e)) = Len(measured) + 1
        /\ \A i \in 1..Len(measured) : Append(measured, e)[i] = measured[i]
        /\ Append(measured, e)[Len(measured) + 1] = e
    BY <2>2, AppendProperties
  <2> QED BY <1>1, <2>1, <2>3, LenProperties
<1>3. /\ e \in Nat /\ e <= EdMax /\ bestChannelEnergy \in Nat /\ bestChannelEnergy <= EdMax
      /\ curChannelIdx \in Nat /\ curChannelIdx < ChannelNum
      /\ EdMax \in Nat /\ EdQuiet \in Nat /\ EdQuiet < EdMax
      /\ \A i \in 1..curChannelIdx :
           measured'[i] \in Nat /\ measured'[i] > EdQuiet /\ bestChannelEnergy <= measured'[i]
  <2>1. e \in Nat /\ e <= EdMax /\ bestChannelEnergy \in Nat /\ bestChannelEnergy <= EdMax
    BY DEF Types, Energy
  <2>2. curChannelIdx \in Nat /\ curChannelIdx < ChannelNum
    BY <1>1 DEF Channel
  <2>3. ASSUME NEW i \in 1..curChannelIdx
        PROVE  measured[i] \in Nat /\ measured[i] > EdQuiet /\ bestChannelEnergy <= measured[i]
    <3>1. i \in DOMAIN measured /\ measured \in Seq(Energy)
      BY <1>1 DEF Types
    <3>2. measured[i] \in Energy
      BY <3>1, ElementOfSeq, LenProperties
    <3>3. bestChannelEnergy <= measured[i] /\ measured[i] > EdQuiet
      BY <3>1, <1>1 DEF Best
    <3> QED BY <3>2, <3>3 DEF Energy
  <2> QED BY <2>1, <2>2, <2>3, <1>2
<1>4. Best'
  <2>1. CASE Better(e)
    <3>1. bestChannel' = curChannelIdx /\ bestChannelEnergy' = e
      BY <2>1 DEF Measure, app_energyScanCb
    <3>2. ASSUME NEW i \in 1..curChannelIdx PROVE e <= measured'[i]
      <4>1. e <= EdQuiet \/ e < bestChannelEnergy
        BY <2>1 DEF Better
      <4>2. /\ measured'[i] \in Nat /\ measured'[i] > EdQuiet
            /\ bestChannelEnergy <= measured'[i]
        BY <1>3
      <4> HIDE DEF IInv
      <4> QED BY <4>1, <4>2, <1>3
    <3>3. \A i \in 1..(curChannelIdx + 1) : e <= measured'[i]
      BY <3>2, <1>2, <1>3
    <3> QED BY <3>1, <3>3, <1>1, <1>2, <1>3 DEF Best
  <2>2. CASE ~Better(e)
    <3>1. bestChannel' = bestChannel /\ bestChannelEnergy' = bestChannelEnergy
      BY <2>2 DEF Measure, app_energyScanCb
    <3>2. bestChannelEnergy <= e
      BY <2>2, <1>3 DEF Better
    <3>3. \A i \in 1..(curChannelIdx + 1) : bestChannelEnergy <= measured'[i]
      BY <3>2, <1>2, <1>3
    <3>4. bestChannelEnergy # EdMax =>
            /\ bestChannel \in Channel /\ bestChannel + 1 \in 1..(curChannelIdx + 1)
            /\ measured'[bestChannel + 1] = bestChannelEnergy
      <4>1. bestChannelEnergy # EdMax =>
              bestChannel \in Channel /\ bestChannel + 1 \in 1..curChannelIdx
              /\ measured[bestChannel + 1] = bestChannelEnergy
        BY <1>1 DEF Best
      <4> HIDE DEF IInv
      <4>2. \A i \in 1..curChannelIdx : i \in 1..(curChannelIdx + 1) /\ measured'[i] = measured[i]
        BY <1>2, <1>3
      <4> QED BY <4>1, <4>2
    <3> QED BY <3>1, <3>3, <3>4, <1>2 DEF Best
  <2> QED BY <2>1, <2>2
<1>5. /\ bestChannel' \in SomeChannel /\ bestChannelEnergy' \in Energy
  BY <1>1, <1>3 DEF Measure, app_energyScanCb, Types, SomeChannel
<1>6. UNCHANGED <<rsps, rescan, mic, rChan>>
  BY DEF Measure, remoteVars, airVars, histVars
<1>7. Agreed'
  BY <1>1, <1>6 DEF Agreed, Types
<1>8. CASE scanTimer'
  <2>1. /\ e > EdQuiet /\ curChannelIdx' = curChannelIdx + 1
        /\ curChannelIdx + 1 < ChannelNum /\ dChan' = curChannelIdx + 1
        /\ scanTimer' = scanTimer /\ UNCHANGED <<scanSta, life>>
    BY <1>8, <1>3 DEF Measure, app_energyScanCb, ScanDone
  <2>2. dChan' \in SomeChannel
    BY <2>1, <1>3 DEF SomeChannel, Channel
  <2>3. Types' /\ ResultTimed'
    <3>1. Types'
      BY <2>1, <2>2, <1>2, <1>3, <1>5, <1>6 DEF Types
    <3>2. ResultTimed'
      BY <2>1, <1>1 DEF ResultTimed
    <3> QED BY <3>1, <3>2
  <2>4. Scanning'
    BY <2>1, <1>2, <1>3, <1>4 DEF Scanning
  <2>5. Scanned'
    BY <2>1, <1>1 DEF Scanned
  <2> QED BY <2>3, <2>4, <2>5, <1>7
<1>9. CASE ~scanTimer'
  <2>1. /\ scanTimer' = FALSE /\ dChan' = bestChannel'
        /\ scanSta' = "DONE" /\ life' = LifeTime
        /\ curChannelIdx' \in {curChannelIdx, curChannelIdx + 1}
    BY <1>9, <1>1 DEF Measure, app_energyScanCb, ScanDone
  <2>2. Types'
    <3>1. dChan' \in SomeChannel /\ curChannelIdx' \in Nat /\ life' \in Nat
      BY <2>1, <1>3, <1>5
    <3> QED BY <3>1, <2>1, <1>2, <1>5, <1>6 DEF Types
  <2>3. ResultTimed' /\ Scanning'
    BY <2>1 DEF ResultTimed, Scanning
  <2>4. bestChannelEnergy' # EdMax => \A i \in 1..bestChannel' : measured'[i] > EdQuiet
    <3>1. bestChannelEnergy' # EdMax => bestChannel' \in 0..curChannelIdx
      <4>1. bestChannelEnergy' # EdMax =>
              bestChannel' \in Channel /\ bestChannel' + 1 \in DOMAIN measured'
        BY <1>4 DEF Best
      <4>2. \A b \in Channel : b \in Nat
        BY ScanAssumption DEF Channel
      <4>3. DOMAIN measured' = 1..(curChannelIdx + 1)
        BY <1>2, LenProperties
      <4>4. \A b \in Nat : b + 1 \in 1..(curChannelIdx + 1) => b \in 0..curChannelIdx
        BY <1>3
      <4> QED BY <4>1, <4>2, <4>3, <4>4
    <3> QED BY <3>1, <1>2, <1>3
  <2>5. Scanned'
    BY <2>1, <2>4, <1>4 DEF Scanned
  <2> QED BY <2>2, <2>3, <2>5, <1>7
<1> QED BY <1>8, <1>9

(* Forgetting the result leaves the channel and the answers as they are.   *)
LEMMA LifetimeStep ==
  ASSUME IInv, app_edScanLifetimeCb PROVE IInv'
<1> USE DEF app_edScanLifetimeCb, remoteVars, airVars, IInv
<1>1. scanSta = "DONE" /\ ~scanTimer
  BY SessionAssumption DEF ResultTimed, Types
<1>2. Types' /\ ResultTimed'
  BY <1>1 DEF Types, scanVars, ResultTimed
<1>3. Scanning' /\ Scanned'
  BY <1>1 DEF Scanning, Scanned, scanVars
<1>4. Agreed'
  BY DEF Agreed, scanVars, Types
<1> QED BY <1>2, <1>3, <1>4

(* The first audio data lets the dongle forget the result of the scan.     *)
LEMMA DataStep ==
  ASSUME IInv, Data PROVE IInv'
<1> USE DEF Data, remoteVars, airVars, histVars, IInv
<1>1. scanSta # "DOING"
  BY DEF ResultTimed
<1>2. Types' /\ ResultTimed'
  BY <1>1 DEF Types, scanVars, ResultTimed
<1>3. Scanning' /\ Scanned'
  BY DEF Scanning, Scanned, scanVars
<1>4. Agreed'
  BY DEF Agreed, scanVars, Types
<1> QED BY <1>2, <1>3, <1>4

(* A lost message is one answer or request less.                           *)
LEMMA LoseStep ==
  ASSUME IInv, Lose PROVE IInv'
<1> USE DEF IInv
<1>1. /\ UNCHANGED <<scanVars, scanSta, life, mic, rChan, rescan>>
      /\ rsps' = rsps \/ (rsps # <<>> /\ rsps' = Tail(rsps))
  BY DEF Lose, remoteVars, dongleVars
<1>2. rsps' \in Seq(Rsp)
  BY <1>1, RspTailType DEF Types
<1>3. Types' /\ ResultTimed'
  BY <1>1, <1>2 DEF Types, scanVars, ResultTimed
<1>4. Scanning' /\ Scanned'
  BY <1>1, ScanKept
<1>5. Agreed'
  <2>1. ASSUME ~rescan PROVE \A i \in DOMAIN rsps' : rsps'[i].channel = dChan
    BY <1>1, <2>1, RspTail DEF Agreed, Types
  <2> QED BY <1>1, <2>1 DEF Agreed, scanVars, Types
<1> QED BY <1>3, <1>4, <1>5

(* Time changes what is left of each answer's way and nothing else of it.  *)
LEMMA TickStep ==
  ASSUME IInv, Tick PROVE IInv'
<1> USE DEF IInv
<1>1. /\ UNCHANGED <<scanVars, scanSta, mic, rChan, rescan>>
      /\ life' = Less(life) /\ life # 0
      /\ rsps' = [i \in DOMAIN rsps |-> [rsps[i] EXCEPT !.left = @ - 1]]
      /\ \A i \in DOMAIN rsps : rsps[i].left > 0
  BY DEF Tick, histVars, Counts
<1>2. DOMAIN rsps = 1..Len(rsps) /\ Len(rsps) \in Nat
      /\ \A i \in DOMAIN rsps : rsps[i] \in Rsp
  BY LenProperties, ElementOfSeq DEF Types
<1>3. \A i \in DOMAIN rsps : rsps'[i] \in Rsp /\ rsps'[i].channel = rsps[i].channel
  BY <1>1, <1>2 DEF Rsp
<1>4. rsps' \in Seq(Rsp) /\ DOMAIN rsps' = DOMAIN rsps /\ (rsps' = <<>> <=> rsps = <<>>)
  <2>1. DOMAIN rsps' = 1..Len(rsps) /\ rsps' = [i \in 1..Len(rsps) |-> rsps'[i]]
    BY <1>1, <1>2
  <2>2. rsps' \in Seq(Rsp) /\ Len(rsps') = Len(rsps)
    BY <2>1, <1>2, <1>3, IsASeq
  <2> QED BY <2>1, <2>2, <1>2, EmptySeq DEF Types
<1>5. life' \in Nat \cup {Off} /\ (life' = Off <=> life = Off)
  BY <1>1, SessionAssumption DEF Less, Types
<1>6. Types' /\ ResultTimed'
  BY <1>1, <1>4, <1>5 DEF Types, scanVars, ResultTimed
<1>7. Scanning' /\ Scanned'
  BY <1>1, ScanKept
<1>8. Agreed'
  BY <1>1, <1>3, <1>4 DEF Agreed, scanVars, Types
<1> QED BY <1>6, <1>7, <1>8

-----------------------------------------------------------------------------
(* Every step of the two sides, the radio and the time keeps the           *)
(* invariant.                                                              *)
THEOREM StepIInv == IInv /\ [Next]_vars => IInv'
<1> SUFFICES ASSUME IInv, [Next]_vars PROVE IInv'
  OBVIOUS
<1>1. CASE UNCHANGED vars
  BY <1>1 DEF vars, remoteVars, dongleVars, airVars, histVars, scanVars, IInv, Types,
              ResultTimed, Scanning, Scanned, Best, Agreed
<1>2. CASE Next
  BY <1>2, KeyStep, RetryStep, StartRspStep, StartReqStep, MeasureStep, LifetimeStep,
     DataStep, LoseStep, TickStep DEF Next
<1> QED BY <1>1, <1>2

(* The inductive invariant holds in every state.                           *)
THEOREM Invariance == Spec => []IInv
BY InitIInv, StepIInv, PTL DEF Spec

(* The result of a scan, its lifetime and the scan's timer go together,    *)
(* with one handle for two purposes                                        *)
(* (tl_specific_data_audio.c:318-332, 367-370).                            *)
THEOREM ResultTimedTheorem == Spec => []ResultTimed
<1>1. IInv => ResultTimed
  BY DEF IInv
<1> QED BY <1>1, Invariance, PTL

(* Both sides are on one channel while the microphone is open, unless a    *)
(* scan began with an answer under way or the session open                 *)
(* (tl_specific_data_audio.c:352-358, 385-389).                            *)
THEOREM ChannelAgreedTheorem == Spec => []ChannelAgreed
<1>1. IInv => ChannelAgreed
  BY DEF IInv, Agreed, ChannelAgreed
<1> QED BY <1>1, Invariance, PTL

(* The scan finds the first quiet channel or one with the least energy,    *)
(* whatever the energies and however many the channels                     *)
(* (app_edScan.c:36-51).                                                   *)
THEOREM QuietChannelTheorem == Spec => []QuietChannel
<1>1. ASSUME IInv PROVE QuietChannel
  <2> SUFFICES ASSUME scanSta = "DONE", NEW j \in DOMAIN measured, measured[j] < EdMax
               PROVE  /\ dChan + 1 \in DOMAIN measured
                      /\ \A i \in DOMAIN measured : measured[dChan + 1] <= measured[i]
                      /\ \A i \in 1..dChan : measured[i] > EdQuiet
    BY DEF QuietChannel
  <2>1. measured[j] \in Energy /\ bestChannelEnergy \in Energy
    BY <1>1, ElementOfSeq, LenProperties DEF IInv, Types
  <2>2. dChan = bestChannel /\ Best /\ bestChannelEnergy # EdMax
    BY <1>1, <2>1, ScanAssumption DEF IInv, Scanned, Best, Energy
  <2> QED BY <1>1, <2>2 DEF IInv, Scanned, Best
<1> QED BY <1>1, Invariance, PTL

-----------------------------------------------------------------------------
(* The frames under way.  A request has FlightTime to arrive and its       *)
(* answer as much again: when a request is repeated, RetryTime later, only *)
(* answers can be left of the ones before, and they arrive before time     *)
(* passes.  So few frames are on their way at a time.                      *)

Bounds ==
  /\ curChannelIdx <= ChannelNum /\ Len(measured) <= ChannelNum
  /\ rxOn \in BOOLEAN /\ dataReqRetries \in 0..RetryNum /\ delay \in 0..AudioDelay
  /\ life \in 0..LifeTime \cup {Off} /\ ed \in {0, 1, Off}
  /\ missed \in 0..RetryNum + 1

Left(T, rq, rs) ==
  T # Off =>
    /\ \A i \in DOMAIN rq : rq[i] + RetryTime <= FlightTime + T
    /\ \A i \in DOMAIN rs : rs[i].left + RetryTime <= 2 * FlightTime + T

Few(T, rq, rs) ==
  \/ Len(rq) + Len(rs) <= 1 + MaxOld
  \/ /\ T = RetryTime /\ Len(rq) + Len(rs) <= 2 + MaxOld
     /\ rs # <<>> /\ rs[1].left = 0

Frames(T, rq, rs) ==
  /\ T \in 0..RetryTime \cup {Off}
  /\ rq \in Seq(0..FlightTime)
  /\ rs \in Seq(Rsp) /\ \A i \in DOMAIN rs : rs[i].left <= FlightTime
  /\ Left(T, rq, rs)
  /\ Few(T, rq, rs)

FInv == IInv /\ Bounds /\ Frames(dataReqTimeoutCb, reqs, rsps)

(* The frames under way, one by one.                                       *)
LEMMA FrameIs ==
  ASSUME NEW S, NEW s \in Seq(S)
  PROVE  /\ Len(s) \in Nat /\ DOMAIN s = 1..Len(s) /\ \A i \in DOMAIN s : s[i] \in S
BY LenProperties, ElementOfSeq

(* The oldest frame of one kind is gone.                                   *)
LEMMA TailIs ==
  ASSUME NEW S, NEW s \in Seq(S), s # <<>>
  PROVE  /\ Tail(s) \in Seq(S) /\ Len(Tail(s)) = Len(s) - 1 /\ Len(s) \in Nat \ {0}
         /\ \A i \in DOMAIN Tail(s) : i + 1 \in DOMAIN s /\ Tail(s)[i] = s[i + 1]
         /\ 1 \in DOMAIN s /\ Head(s) = s[1]
<1>1. /\ Tail(s) \in Seq(S) /\ Len(Tail(s)) = Len(s) - 1
      /\ \A i \in 1..Len(Tail(s)) : Tail(s)[i] = s[i + 1]
      /\ Head(s) = s[1]
  BY HeadTailProperties
<1>2. Len(s) \in Nat /\ Len(s) # 0 /\ DOMAIN s = 1..Len(s) /\ DOMAIN Tail(s) = 1..Len(Tail(s))
  BY <1>1, LenProperties, EmptySeq
<1>3. \A i \in DOMAIN Tail(s) : i + 1 \in DOMAIN s
  BY <1>1, <1>2
<1> QED BY <1>1, <1>2, <1>3

(* A frame is sent.                                                        *)
LEMMA AppendIs ==
  ASSUME NEW S, NEW s \in Seq(S), NEW x \in S
  PROVE  /\ Append(s, x) \in Seq(S) /\ Len(Append(s, x)) = Len(s) + 1 /\ Len(s) \in Nat
         /\ \A i \in DOMAIN Append(s, x) :
              \/ i \in DOMAIN s /\ Append(s, x)[i] = s[i]
              \/ Append(s, x)[i] = x
         /\ s # <<>> => Append(s, x)[1] = s[1]
         /\ Append(s, x) # <<>>
<1>1. /\ Append(s, x) \in Seq(S) /\ Len(Append(s, x)) = Len(s) + 1
      /\ \A i \in 1..Len(s) : Append(s, x)[i] = s[i]
      /\ Append(s, x)[Len(s) + 1] = x
  BY AppendProperties
<1>2. Len(s) \in Nat /\ DOMAIN s = 1..Len(s) /\ DOMAIN Append(s, x) = 1..(Len(s) + 1)
  BY <1>1, LenProperties
<1>3. s # <<>> => Append(s, x)[1] = s[1]
  BY <1>1, <1>2, EmptySeq
<1>4. Append(s, x) # <<>>
  BY <1>1, <1>2, EmptySeq
<1>5. ASSUME NEW i \in DOMAIN Append(s, x)
      PROVE  (i \in DOMAIN s /\ Append(s, x)[i] = s[i]) \/ Append(s, x)[i] = x
  BY <1>1, <1>2
<1> QED BY <1>1, <1>2, <1>3, <1>4, <1>5

(* A request is sent: by the key, or again when the timer has run out.     *)
LEMMA RequestSent ==
  ASSUME 2 * FlightTime <= RetryTime, NEW T, NEW rq, NEW rs, Frames(T, rq, rs),
         T = 0 \/ (T = Off /\ Len(rq) + Len(rs) <= MaxOld)
  PROVE  Frames(RetryTime, Append(rq, FlightTime), rs)
<1> USE SessionAssumption DEF Frames
<1>1. /\ FlightTime \in Nat /\ RetryTime \in Nat \ {0} /\ MaxOld \in Nat
      /\ RetryTime # Off /\ 0 # Off /\ RetryTime # 0
  OBVIOUS
<1> DEFINE q == Append(rq, FlightTime)
<1>2. /\ q \in Seq(0..FlightTime) /\ Len(q) = Len(rq) + 1 /\ Len(rq) \in Nat
      /\ \A i \in DOMAIN q : (i \in DOMAIN rq /\ q[i] = rq[i]) \/ q[i] = FlightTime
  <2>1. FlightTime \in 0..FlightTime
    BY <1>1
  <2>2. rq \in Seq(0..FlightTime)
    OBVIOUS
  <2> HIDE SessionAssumption DEF Frames
  <2> QED BY <2>1, <2>2, AppendIs
<1>3. /\ \A i \in DOMAIN rq : rq[i] \in 0..FlightTime
      /\ \A i \in DOMAIN rs : rs[i] \in Rsp /\ rs[i].left \in 0..FlightTime
      /\ Len(rs) \in Nat /\ DOMAIN rs = 1..Len(rs) /\ DOMAIN rq = 1..Len(rq)
  <2>1. /\ DOMAIN rq = 1..Len(rq) /\ \A i \in DOMAIN rq : rq[i] \in 0..FlightTime
    BY FrameIs
  <2>2. Len(rs) \in Nat /\ DOMAIN rs = 1..Len(rs) /\ \A i \in DOMAIN rs : rs[i] \in Rsp
    BY FrameIs
  <2>3. \A i \in DOMAIN rs : rs[i].left \in 0..FlightTime
    BY <1>1, <2>2 DEF Rsp
  <2> QED BY <2>1, <2>2, <2>3
<1> HIDE DEF q
<1>4. Left(RetryTime, q, rs)
  <2>1. ASSUME NEW i \in DOMAIN q PROVE q[i] + RetryTime <= FlightTime + RetryTime
    <3>1. q[i] \in 0..FlightTime
      BY <1>1, <1>2, <1>3
    <3> QED BY <1>1, <3>1
  <2>2. ASSUME NEW i \in DOMAIN rs PROVE rs[i].left + RetryTime <= 2 * FlightTime + RetryTime
    <3>1. rs[i].left \in 0..FlightTime
      BY <1>3, <2>2
    <3> QED BY <1>1, <3>1
  <2> QED BY <2>1, <2>2 DEF Left
<1>5. Few(RetryTime, q, rs)
  <2>1. CASE T = Off /\ Len(rq) + Len(rs) <= MaxOld
    BY <1>1, <1>2, <1>3, <2>1 DEF Few
  <2>2. CASE T = 0
    <3>1. Len(rq) + Len(rs) <= 1 + MaxOld
      BY <1>1, <2>2 DEF Few
    <3>2. rq = <<>> /\ Len(rq) = 0
      <4>1. ASSUME rq # <<>> PROVE FALSE
        <5>1. 1 \in DOMAIN rq
          BY <1>2, <1>3, <4>1, EmptySeq
        <5>2. rq[1] + RetryTime <= FlightTime
          BY <1>1, <2>2, <5>1 DEF Left
        <5>3. rq[1] \in 0..FlightTime
          BY <1>3, <5>1
        <5> QED BY <1>1, <5>2, <5>3
      <4> QED BY <4>1, EmptySeq
    <3>3. CASE rs = <<>>
      BY <1>1, <1>2, <3>2, <3>3, EmptySeq DEF Few
    <3>4. CASE rs # <<>>
      <4>1. 1 \in DOMAIN rs
        BY <1>3, <3>4, EmptySeq
      <4>2. rs[1].left + RetryTime <= 2 * FlightTime
        BY <1>1, <2>2, <4>1 DEF Left
      <4>3. rs[1].left = 0
        BY <1>1, <1>3, <4>1, <4>2
      <4> QED BY <1>1, <1>2, <1>3, <3>1, <3>2, <3>4, <4>3 DEF Few
    <3> QED BY <3>3, <3>4
  <2> QED BY <2>1, <2>2
<1> QED BY <1>1, <1>2, <1>4, <1>5 DEF q

(* The oldest answer is taken or lost, with the timer as it was or off.    *)
LEMMA RspTaken ==
  ASSUME NEW T, NEW rq, NEW rs, Frames(T, rq, rs), rs # <<>>, NEW U, U = T \/ U = Off
  PROVE  Frames(U, rq, Tail(rs))
<1> USE SessionAssumption DEF Frames
<1> DEFINE s == Tail(rs)
<1>1. /\ s \in Seq(Rsp) /\ Len(s) = Len(rs) - 1 /\ Len(rs) \in Nat \ {0}
      /\ \A i \in DOMAIN s : i + 1 \in DOMAIN rs /\ s[i] = rs[i + 1]
  BY TailIs
<1>2. Len(rq) \in Nat
  BY LenProperties
<1> HIDE DEF s
<1>3. \A i \in DOMAIN s : s[i].left <= FlightTime
  BY <1>1
<1>4. Left(U, rq, s)
  BY <1>1 DEF Left
<1>5. Few(U, rq, s)
  <2>1. Few(T, rq, rs) /\ MaxOld \in Nat
    OBVIOUS
  <2> HIDE SessionAssumption DEF Frames
  <2>2. Len(rq) + Len(rs) <= 2 + MaxOld
    BY <1>1, <1>2, <2>1 DEF Few
  <2>3. Len(rq) + Len(s) <= 1 + MaxOld
    BY <1>1, <1>2, <2>1, <2>2
  <2> QED BY <2>3 DEF Few
<1>6. U \in 0..RetryTime \cup {Off}
  OBVIOUS
<1> QED BY <1>1, <1>3, <1>4, <1>5, <1>6 DEF s

(* The oldest request is taken, without an answer, or lost.                *)
LEMMA ReqTaken ==
  ASSUME NEW T, NEW rq, NEW rs, Frames(T, rq, rs), rq # <<>>
  PROVE  Frames(T, Tail(rq), rs)
<1> USE SessionAssumption DEF Frames
<1> DEFINE s == Tail(rq)
<1>1. /\ s \in Seq(0..FlightTime) /\ Len(s) = Len(rq) - 1 /\ Len(rq) \in Nat \ {0}
      /\ \A i \in DOMAIN s : i + 1 \in DOMAIN rq /\ s[i] = rq[i + 1]
  BY TailIs
<1>2. Len(rs) \in Nat
  BY LenProperties
<1> HIDE DEF s
<1>4. Left(T, s, rs)
  BY <1>1 DEF Left
<1>5. Few(T, s, rs)
  <2>1. Few(T, rq, rs) /\ MaxOld \in Nat
    OBVIOUS
  <2> HIDE SessionAssumption DEF Frames
  <2>2. Len(rq) + Len(rs) <= 2 + MaxOld
    BY <1>1, <1>2, <2>1 DEF Few
  <2>3. Len(s) + Len(rs) <= 1 + MaxOld
    BY <1>1, <1>2, <2>1, <2>2
  <2> QED BY <2>3 DEF Few
<1> QED BY <1>1, <1>4, <1>5 DEF s

(* A request that is answered has left its answer enough time.             *)
LEMMA ReqAnswered ==
  ASSUME NEW T, NEW rq, NEW rs, Frames(T, rq, rs), rq # <<>>, NEW c \in SomeChannel
  PROVE  Frames(T, Tail(rq), Append(rs, [channel |-> c, left |-> FlightTime]))
<1> USE SessionAssumption DEF Frames
<1>0. /\ FlightTime \in Nat /\ RetryTime \in Nat \ {0} /\ MaxOld \in Nat
      /\ T \in 0..RetryTime \cup {Off}
  OBVIOUS
<1> DEFINE s == Tail(rq)
           x == [channel |-> c, left |-> FlightTime]
           t == Append(rs, x)
<1>1. /\ s \in Seq(0..FlightTime) /\ Len(s) = Len(rq) - 1 /\ Len(rq) \in Nat \ {0}
      /\ \A i \in DOMAIN s : i + 1 \in DOMAIN rq /\ s[i] = rq[i + 1]
      /\ 1 \in DOMAIN rq
  BY TailIs
<1>2. x \in Rsp /\ x.left = FlightTime
  BY <1>0 DEF Rsp
<1> HIDE DEF x
<1>3. /\ t \in Seq(Rsp) /\ Len(t) = Len(rs) + 1 /\ Len(rs) \in Nat
      /\ \A i \in DOMAIN t : (i \in DOMAIN rs /\ t[i] = rs[i]) \/ t[i] = x
      /\ rs # <<>> => t[1] = rs[1]
      /\ t # <<>>
  <2>1. rs \in Seq(Rsp)
    OBVIOUS
  <2> HIDE SessionAssumption DEF Frames
  <2> QED BY <1>2, <2>1, AppendIs
<1>4. rq[1] \in 0..FlightTime
  BY <1>1, ElementOfSeq, LenProperties
<1> HIDE DEF s, t
<1>5. \A i \in DOMAIN t : t[i].left <= FlightTime
  <2>1. \A i \in DOMAIN rs : rs[i].left <= FlightTime
    OBVIOUS
  <2> HIDE SessionAssumption DEF Frames
  <2> QED BY <1>0, <1>2, <1>3, <2>1
<1>6. Left(T, s, t)
  <2>1. ASSUME T # Off, NEW i \in DOMAIN s PROVE s[i] + RetryTime <= FlightTime + T
    BY <1>1, <2>1 DEF Left
  <2>2. ASSUME T # Off PROVE FlightTime + RetryTime <= 2 * FlightTime + T
    <3>1. rq[1] + RetryTime <= FlightTime + T
      BY <1>1, <2>2 DEF Left
    <3> HIDE SessionAssumption DEF Frames
    <3> QED BY <1>0, <1>4, <2>2, <3>1
  <2>3. ASSUME T # Off, NEW i \in DOMAIN t
        PROVE  t[i].left + RetryTime <= 2 * FlightTime + T
    <3>1. CASE t[i] = x
      BY <1>2, <2>2, <2>3, <3>1
    <3>2. CASE i \in DOMAIN rs /\ t[i] = rs[i]
      BY <2>3, <3>2 DEF Left
    <3> QED BY <1>3, <3>1, <3>2
  <2> QED BY <2>1, <2>3 DEF Left
<1>7. Few(T, s, t)
  <2>1. Len(s) + Len(t) = Len(rq) + Len(rs)
    BY <1>1, <1>3
  <2> QED BY <1>3, <2>1 DEF Few
<1> QED BY <1>1, <1>3, <1>5, <1>6, <1>7 DEF s, t, x

(* Time passes, unless a frame has to arrive first.                        *)
LEMMA FramesTick ==
  ASSUME NEW T, NEW rq, NEW rs, Frames(T, rq, rs), T # 0,
         \A i \in DOMAIN rq : rq[i] > 0, \A i \in DOMAIN rs : rs[i].left > 0
  PROVE  Frames(Less(T), [i \in DOMAIN rq |-> rq[i] - 1],
                [i \in DOMAIN rs |-> [rs[i] EXCEPT !.left = @ - 1]])
<1> USE SessionAssumption DEF Frames
<1>0. /\ FlightTime \in Nat /\ RetryTime \in Nat \ {0} /\ MaxOld \in Nat
      /\ T \in 0..RetryTime \cup {Off} /\ Off \notin Nat
  OBVIOUS
<1> DEFINE q == [i \in DOMAIN rq |-> rq[i] - 1]
           s == [i \in DOMAIN rs |-> [rs[i] EXCEPT !.left = @ - 1]]
<1>1. /\ DOMAIN rq = 1..Len(rq) /\ Len(rq) \in Nat
      /\ \A i \in DOMAIN rq : rq[i] \in 0..FlightTime
  BY FrameIs
<1>2. /\ DOMAIN rs = 1..Len(rs) /\ Len(rs) \in Nat
      /\ \A i \in DOMAIN rs : rs[i] \in Rsp
  BY FrameIs
<1>3. q \in Seq(0..FlightTime) /\ Len(q) = Len(rq)
      /\ \A i \in DOMAIN q : i \in DOMAIN rq /\ q[i] = rq[i] - 1
  <2>1. \A i \in 1..Len(rq) : rq[i] - 1 \in 0..FlightTime
    <3> SUFFICES ASSUME NEW i \in 1..Len(rq) PROVE rq[i] - 1 \in 0..FlightTime
      OBVIOUS
    <3>1. rq[i] \in 0..FlightTime /\ rq[i] > 0
      BY <1>1
    <3> HIDE DEF Frames
    <3> QED BY <1>0, <3>1
  <2>2. q = [i \in 1..Len(rq) |-> rq[i] - 1]
    BY <1>1
  <2> HIDE DEF q, Frames
  <2>3. q \in Seq(0..FlightTime) /\ Len(q) = Len(rq)
    BY <1>1, <2>1, <2>2, IsASeq
  <2>4. \A i \in DOMAIN q : i \in DOMAIN rq /\ q[i] = rq[i] - 1
    BY <1>1, <2>2
  <2> QED BY <2>3, <2>4
<1>4. s \in Seq(Rsp) /\ Len(s) = Len(rs)
      /\ \A i \in DOMAIN s : i \in DOMAIN rs /\ s[i].left = rs[i].left - 1
  <2>0. \A r \in Rsp : r.left > 0 => [r EXCEPT !.left = @ - 1] \in Rsp
                                     /\ [r EXCEPT !.left = @ - 1].left = r.left - 1
    <3> SUFFICES ASSUME NEW r \in Rsp, r.left > 0
                 PROVE  /\ [r EXCEPT !.left = @ - 1] \in Rsp
                        /\ [r EXCEPT !.left = @ - 1].left = r.left - 1
      OBVIOUS
    <3> HIDE SessionAssumption DEF Frames
    <3>1. r.left - 1 \in Nat
      BY DEF Rsp
    <3> QED BY <3>1 DEF Rsp
  <2>1. \A i \in DOMAIN rs : [rs[i] EXCEPT !.left = @ - 1] \in Rsp
                             /\ [rs[i] EXCEPT !.left = @ - 1].left = rs[i].left - 1
    BY <1>2, <2>0
  <2>2. s \in Seq(Rsp) /\ Len(s) = Len(rs)
    BY <1>2, <2>1, IsASeq
  <2> QED BY <2>1, <2>2
<1> HIDE DEF q, s
<1>5. \A i \in DOMAIN rs : rs[i].left \in Nat
  BY <1>2 DEF Rsp
<1>6. \A i \in DOMAIN s : s[i].left <= FlightTime
  <2>1. \A i \in DOMAIN rs : rs[i].left <= FlightTime
    OBVIOUS
  <2> HIDE SessionAssumption DEF Frames
  <2> QED BY <1>0, <1>4, <1>5, <2>1
<1>7. Less(T) \in 0..RetryTime \cup {Off} /\ (T = Off => Less(T) = Off)
      /\ (T # Off => Less(T) = T - 1 /\ T \in Nat)
  BY <1>0 DEF Less
<1>8. Left(Less(T), q, s)
  <2> HIDE SessionAssumption DEF Frames
  <2>1. ASSUME Less(T) # Off, NEW i \in DOMAIN q
        PROVE  q[i] + RetryTime <= FlightTime + Less(T)
    <3>1. T # Off /\ i \in DOMAIN rq /\ q[i] = rq[i] - 1 /\ rq[i] \in 0..FlightTime
      BY <1>1, <1>3, <1>7, <2>1
    <3>2. rq[i] + RetryTime <= FlightTime + T
      BY <3>1 DEF Frames, Left
    <3> QED BY <1>0, <1>7, <3>1, <3>2
  <2>2. ASSUME Less(T) # Off, NEW i \in DOMAIN s
        PROVE  s[i].left + RetryTime <= 2 * FlightTime + Less(T)
    <3>1. T # Off /\ i \in DOMAIN rs /\ s[i].left = rs[i].left - 1 /\ rs[i].left \in Nat
      BY <1>4, <1>5, <1>7, <2>2
    <3>2. rs[i].left + RetryTime <= 2 * FlightTime + T
      BY <3>1 DEF Frames, Left
    <3> QED BY <1>0, <1>7, <3>1, <3>2
  <2> QED BY <2>1, <2>2 DEF Left
<1>9. Len(rq) + Len(rs) <= 1 + MaxOld
  <2>1. rs # <<>> => rs[1].left # 0
    BY <1>2, EmptySeq
  <2> QED BY <2>1 DEF Few
<1>10. Few(Less(T), q, s)
  BY <1>3, <1>4, <1>9 DEF Few
<1> QED BY <1>3, <1>4, <1>6, <1>7, <1>8, <1>10 DEF q, s

(* Before the first key nothing is on its way.                             *)
LEMMA InitFInv ==
  ASSUME Init PROVE Bounds /\ Frames(dataReqTimeoutCb, reqs, rsps)
<1> USE ScanAssumption, SessionAssumption
<1>1. Bounds
  <2>1. Len(measured) = 0
    BY EmptySeq DEF Init, ScanInit
  <2>2. /\ rxOn = FALSE /\ dataReqRetries = 0 /\ delay = 0 /\ life = Off /\ ed = Off
        /\ missed = 0 /\ curChannelIdx = 0
    BY DEF Init, ScanInit
  <2>3. /\ 0 <= ChannelNum /\ 0 \in 0..RetryNum /\ 0 \in 0..AudioDelay /\ 0 \in 0..RetryNum + 1
    <3>1. ChannelNum \in Nat /\ RetryNum \in Nat /\ AudioDelay \in Nat
      BY ScanAssumption, SessionAssumption
    <3> HIDE ScanAssumption, SessionAssumption
    <3> QED BY <3>1
  <2> HIDE ScanAssumption, SessionAssumption
  <2> QED BY <2>1, <2>2, <2>3 DEF Bounds
<1>2. /\ reqs = <<>> /\ rsps = <<>> /\ dataReqTimeoutCb = Off
      /\ <<>> \in Seq(0..FlightTime) /\ <<>> \in Seq(Rsp) /\ Len(<<>>) = 0 /\ DOMAIN <<>> = {}
  BY EmptySeq DEF Init
<1> QED BY <1>1, <1>2 DEF Frames, Left, Few

(* The remote's steps.                                                     *)
LEMMA RemoteFrames ==
  ASSUME 2 * FlightTime <= RetryTime, FInv,
         app_audioStart \/ GiveUp \/ Retry \/ StartRsp \/ tl_audio_stop
  PROVE  Bounds' /\ Frames(dataReqTimeoutCb, reqs, rsps)'
<1> DEFINE T == dataReqTimeoutCb
<1>1. /\ Frames(T, reqs, rsps) /\ Bounds
      /\ {RetryNum, AudioDelay, FlightTime} \subseteq Nat /\ 0 # Off
  BY SessionAssumption DEF FInv
<1>2. CASE app_audioStart
  <2>1. /\ T = Off /\ Len(reqs) + Len(rsps) <= MaxOld /\ T' = RetryTime
        /\ reqs' = Append(reqs, FlightTime) /\ rsps' = rsps
        /\ rxOn' = TRUE /\ dataReqRetries' = RetryNum /\ missed' = 0
        /\ UNCHANGED <<delay, life, ed, curChannelIdx, measured>>
    BY <1>2 DEF app_audioStart, tl_audioStartReqSend, dongleVars, scanVars
  <2>2. Frames(T', reqs', rsps')
    BY <1>1, <2>1, RequestSent
  <2>3. Bounds'
    BY <1>1, <2>1 DEF Bounds
  <2> QED BY <2>2, <2>3
<1>3. CASE GiveUp
  <2>1. /\ T = 0 /\ T' = Off /\ rxOn' = FALSE
        /\ UNCHANGED <<reqs, rsps, delay, life, ed, curChannelIdx, measured, dataReqRetries, missed>>
    BY <1>3 DEF GiveUp, dongleVars, scanVars, airVars, histVars
  <2>2. Frames(T', reqs', rsps')
    <3>1. Few(Off, reqs, rsps)
      BY <1>1, <2>1, SessionAssumption DEF Frames, Few
    <3>2. Left(Off, reqs, rsps)
      BY DEF Left
    <3> QED BY <1>1, <2>1, <3>1, <3>2 DEF Frames
  <2>3. Bounds'
    BY <1>1, <2>1 DEF Bounds
  <2> QED BY <2>2, <2>3
<1>4. CASE Retry
  <2>1. /\ T = 0 /\ T' = RetryTime /\ dataReqRetries > 0 /\ dataReqRetries' = dataReqRetries - 1
        /\ reqs' = Append(reqs, FlightTime) /\ rsps' = rsps
        /\ UNCHANGED <<rxOn, delay, life, ed, curChannelIdx, measured, missed>>
    BY <1>4 DEF Retry, tl_audioStartReqSend, dongleVars, scanVars, histVars
  <2>2. Frames(T', reqs', rsps')
    BY <1>1, <2>1, RequestSent
  <2>3. Bounds'
    <3>1. dataReqRetries' \in 0..RetryNum
      BY <1>1, <2>1 DEF Bounds
    <3> QED BY <1>1, <2>1, <3>1 DEF Bounds
  <2> QED BY <2>2, <2>3
<1>5. CASE StartRsp
  <2>1. /\ rsps # <<>> /\ rsps' = Tail(rsps) /\ T' \in {T, Off} /\ delay' \in {delay, AudioDelay}
        /\ UNCHANGED <<reqs, rxOn, life, ed, curChannelIdx, measured, dataReqRetries, missed>>
    BY <1>5 DEF StartRsp, dongleVars, scanVars, histVars
  <2>2. Frames(T', reqs', rsps')
    BY <1>1, <2>1, RspTaken
  <2>3. Bounds'
    BY <1>1, <2>1 DEF Bounds
  <2> QED BY <2>2, <2>3
<1>6. CASE tl_audio_stop
  <2>1. /\ rxOn' = TRUE
        /\ UNCHANGED <<dataReqTimeoutCb, reqs, rsps, delay, life, ed, curChannelIdx, measured,
                       dataReqRetries, missed>>
    BY <1>6 DEF tl_audio_stop, dongleVars, scanVars, airVars, histVars
  <2>2. Frames(T', reqs', rsps')
    BY <1>1, <2>1
  <2>3. Bounds'
    BY <1>1, <2>1 DEF Bounds
  <2> QED BY <2>2, <2>3
<1> QED BY <1>2, <1>3, <1>4, <1>5, <1>6

(* The dongle's steps, a loss and time.                                    *)
LEMMA DongleFrames ==
  ASSUME FInv, \/ StartReq \/ (\E e \in Energy : Measure(e)) \/ app_edScanLifetimeCb
               \/ Data \/ Lose \/ Tick
  PROVE  Bounds' /\ Frames(dataReqTimeoutCb, reqs, rsps)'
<1> DEFINE T == dataReqTimeoutCb
<1>1. /\ Frames(T, reqs, rsps) /\ Bounds /\ IInv
      /\ {RetryNum, AudioDelay, FlightTime, LifeTime, ChannelNum} \subseteq Nat /\ Off \notin Nat
  BY SessionAssumption, ScanAssumption DEF FInv
<1>2. CASE StartReq
  <2>1. reqs # <<>> /\ reqs' = Tail(reqs)
        /\ UNCHANGED <<dataReqTimeoutCb, rxOn, delay, dataReqRetries, missed>>
    BY <1>2 DEF StartReq, remoteVars
  <2>2. CASE Answered
    <3>1. /\ rsps' = Append(rsps, [channel |-> dChan, left |-> FlightTime])
          /\ UNCHANGED <<life, ed, curChannelIdx, measured>>
      BY <2>2 DEF Answered, dongleVars, scanVars
    <3>2. Frames(T', reqs', rsps')
      BY <1>1, <2>1, <3>1, ReqAnswered DEF IInv, Types
    <3>3. Bounds'
      BY <1>1, <2>1, <3>1 DEF Bounds
    <3> QED BY <3>2, <3>3
  <2>3. CASE Scans
    <3>1. /\ UNCHANGED <<life, rsps>> /\ ed' = 1 /\ curChannelIdx' \in {0, curChannelIdx}
          /\ measured' \in {<<>>, measured}
      BY <2>3 DEF Scans, app_edScanStart, scanVars
    <3>2. Frames(T', reqs', rsps')
      BY <1>1, <2>1, <3>1, ReqTaken
    <3>3. Bounds'
      BY <1>1, <2>1, <3>1, EmptySeq DEF Bounds
    <3> QED BY <3>2, <3>3
  <2>4. CASE Ignored
    <3>1. UNCHANGED <<life, rsps, ed, curChannelIdx, measured>>
      BY <2>4 DEF Ignored, dongleVars, scanVars
    <3>2. Frames(T', reqs', rsps')
      BY <1>1, <2>1, <3>1, ReqTaken
    <3>3. Bounds'
      BY <1>1, <2>1, <3>1 DEF Bounds
    <3> QED BY <3>2, <3>3
  <2> QED BY <1>2, <2>2, <2>3, <2>4 DEF StartReq
<1>3. ASSUME NEW e \in Energy, Measure(e)
      PROVE  Bounds' /\ Frames(T', reqs', rsps')
  <2>1. UNCHANGED <<dataReqTimeoutCb, reqs, rsps, rxOn, delay, dataReqRetries, missed>>
    BY <1>3 DEF Measure, remoteVars, airVars, histVars
  <2>2. /\ scanTimer /\ measured' = Append(measured, e)
        /\ curChannelIdx' \in {curChannelIdx, curChannelIdx + 1}
        /\ ed' \in {1, Off} /\ life' \in {life, LifeTime}
    BY <1>3 DEF Measure, app_energyScanCb
  <2>3. /\ curChannelIdx < ChannelNum /\ Len(measured) = curChannelIdx /\ curChannelIdx \in Nat
        /\ measured \in Seq(Energy)
    BY <1>1, <2>2 DEF IInv, Scanning, Types
  <2>4. Len(measured') = Len(measured) + 1
    BY <2>2, <2>3, AppendProperties
  <2>5. curChannelIdx' <= ChannelNum /\ Len(measured') <= ChannelNum
    BY <1>1, <2>2, <2>3, <2>4
  <2>6. Bounds'
    BY <1>1, <2>1, <2>2, <2>5 DEF Bounds
  <2> QED BY <1>1, <2>1, <2>6
<1>4. CASE app_edScanLifetimeCb
  <2>1. /\ UNCHANGED <<dataReqTimeoutCb, reqs, rsps, rxOn, delay, dataReqRetries, ed,
                       curChannelIdx, measured>>
        /\ life' = Off /\ missed' = IF missed > RetryNum THEN missed ELSE missed + 1
    BY <1>4 DEF app_edScanLifetimeCb, remoteVars, airVars, scanVars
  <2>2. missed' \in 0..RetryNum + 1
    BY <1>1, <2>1 DEF Bounds
  <2> QED BY <1>1, <2>1, <2>2 DEF Bounds
<1>5. CASE Data
  <2>1. /\ UNCHANGED <<dataReqTimeoutCb, reqs, rsps, rxOn, delay, dataReqRetries, ed,
                       curChannelIdx, measured, missed>>
        /\ life' = Off
    BY <1>5 DEF Data, remoteVars, airVars, histVars, scanVars
  <2> QED BY <1>1, <2>1 DEF Bounds
<1>6. CASE Lose
  <2>1. /\ UNCHANGED <<dataReqTimeoutCb, rxOn, delay, dataReqRetries, life, ed,
                       curChannelIdx, measured>>
        /\ missed' = IF missed > RetryNum THEN missed ELSE missed + 1
        /\ \/ reqs # <<>> /\ reqs' = Tail(reqs) /\ UNCHANGED rsps
           \/ rsps # <<>> /\ rsps' = Tail(rsps) /\ UNCHANGED reqs
    BY <1>6 DEF Lose, remoteVars, dongleVars, scanVars
  <2>2. missed' \in 0..RetryNum + 1
    BY <1>1, <2>1 DEF Bounds
  <2>3. Frames(T', reqs', rsps')
    BY <1>1, <2>1, ReqTaken, RspTaken
  <2>4. Bounds'
    BY <1>1, <2>1, <2>2 DEF Bounds
  <2> QED BY <2>3, <2>4
<1>7. CASE Tick
  <2>1. /\ T # 0 /\ life # 0 /\ ed # 0
        /\ \A i \in DOMAIN reqs : reqs[i] > 0
        /\ \A i \in DOMAIN rsps : rsps[i].left > 0
        /\ T' = Less(T) /\ life' = Less(life) /\ ed' = Less(ed)
        /\ delay' = (IF delay > 0 THEN delay - 1 ELSE 0)
        /\ reqs' = [i \in DOMAIN reqs |-> reqs[i] - 1]
        /\ rsps' = [i \in DOMAIN rsps |-> [rsps[i] EXCEPT !.left = @ - 1]]
        /\ UNCHANGED <<rxOn, dataReqRetries, curChannelIdx, measured, missed>>
    BY <1>7 DEF Tick, Counts, scanVars, histVars
  <2>2. Frames(T', reqs', rsps')
    BY <1>1, <2>1, FramesTick
  <2>3. life' \in 0..LifeTime \cup {Off} /\ ed' \in {0, 1, Off} /\ delay' \in 0..AudioDelay
    <3>1. /\ life \in 0..LifeTime \cup {Off} /\ ed \in {0, 1, Off} /\ delay \in 0..AudioDelay
          /\ LifeTime \in Nat /\ AudioDelay \in Nat
      BY <1>1 DEF Bounds
    <3>2. life' \in 0..LifeTime \cup {Off}
      <4>1. life # 0 /\ life' = Less(life)
        BY <2>1
      <4> QED BY <3>1, <4>1 DEF Less
    <3>3. ed' \in {0, 1, Off}
      BY <2>1, <3>1 DEF Less
    <3>4. delay' \in 0..AudioDelay
      BY <2>1, <3>1
    <3> QED BY <3>2, <3>3, <3>4
  <2>4. Bounds'
    BY <1>1, <2>1, <2>3 DEF Bounds
  <2> QED BY <2>2, <2>4
<1> QED BY <1>2, <1>3, <1>4, <1>5, <1>6, <1>7

(* The bounds and what is known of the frames hold in every state.         *)
LEMMA FramesInvariance ==
  ASSUME 2 * FlightTime <= RetryTime
  PROVE  Spec => []FInv
<1>1. Init => FInv
  BY InitIInv, InitFInv DEF FInv
<1>2. FInv /\ [Next]_vars => FInv'
  <2> SUFFICES ASSUME FInv, [Next]_vars PROVE FInv'
    OBVIOUS
  <2>1. IInv'
    BY StepIInv DEF FInv
  <2>2. CASE Next
    BY <2>1, <2>2, RemoteFrames, DongleFrames DEF Next, FInv
  <2>3. CASE UNCHANGED vars
    <3>1. UNCHANGED <<dataReqTimeoutCb, reqs, rsps, rxOn, dataReqRetries, delay, life, ed,
                      curChannelIdx, measured, missed>>
      BY <2>3 DEF vars, remoteVars, dongleVars, scanVars, airVars, histVars
    <3>2. Bounds' /\ Frames(dataReqTimeoutCb', reqs', rsps')
      BY <3>1 DEF FInv, Bounds
    <3> QED BY <2>1, <3>2 DEF FInv
  <2> QED BY <2>2, <2>3
<1> QED BY <1>1, <1>2, PTL DEF Spec

(* The variables have their types, and few frames are on their way at a    *)
(* time, whatever is lost and however often the key is pressed             *)
(* (tl_specific_data_audio.c:255-268, 299-300), as long as a request is    *)
(* not repeated before it and its answer can have arrived.                 *)
THEOREM TypeTheorem ==
  ASSUME 2 * FlightTime <= RetryTime
  PROVE  Spec => []TypeOK
<1>1. Spec => []FInv
  BY FramesInvariance
<1>2. ASSUME FInv PROVE TypeOK
  <2>1. Len(reqs) \in Nat /\ Len(rsps) \in Nat
    BY <1>2, FrameIs DEF FInv, Frames
  <2>2. Len(reqs) <= 2 + MaxOld /\ Len(rsps) <= 2 + MaxOld
    <3>1. MaxOld \in Nat
      BY SessionAssumption
    <3>2. Few(dataReqTimeoutCb, reqs, rsps)
      BY <1>2 DEF FInv, Frames
    <3>3. Len(reqs) + Len(rsps) <= 1 + MaxOld \/ Len(reqs) + Len(rsps) <= 2 + MaxOld
      BY <3>2 DEF Few
    <3> QED BY <2>1, <3>1, <3>3
  <2>3. curChannelIdx \in 0..ChannelNum
    BY <1>2, ScanAssumption DEF FInv, IInv, Types, Bounds
  <2> QED BY <1>2, <2>2, <2>3 DEF FInv, IInv, Types, Bounds, Frames, SomeChannel, TypeOK
<1> QED BY <1>1, <1>2, PTL

-----------------------------------------------------------------------------
(* The losses before the remote gives up.                                  *)

(* The time of k retries. *)
Times(k) == k * RetryTime

(* The retries outlast a scan of all channels by two of them, and a scan's *)
(* result outlasts the retries.                                            *)
Margins ==
  /\ 2 * FlightTime <= RetryTime
  /\ ChannelNum + FlightTime < Times(RetryNum - 2)
  /\ Times(RetryNum + 1) < LifeTime

Waiting(rq) == IF rq # <<>> THEN 1 ELSE 0

(* The requests since the key of which no loss and no answer under way     *)
(* tells: they are on their way or fell into a scan.                       *)
Open(r, m, rs) == RetryNum + 1 - r - m - Len(rs)

(* A scan that has taken p + FlightTime swallowed the requests of that     *)
(* time and no more.  One that is over leaves two to be answered, and its  *)
(* result is forgotten only if it is older than the key.                   *)
Fallen(o, n, r, T, sta, idx, e, lf) ==
  /\ sta = "IDLE" => o <= n
  /\ sta = "DOING" => Times(o - 1) + RetryTime <= idx + 1 + FlightTime + T - e
  /\ sta = "DONE" => o - n <= RetryNum - 2 /\ (o <= n \/ Times(r) + T < lf)

Lossy ==
  dataReqTimeoutCb # Off /\ missed < Tolerated =>
    Fallen(Open(dataReqRetries, missed, rsps), Waiting(reqs), dataReqRetries,
           dataReqTimeoutCb, scanSta, curChannelIdx, ed, life)

(* From the first retry on, the frames before it arrive before time passes.*)
Late(T, r, rq, rs) ==
  T # Off /\ r < RetryNum =>
    /\ T # RetryTime => Len(rq) + Len(rs) <= 1
    /\ T = RetryTime =>
         /\ Len(rq) <= 1
         /\ \A i \in DOMAIN rs : i < Len(rs) \/ rq # <<>> => rs[i].left = 0

(* While a request waits for its answer the microphone is closed and the   *)
(* receiver on; the dongle's scan is measuring one of the channels.        *)
Asking == dataReqTimeoutCb # Off => ~mic /\ rxOn
Busy   == scanSta = "DOING" => ed \in {0, 1} /\ curChannelIdx < ChannelNum

GInv == Lossy /\ Late(dataReqTimeoutCb, dataReqRetries, reqs, rsps) /\ Asking /\ Busy

(* One retry more takes as long as a retry.                                *)
LEMMA TimesIs ==
  /\ Times(0) = 0
  /\ \A k \in Int : Times(k) \in Int /\ Times(k + 1) = Times(k) + RetryTime
                    /\ Times(k - 1) = Times(k) - RetryTime
<1>1. RetryTime \in Nat
  BY SessionAssumption
<1> QED BY <1>1 DEF Times

(* More retries take longer.                                               *)
LEMMA TimesMono ==
  ASSUME NEW j \in Int, NEW k \in Int, j <= k
  PROVE  Times(j) <= Times(k)
<1>1. RetryTime \in Nat /\ k - j \in Nat
  BY SessionAssumption
<1>2. (k - j) * RetryTime >= 0
  BY <1>1
<1>3. k * RetryTime = j * RetryTime + (k - j) * RetryTime
  BY <1>1
<1>4. j * RetryTime \in Int /\ k * RetryTime \in Int /\ (k - j) * RetryTime \in Int
  BY <1>1
<1> QED BY <1>2, <1>3, <1>4 DEF Times

(* The constants, and that there are three retries at least.               *)
LEMMA MarginsIs ==
  ASSUME Margins
  PROVE  /\ {RetryNum, FlightTime, ChannelNum} \subseteq Nat
         /\ {RetryTime, LifeTime} \subseteq Nat \ {0} /\ Off \notin Nat /\ RetryNum > 2
         /\ 2 * FlightTime <= RetryTime /\ FlightTime < RetryTime
         /\ Times(RetryNum - 2) \in Int /\ ChannelNum + FlightTime < Times(RetryNum - 2)
         /\ Times(RetryNum + 1) \in Int /\ Times(RetryNum + 1) < LifeTime
<1>1. /\ {RetryNum, FlightTime, ChannelNum} \subseteq Nat
      /\ {RetryTime, LifeTime} \subseteq Nat \ {0} /\ Off \notin Nat
  BY SessionAssumption, ScanAssumption
<1>2. Times(RetryNum - 2) \in Int /\ Times(RetryNum + 1) \in Int
  <2>1. RetryNum - 2 \in Int /\ RetryNum + 1 \in Int
    BY <1>1
  <2> QED BY <2>1, TimesIs
<1>3. ASSUME RetryNum <= 2 PROVE FALSE
  <2>1. Times(RetryNum - 2) <= Times(0)
    BY <1>1, <1>3, TimesMono
  <2> QED BY <1>1, <1>2, <2>1, TimesIs DEF Margins
<1> QED BY <1>1, <1>2, <1>3 DEF Margins

(* A scan of all channels leaves two requests.                             *)
LEMMA ScanLeaves ==
  ASSUME Margins, NEW o \in Int, NEW x \in Int, x <= ChannelNum + FlightTime,
         Times(o - 1) <= x
  PROVE  o <= RetryNum - 2
<1>1. SUFFICES ASSUME o > RetryNum - 2 PROVE FALSE
  BY MarginsIs
<1>2. RetryNum - 2 <= o - 1 /\ RetryNum - 2 \in Int /\ o - 1 \in Int
  BY <1>1, MarginsIs
<1>3. Times(RetryNum - 2) <= Times(o - 1)
  BY <1>2, TimesMono
<1>4. Times(o - 1) \in Int
  BY <1>2, TimesIs
<1> QED BY <1>3, <1>4, MarginsIs

(* When the timer has run out, requests have arrived and answers are due.  *)
LEMMA RunOut ==
  ASSUME Margins, NEW rq, NEW rs, Frames(0, rq, rs)
  PROVE  rq = <<>> /\ \A i \in DOMAIN rs : rs[i].left = 0
<1>1. /\ Left(0, rq, rs) /\ rq \in Seq(0..FlightTime) /\ rs \in Seq(Rsp) /\ 0 # Off
  BY MarginsIs DEF Frames
<1>2. ASSUME rq # <<>> PROVE FALSE
  <2>1. 1 \in DOMAIN rq /\ rq[1] \in 0..FlightTime
    BY <1>1, <1>2, TailIs, FrameIs
  <2>2. rq[1] + RetryTime <= FlightTime
    BY <1>1, <2>1, MarginsIs DEF Left
  <2> QED BY <2>1, <2>2, MarginsIs
<1>3. ASSUME NEW i \in DOMAIN rs PROVE rs[i].left = 0
  <2>1. rs[i] \in Rsp
    BY <1>1, FrameIs
  <2>2. rs[i].left \in Nat
    BY <2>1 DEF Rsp
  <2>3. rs[i].left + RetryTime <= 2 * FlightTime
    BY <1>1, MarginsIs DEF Left
  <2> QED BY <2>2, <2>3, MarginsIs
<1> QED BY <1>2, <1>3

(* While a request is under way the timer is not older than a flight.      *)
LEMMA StillWaits ==
  ASSUME Margins, NEW T \in Nat, NEW rq, NEW rs, Frames(T, rq, rs), rq # <<>>
  PROVE  RetryTime <= FlightTime + T
<1>1. Left(T, rq, rs) /\ rq \in Seq(0..FlightTime) /\ T # Off
  BY MarginsIs DEF Frames
<1>2. 1 \in DOMAIN rq /\ rq[1] \in 0..FlightTime
  BY <1>1, TailIs, FrameIs
<1>3. rq[1] + RetryTime <= FlightTime + T
  BY <1>1, <1>2 DEF Left
<1>4. RetryTime \in Nat /\ FlightTime \in Nat
  BY MarginsIs
<1> QED BY <1>2, <1>3, <1>4

-----------------------------------------------------------------------------
(* The frames before the last request.                                     *)

(* A request is repeated: the answers before it are due.                   *)
LEMMA LateRetry ==
  ASSUME Margins, NEW r \in Nat, NEW rq, NEW rs, Frames(0, rq, rs)
  PROVE  Late(RetryTime, r, Append(rq, FlightTime), rs)
<1>1. rq = <<>> /\ \A i \in DOMAIN rs : rs[i].left = 0
  BY RunOut
<1>2. Len(Append(rq, FlightTime)) = 1
  <2>1. rq \in Seq(0..FlightTime) /\ FlightTime \in 0..FlightTime
    BY MarginsIs DEF Frames
  <2>2. Len(Append(rq, FlightTime)) = Len(rq) + 1
    BY <2>1, AppendIs
  <2> QED BY <1>1, <2>2, EmptySeq
<1> QED BY <1>1, <1>2 DEF Late

(* A request is taken or lost.                                             *)
LEMMA LateReqTaken ==
  ASSUME NEW T, NEW r, NEW rq \in Seq(0..FlightTime), NEW rs \in Seq(Rsp), rq # <<>>,
         Late(T, r, rq, rs)
  PROVE  Late(T, r, Tail(rq), rs)
<1>1. Len(Tail(rq)) = Len(rq) - 1 /\ Len(rq) \in Nat \ {0} /\ Len(rs) \in Nat
  BY TailIs, FrameIs
<1> QED BY <1>1 DEF Late

(* A request is answered.                                                  *)
LEMMA LateAnswered ==
  ASSUME NEW T, NEW r, NEW rq \in Seq(0..FlightTime), NEW rs \in Seq(Rsp), rq # <<>>,
         NEW x \in Rsp, Late(T, r, rq, rs)
  PROVE  Late(T, r, Tail(rq), Append(rs, x))
<1> DEFINE t == Append(rs, x)
<1>1. /\ Tail(rq) \in Seq(0..FlightTime)
      /\ Len(Tail(rq)) = Len(rq) - 1 /\ Len(rq) \in Nat \ {0}
  BY TailIs
<1>2. /\ Len(t) = Len(rs) + 1 /\ Len(rs) \in Nat /\ DOMAIN rs = 1..Len(rs)
      /\ DOMAIN t = 1..(Len(rs) + 1) /\ \A i \in 1..Len(rs) : t[i] = rs[i]
  BY AppendProperties, LenProperties
<1> HIDE DEF t
<1>3. ASSUME T # Off, r < RetryNum, T # RetryTime PROVE Len(Tail(rq)) + Len(t) <= 1
  BY <1>1, <1>2, <1>3 DEF Late
<1>4. ASSUME T # Off, r < RetryNum, T = RetryTime
      PROVE  /\ Len(Tail(rq)) <= 1
             /\ \A i \in DOMAIN t : i < Len(t) \/ Tail(rq) # <<>> => t[i].left = 0
  <2>1. Len(Tail(rq)) = 0 /\ Tail(rq) = <<>>
    BY <1>1, <1>4, EmptySeq DEF Late
  <2>2. \A i \in DOMAIN rs : rs[i].left = 0
    BY <1>4 DEF Late
  <2>3. ASSUME NEW i \in DOMAIN t, i < Len(t) PROVE t[i].left = 0
    <3>1. i \in 1..Len(rs)
      BY <1>2, <2>3
    <3> QED BY <1>2, <2>2, <3>1
  <2> QED BY <2>1, <2>3
<1> QED BY <1>3, <1>4 DEF Late, t

(* An answer is lost.                                                      *)
LEMMA LateRspLost ==
  ASSUME NEW T, NEW r, NEW rq \in Seq(0..FlightTime), NEW rs \in Seq(Rsp), rs # <<>>,
         Late(T, r, rq, rs)
  PROVE  Late(T, r, rq, Tail(rs))
<1>1. /\ Len(Tail(rs)) = Len(rs) - 1 /\ Len(rs) \in Nat \ {0} /\ Len(rq) \in Nat
      /\ Tail(rs) \in Seq(Rsp)
      /\ \A i \in DOMAIN Tail(rs) : i + 1 \in DOMAIN rs /\ Tail(rs)[i] = rs[i + 1]
  BY TailIs, FrameIs
<1>2. DOMAIN Tail(rs) = 1..Len(Tail(rs))
  BY <1>1, FrameIs
<1>3. ASSUME T # Off, r < RetryNum, T = RetryTime,
             NEW i \in DOMAIN Tail(rs), i < Len(Tail(rs)) \/ rq # <<>>
      PROVE  Tail(rs)[i].left = 0
  <2>1. i + 1 \in DOMAIN rs /\ Tail(rs)[i] = rs[i + 1] /\ (i + 1 < Len(rs) \/ rq # <<>>)
    BY <1>1, <1>2, <1>3
  <2> QED BY <1>3, <2>1 DEF Late
<1> QED BY <1>1, <1>3 DEF Late

(* Time passes: no frame was due.                                          *)
LEMMA LateTick ==
  ASSUME Margins, NEW T, NEW r, NEW rq, NEW rs, Frames(T, rq, rs), Late(T, r, rq, rs), T # 0,
         \A i \in DOMAIN rs : rs[i].left > 0,
         NEW q, NEW s, Len(q) = Len(rq), Len(s) = Len(rs)
  PROVE  Late(Less(T), r, q, s)
<1>1. /\ T \in 0..RetryTime \cup {Off}
      /\ Len(rq) \in Nat /\ Len(rs) \in Nat /\ DOMAIN rs = 1..Len(rs)
      /\ rq \in Seq(0..FlightTime)
  BY FrameIs DEF Frames
<1> SUFFICES ASSUME Less(T) # Off, r < RetryNum
             PROVE  Less(T) # RetryTime /\ Len(rq) + Len(rs) <= 1
  BY DEF Late
<1>2. T # Off /\ T \in 1..RetryTime /\ Less(T) = T - 1
  BY <1>1, MarginsIs DEF Less
<1>3. CASE T # RetryTime
  BY <1>2, <1>3, MarginsIs DEF Late
<1>4. CASE T = RetryTime
  <2>1. /\ Len(rq) <= 1
        /\ \A i \in DOMAIN rs : i < Len(rs) \/ rq # <<>> => rs[i].left = 0
    BY <1>2, <1>4 DEF Late
  <2>2. Len(rs) <= 1 /\ (rq # <<>> => Len(rs) = 0)
    <3>1. \A i \in DOMAIN rs : rs[i].left # 0
      OBVIOUS
    <3>2. \A i \in DOMAIN rs : ~(i < Len(rs)) /\ rq = <<>>
      BY <2>1, <3>1
    <3>3. Len(rs) # 0 => 1 \in DOMAIN rs
      BY <1>1
    <3> QED BY <1>1, <3>2, <3>3
  <2>3. rq = <<>> => Len(rq) = 0
    BY EmptySeq
  <2> QED BY <1>1, <1>2, <1>4, <2>1, <2>2, <2>3, MarginsIs
<1> QED BY <1>3, <1>4

-----------------------------------------------------------------------------
(* The requests that fell into a scan, in numbers.                         *)

(* The key is pressed: no request has fallen into a scan yet.              *)
LEMMA FallenKey ==
  ASSUME Margins, NEW o \in Int, o <= 1, NEW sta, NEW idx \in Nat, NEW e \in {0, 1, Off}, NEW lf,
         sta = "DOING" => e \in {0, 1}
  PROVE  Fallen(o, 1, RetryNum, RetryTime, sta, idx, e, lf)
<1>1. o - 1 \in Int /\ o - 1 <= 0
  OBVIOUS
<1>2. Times(o - 1) <= 0 /\ Times(o - 1) \in Int
  <2>1. Times(o - 1) <= Times(0)
    BY <1>1, TimesMono
  <2> QED BY <1>1, <2>1, TimesIs
<1>3. RetryNum \in Nat /\ RetryNum > 2 /\ FlightTime \in Nat /\ RetryTime \in Nat
  BY MarginsIs
<1>4. sta = "DOING" => Times(o - 1) + RetryTime <= idx + 1 + FlightTime + RetryTime - e
  BY <1>2, <1>3
<1>5. o - 1 <= RetryNum - 2
  BY <1>3
<1> QED BY <1>4, <1>5 DEF Fallen

(* A request is repeated.                                                  *)
LEMMA FallenRetry ==
  ASSUME Margins, NEW o \in Int, NEW r \in Nat \ {0}, NEW sta, NEW idx, NEW e, NEW lf,
         idx \in Nat, sta = "DOING" => e \in {0, 1}, sta = "DONE" => lf \in Nat,
         Fallen(o, 0, r, 0, sta, idx, e, lf)
  PROVE  Fallen(o + 1, 1, r - 1, RetryTime, sta, idx, e, lf)
<1>1. /\ Times(o + 1 - 1) = Times(o - 1) + RetryTime /\ Times(o - 1) \in Int
      /\ Times(r - 1) = Times(r) - RetryTime /\ Times(r) \in Int
  <2>1. o - 1 \in Int /\ r \in Int /\ (o - 1) + 1 = o + 1 - 1
    OBVIOUS
  <2>2. Times((o - 1) + 1) = Times(o - 1) + RetryTime
    BY <2>1, TimesIs
  <2> QED BY <2>1, <2>2, TimesIs
<1> QED BY <1>1, MarginsIs DEF Fallen

(* A request or an answer is lost or a result forgotten, or a request is   *)
(* answered; or one of several requests under way.                         *)
LEMMA FallenLess ==
  ASSUME Margins, NEW o \in Int, NEW n \in {0, 1}, NEW m \in {0, 1}, NEW k \in {0, 1},
         n - k <= m, NEW r, NEW T \in Nat, NEW sta, NEW idx \in Nat, NEW e, NEW lf,
         sta = "DOING" => e \in {0, 1} /\ k \in {0, 1},
         Fallen(o, n, r, T, sta, idx, e, lf)
  PROVE  Fallen(o - k, m, r, T, sta, idx, e, lf)
<1>1. Times(o - 1) \in Int /\ Times(o - k - 1) \in Int /\ Times(o - k - 1) <= Times(o - 1)
  <2>1. o - 1 \in Int /\ o - k - 1 \in Int /\ o - k - 1 <= o - 1
    OBVIOUS
  <2> QED BY <2>1, TimesIs, TimesMono
<1> QED BY <1>1, MarginsIs DEF Fallen

(* A request falls into a scan.                                            *)
LEMMA FallenIgnored ==
  ASSUME NEW o, NEW n, NEW m, NEW r, NEW T, NEW idx, NEW e, NEW lf,
         Fallen(o, n, r, T, "DOING", idx, e, lf)
  PROVE  Fallen(o, m, r, T, "DOING", idx, e, lf)
BY DEF Fallen

(* It begins one.                                                          *)
LEMMA FallenScans ==
  ASSUME Margins, NEW o \in Int, NEW m, NEW r, NEW T \in Nat, NEW idx, NEW e, NEW lf,
         RetryTime <= FlightTime + T,
         Fallen(o, 1, r, T, "IDLE", idx, e, lf)
  PROVE  Fallen(o, m, r, T, "DOING", 0, 1, lf)
<1>1. o - 1 \in Int /\ o - 1 <= 0
  BY DEF Fallen
<1>2. Times(o - 1) <= 0 /\ Times(o - 1) \in Int
  BY <1>1, TimesIs, TimesMono
<1> QED BY <1>2, MarginsIs DEF Fallen

(* A channel is measured; the last one ends the scan.                      *)
LEMMA FallenMeasured ==
  ASSUME Margins, NEW o \in Int, NEW n \in {0, 1}, NEW r \in 0..RetryNum, NEW T \in 0..RetryTime,
         NEW idx \in Nat, idx < ChannelNum, NEW lf,
         Fallen(o, n, r, T, "DOING", idx, 0, lf)
  PROVE  /\ Fallen(o, n, r, T, "DOING", idx + 1, 1, lf)
         /\ \A i : Fallen(o, n, r, T, "DONE", i, Off, LifeTime)
<1>1. Times(o - 1) \in Int /\ Times(o - 1) + RetryTime <= idx + 1 + FlightTime + T
  <2>1. o - 1 \in Int
    OBVIOUS
  <2> QED BY <2>1, TimesIs, MarginsIs DEF Fallen
<1>2. o <= RetryNum - 2
  <2>1. idx + 1 + FlightTime + T - RetryTime \in Int
        /\ idx + 1 + FlightTime + T - RetryTime <= ChannelNum + FlightTime
        /\ Times(o - 1) <= idx + 1 + FlightTime + T - RetryTime
    BY <1>1, MarginsIs
  <2> QED BY <2>1, ScanLeaves
<1>3. Times(r) + T < LifeTime
  <2>1. r \in Int /\ RetryNum \in Int /\ r <= RetryNum
    BY MarginsIs
  <2>2. /\ Times(r) <= Times(RetryNum) /\ Times(r) \in Int /\ Times(RetryNum) \in Int
        /\ Times(RetryNum + 1) = Times(RetryNum) + RetryTime
    BY <2>1, TimesIs, TimesMono
  <2> QED BY <2>2, MarginsIs
<1> QED BY <1>1, <1>2, <1>3, MarginsIs DEF Fallen

(* A result is forgotten.                                                  *)
LEMMA FallenForgotten ==
  ASSUME Margins, NEW o \in Int, NEW n \in {0, 1}, NEW k \in {0, 1}, NEW r \in Nat, NEW T \in Nat,
         NEW idx, NEW e, NEW l,
         Fallen(o, n, r, T, "DONE", idx, e, 0)
  PROVE  Fallen(o - k, n, r, T, "IDLE", idx, e, l)
<1>1. Times(r) \in Int /\ Times(r) >= 0
  <2>1. r \in Int /\ 0 <= r
    OBVIOUS
  <2> QED BY <2>1, TimesIs, TimesMono
<1> QED BY <1>1 DEF Fallen

(* Time passes.                                                            *)
LEMMA FallenTick ==
  ASSUME Margins, NEW o \in Int, NEW n, NEW r \in Nat, NEW T \in Nat, NEW sta, NEW idx \in Nat,
         NEW e, sta = "DOING" => e = 1, NEW lf, sta = "DONE" => lf \in Nat,
         NEW f, sta = "DOING" => f = e - 1, NEW l, sta = "DONE" => l = lf - 1,
         Fallen(o, n, r, T, sta, idx, e, lf)
  PROVE  Fallen(o, n, r, T - 1, sta, idx, f, l)
<1>1. Times(r) \in Int /\ Times(o - 1) \in Int
  <2>1. r \in Int /\ o - 1 \in Int
    OBVIOUS
  <2> QED BY <2>1, TimesIs
<1> QED BY <1>1, MarginsIs DEF Fallen

-----------------------------------------------------------------------------
(* Every step keeps the count of the losses.                               *)

(* The types of what is counted.                                           *)
LEMMA CountTypes ==
  ASSUME Margins, FInv
  PROVE  /\ dataReqTimeoutCb \in 0..RetryTime \cup {Off} /\ dataReqRetries \in 0..RetryNum
         /\ missed \in Nat /\ reqs \in Seq(0..FlightTime) /\ rsps \in Seq(Rsp)
         /\ Len(reqs) \in Nat /\ Len(rsps) \in Nat /\ curChannelIdx \in Nat
         /\ ed \in {0, 1, Off} /\ life \in Nat \cup {Off}
         /\ (scanSta = "DONE" <=> life # Off) /\ (scanSta = "DOING" <=> scanTimer)
         /\ Open(dataReqRetries, missed, rsps) \in Int
         /\ Waiting(reqs) \in {0, 1} /\ (Waiting(reqs) = 1 <=> reqs # <<>>)
         /\ Frames(dataReqTimeoutCb, reqs, rsps)
<1>1. /\ dataReqTimeoutCb \in 0..RetryTime \cup {Off} /\ reqs \in Seq(0..FlightTime)
      /\ rsps \in Seq(Rsp) /\ Frames(dataReqTimeoutCb, reqs, rsps)
  BY DEF FInv, Frames
<1>2. Len(reqs) \in Nat /\ Len(rsps) \in Nat
  BY <1>1, FrameIs
<1>3. /\ dataReqRetries \in 0..RetryNum /\ missed \in Nat /\ curChannelIdx \in Nat
      /\ ed \in {0, 1, Off} /\ life \in Nat \cup {Off}
  BY MarginsIs DEF FInv, Bounds, IInv, Types
<1>4. (scanSta = "DONE" <=> life # Off) /\ (scanSta = "DOING" <=> scanTimer)
  BY DEF FInv, IInv, ResultTimed
<1>5. Open(dataReqRetries, missed, rsps) \in Int
  BY <1>2, <1>3, MarginsIs DEF Open
<1> QED BY <1>1, <1>2, <1>3, <1>4, <1>5 DEF Waiting

(* The key is pressed.                                                     *)
LEMMA KeyLosses ==
  ASSUME Margins, FInv, GInv, app_audioStart
  PROVE  GInv'
<1>1. /\ dataReqTimeoutCb' = RetryTime /\ dataReqRetries' = RetryNum /\ missed' = 0
      /\ reqs' = Append(reqs, FlightTime) /\ ~mic /\ mic' = mic /\ rxOn' = TRUE
      /\ UNCHANGED <<rsps, scanSta, life, ed, curChannelIdx>>
  BY DEF app_audioStart, tl_audioStartReqSend, dongleVars, scanVars
<1>2. Waiting(reqs') = 1
  <2>1. FlightTime \in 0..FlightTime
    BY MarginsIs
  <2>2. reqs' # <<>>
    <3>1. reqs \in Seq(0..FlightTime)
      BY CountTypes
    <3> QED BY <1>1, <2>1, <3>1, AppendIs
  <2> QED BY <2>2 DEF Waiting
<1>3. Open(dataReqRetries', missed', rsps') \in Int /\ Open(dataReqRetries', missed', rsps') <= 1
  <2>1. RetryNum \in Nat /\ Len(rsps) \in Nat
    BY CountTypes, MarginsIs
  <2>2. Open(dataReqRetries', missed', rsps') = RetryNum + 1 - RetryNum - 0 - Len(rsps)
    BY <1>1 DEF Open
  <2> QED BY <2>1, <2>2
<1>4. Fallen(Open(dataReqRetries', missed', rsps'), 1, RetryNum, RetryTime, scanSta,
             curChannelIdx, ed, life)
  <2>1. scanSta = "DOING" => ed \in {0, 1}
    BY DEF GInv, Busy
  <2>2. curChannelIdx \in Nat /\ ed \in {0, 1, Off}
    BY CountTypes
  <2> QED BY <1>3, <2>1, <2>2, FallenKey
<1>5. Lossy'
  BY <1>1, <1>2, <1>4 DEF Lossy
<1>6. Late(dataReqTimeoutCb', dataReqRetries', reqs', rsps')
  BY <1>1, MarginsIs DEF Late
<1> QED BY <1>1, <1>5, <1>6 DEF GInv, Asking, Busy

(* A request is repeated.                                                  *)
LEMMA RetryLosses ==
  ASSUME Margins, FInv, GInv, Retry
  PROVE  GInv'
<1>1. /\ dataReqTimeoutCb = 0 /\ dataReqTimeoutCb' = RetryTime
      /\ dataReqRetries > 0 /\ dataReqRetries' = dataReqRetries - 1
      /\ reqs' = Append(reqs, FlightTime) /\ mic' = mic /\ rxOn' = rxOn
      /\ UNCHANGED <<rsps, scanSta, life, ed, curChannelIdx, missed>>
  BY DEF Retry, tl_audioStartReqSend, dongleVars, scanVars, histVars
<1>2. Waiting(reqs) = 0 /\ Waiting(reqs') = 1
  <2>1. FlightTime \in 0..FlightTime
    BY MarginsIs
  <2>2. reqs' # <<>>
    <3>1. reqs \in Seq(0..FlightTime)
      BY CountTypes
    <3> QED BY <1>1, <2>1, <3>1, AppendIs
  <2>3. reqs = <<>>
    BY <1>1, CountTypes, RunOut
  <2> QED BY <2>2, <2>3 DEF Waiting
<1>3. Open(dataReqRetries', missed', rsps') = Open(dataReqRetries, missed, rsps) + 1
  <2>1. RetryNum \in Nat /\ Len(rsps) \in Nat /\ missed \in Nat /\ dataReqRetries \in Int
    BY CountTypes, MarginsIs
  <2>2. Open(dataReqRetries', missed', rsps') = RetryNum + 1 - (dataReqRetries - 1) - missed - Len(rsps)
    BY <1>1 DEF Open
  <2> QED BY <2>1, <2>2 DEF Open
<1>4. Lossy'
  <2> SUFFICES ASSUME missed < Tolerated
               PROVE  Fallen(Open(dataReqRetries, missed, rsps) + 1, 1, dataReqRetries - 1, RetryTime,
                             scanSta, curChannelIdx, ed, life)
    BY <1>1, <1>2, <1>3 DEF Lossy
  <2>1. Fallen(Open(dataReqRetries, missed, rsps), 0, dataReqRetries, 0, scanSta, curChannelIdx,
               ed, life)
    BY <1>1, <1>2, MarginsIs DEF GInv, Lossy
  <2>2. /\ scanSta = "DOING" => ed \in {0, 1}
        /\ scanSta = "DONE" => life \in Nat
        /\ dataReqRetries \in Nat \ {0} /\ curChannelIdx \in Nat
        /\ Open(dataReqRetries, missed, rsps) \in Int
    BY <1>1, CountTypes DEF GInv, Busy
  <2> QED BY <2>1, <2>2, FallenRetry
<1>5. Late(dataReqTimeoutCb', dataReqRetries', reqs', rsps')
  <2>1. dataReqRetries' \in Nat
    BY <1>1, CountTypes
  <2>2. Frames(0, reqs, rsps)
    BY <1>1, CountTypes
  <2> QED BY <1>1, <2>1, <2>2, LateRetry
<1>6. Asking'
  BY <1>1, MarginsIs DEF GInv, Asking
<1> QED BY <1>1, <1>4, <1>5, <1>6 DEF GInv, Busy

(* The remote has its answer, gives up or stops: it does not ask.          *)
LEMMA OffLosses ==
  ASSUME GInv, GiveUp \/ StartRsp \/ tl_audio_stop
  PROVE  GInv'
<1>1. dataReqTimeoutCb' = Off
  BY DEF GiveUp, StartRsp, tl_audio_stop, GInv, Asking
<1>2. UNCHANGED <<scanSta, ed, curChannelIdx>>
  BY DEF GiveUp, StartRsp, tl_audio_stop, dongleVars, scanVars
<1> QED BY <1>1, <1>2 DEF GInv, Lossy, Late, Asking, Busy

(* A request arrives.                                                      *)
LEMMA ReqLosses ==
  ASSUME Margins, FInv, GInv, StartReq
  PROVE  GInv'
<1>1. /\ reqs # <<>> /\ reqs' = Tail(reqs)
      /\ UNCHANGED <<dataReqTimeoutCb, dataReqRetries, mic, rxOn, missed>>
  BY DEF StartReq, remoteVars
<1>2. Asking'
  BY <1>1 DEF GInv, Asking
<1>3. Waiting(reqs) = 1 /\ Waiting(reqs') \in {0, 1}
  BY <1>1 DEF Waiting
<1> DEFINE o == Open(dataReqRetries, missed, rsps)
<1>4. o \in Int /\ curChannelIdx \in Nat /\ dataReqRetries \in Nat
  BY CountTypes
<1>5. dataReqTimeoutCb # Off /\ missed < Tolerated =>
        Fallen(o, 1, dataReqRetries, dataReqTimeoutCb, scanSta, curChannelIdx, ed, life)
  BY <1>3 DEF GInv, Lossy
<1>6. dataReqTimeoutCb # Off => dataReqTimeoutCb \in Nat
  BY CountTypes
<1>7. Late(dataReqTimeoutCb, dataReqRetries, reqs, rsps)
      /\ reqs \in Seq(0..FlightTime) /\ rsps \in Seq(Rsp)
  BY CountTypes DEF GInv
<1>8. CASE Answered
  <2>1. /\ rsps' = Append(rsps, [channel |-> dChan, left |-> FlightTime])
        /\ scanSta = "DONE" /\ UNCHANGED <<scanSta, life, ed, curChannelIdx>>
    BY <1>8 DEF Answered, dongleVars, scanVars
  <2>2. [channel |-> dChan, left |-> FlightTime] \in Rsp
    BY MarginsIs DEF FInv, IInv, Types, Rsp
  <2>3. Len(rsps') = Len(rsps) + 1
    BY <1>7, <2>1, <2>2, AppendIs
  <2>4. Open(dataReqRetries', missed', rsps') = o - 1
    <3>1. RetryNum \in Nat /\ Len(rsps) \in Nat /\ missed \in Nat /\ dataReqRetries \in Int
      BY CountTypes, MarginsIs
    <3>2. Open(dataReqRetries', missed', rsps') =
            RetryNum + 1 - dataReqRetries - missed - (Len(rsps) + 1)
      BY <1>1, <2>3 DEF Open
    <3> QED BY <3>1, <3>2 DEF Open
  <2>5. Late(dataReqTimeoutCb', dataReqRetries', reqs', rsps')
    BY <1>1, <1>7, <2>1, <2>2, LateAnswered
  <2>6. Lossy'
    <3> SUFFICES ASSUME dataReqTimeoutCb # Off, missed < Tolerated
                 PROVE  Fallen(o - 1, Waiting(reqs'), dataReqRetries, dataReqTimeoutCb,
                               scanSta, curChannelIdx, ed, life)
      BY <1>1, <2>1, <2>4 DEF Lossy
    <3>1. 1 - 1 <= Waiting(reqs') /\ scanSta # "DOING"
      BY <1>3, <2>1
    <3> HIDE DEF o
    <3> QED BY <1>3, <1>4, <1>5, <1>6, <3>1, FallenLess
  <2>7. Busy'
    BY <2>1 DEF Busy
  <2> QED BY <1>2, <2>5, <2>6, <2>7 DEF GInv
<1>9. CASE Scans
  <2>1. /\ scanSta = "IDLE" /\ scanSta' = "DOING" /\ ed' = 1 /\ curChannelIdx' = 0
        /\ UNCHANGED <<life, rsps>>
    BY <1>9, CountTypes DEF Scans, app_edScanStart
  <2>2. Late(dataReqTimeoutCb', dataReqRetries', reqs', rsps')
    BY <1>1, <1>7, <2>1, LateReqTaken
  <2>3. Lossy'
    <3> SUFFICES ASSUME dataReqTimeoutCb # Off, missed < Tolerated
                 PROVE  Fallen(o, Waiting(reqs'), dataReqRetries, dataReqTimeoutCb,
                               "DOING", 0, 1, life)
      BY <1>1, <2>1 DEF Lossy
    <3>1. RetryTime <= FlightTime + dataReqTimeoutCb
      BY <1>1, <1>6, CountTypes, StillWaits
    <3>2. Fallen(o, 1, dataReqRetries, dataReqTimeoutCb, "IDLE", curChannelIdx, ed, life)
      BY <1>5, <2>1
    <3> HIDE DEF o
    <3> QED BY <1>4, <1>6, <3>1, <3>2, FallenScans
  <2>4. Busy'
    BY <2>1, ScanAssumption DEF Busy
  <2> QED BY <1>2, <2>2, <2>3, <2>4 DEF GInv
<1>10. CASE Ignored
  <2>1. scanSta = "DOING" /\ UNCHANGED <<scanSta, life, ed, curChannelIdx, rsps>>
    BY <1>10 DEF Ignored, dongleVars, scanVars
  <2>2. Late(dataReqTimeoutCb', dataReqRetries', reqs', rsps')
    BY <1>1, <1>7, <2>1, LateReqTaken
  <2>3. Lossy'
    BY <1>1, <1>5, <2>1, FallenIgnored DEF Lossy
  <2>4. Busy'
    BY <2>1 DEF GInv, Busy
  <2> QED BY <1>2, <2>2, <2>3, <2>4 DEF GInv
<1> QED BY <1>8, <1>9, <1>10 DEF StartReq

(* A channel is measured.                                                  *)
LEMMA MeasureLosses ==
  ASSUME Margins, FInv, GInv, NEW x \in Energy, Measure(x)
  PROVE  GInv'
<1>1. /\ ed = 0 /\ scanTimer
      /\ UNCHANGED <<dataReqTimeoutCb, dataReqRetries, mic, rxOn, missed, reqs, rsps>>
  BY DEF Measure, app_energyScanCb, remoteVars, airVars, histVars
<1>2. scanSta = "DOING" /\ curChannelIdx < ChannelNum
  BY <1>1, CountTypes DEF GInv, Busy
<1>3. \/ /\ curChannelIdx' = curChannelIdx + 1 /\ ed' = 1 /\ curChannelIdx + 1 < ChannelNum
         /\ UNCHANGED <<scanSta, life>>
      \/ ed' = Off /\ scanSta' = "DONE" /\ life' = LifeTime
  <2>1. CASE scanTimer'
    <3>1. ed' = 1 /\ UNCHANGED <<scanSta, life>>
      BY <2>1 DEF Measure
    <3>2. curChannelIdx' = curChannelIdx + 1 /\ ~(curChannelIdx + 1 >= ChannelNum)
      BY <2>1 DEF Measure, app_energyScanCb, ScanDone
    <3>3. curChannelIdx \in Nat /\ ChannelNum \in Nat
      BY CountTypes, MarginsIs
    <3> QED BY <3>1, <3>2, <3>3
  <2>2. CASE ~scanTimer'
    BY <2>2 DEF Measure
  <2> QED BY <2>1, <2>2
<1>4. Asking' /\ Late(dataReqTimeoutCb, dataReqRetries, reqs, rsps)'
  BY <1>1 DEF GInv, Asking
<1>5. Busy'
  BY <1>2, <1>3 DEF Busy
<1> DEFINE o == Open(dataReqRetries, missed, rsps)
           n == Waiting(reqs)
<1>6. Lossy'
  <2> SUFFICES ASSUME dataReqTimeoutCb # Off, missed < Tolerated
               PROVE  Fallen(o, n, dataReqRetries, dataReqTimeoutCb, scanSta', curChannelIdx',
                             ed', life')
    BY <1>1 DEF Lossy
  <2>1. Fallen(o, n, dataReqRetries, dataReqTimeoutCb, "DOING", curChannelIdx, 0, life)
    BY <1>1, <1>2 DEF GInv, Lossy
  <2>2. /\ o \in Int /\ n \in {0, 1} /\ dataReqRetries \in 0..RetryNum
        /\ dataReqTimeoutCb \in 0..RetryTime /\ curChannelIdx \in Nat
    BY CountTypes
  <2> HIDE DEF o, n
  <2>3. /\ Fallen(o, n, dataReqRetries, dataReqTimeoutCb, "DOING", curChannelIdx + 1, 1, life)
        /\ \A i : Fallen(o, n, dataReqRetries, dataReqTimeoutCb, "DONE", i, Off, LifeTime)
    BY <1>2, <2>1, <2>2, FallenMeasured
  <2> QED BY <1>2, <1>3, <2>3
<1> QED BY <1>4, <1>5, <1>6 DEF GInv

(* The result of a scan is forgotten.                                      *)
LEMMA ForgetLosses ==
  ASSUME Margins, FInv, GInv, app_edScanLifetimeCb
  PROVE  GInv'
<1>1. /\ life = 0 /\ scanSta' = "IDLE" /\ life' = Off
      /\ UNCHANGED <<dataReqTimeoutCb, dataReqRetries, mic, rxOn, reqs, rsps, ed, curChannelIdx>>
  BY DEF app_edScanLifetimeCb, remoteVars, airVars, scanVars
<1>2. PICK k \in {0, 1} : missed' = missed + k
  BY CountTypes DEF app_edScanLifetimeCb
<1>3. scanSta = "DONE"
  <2>1. Off \notin Nat /\ (scanSta = "DONE" <=> life # Off)
    BY CountTypes, MarginsIs
  <2> QED BY <1>1, <2>1
<1> DEFINE o == Open(dataReqRetries, missed, rsps)
           n == Waiting(reqs)
<1>4. Open(dataReqRetries', missed', rsps') = o - k
  <2>1. RetryNum \in Nat /\ Len(rsps) \in Nat /\ missed \in Nat /\ dataReqRetries \in Int
    BY CountTypes, MarginsIs
  <2>2. Open(dataReqRetries', missed', rsps') =
          RetryNum + 1 - dataReqRetries - (missed + k) - Len(rsps)
    BY <1>1, <1>2 DEF Open
  <2> QED BY <2>1, <2>2 DEF Open
<1>5. Lossy'
  <2> SUFFICES ASSUME dataReqTimeoutCb # Off, missed' < Tolerated
               PROVE  Fallen(o - k, n, dataReqRetries, dataReqTimeoutCb, "IDLE", curChannelIdx, ed,
                             Off)
    BY <1>1, <1>4 DEF Lossy
  <2>1. missed < Tolerated
    BY <1>2, CountTypes DEF Tolerated
  <2>2. Fallen(o, n, dataReqRetries, dataReqTimeoutCb, "DONE", curChannelIdx, ed, 0)
    BY <1>1, <1>3, <2>1 DEF GInv, Lossy
  <2>3. /\ o \in Int /\ n \in {0, 1} /\ dataReqRetries \in Nat /\ dataReqTimeoutCb \in Nat
    BY CountTypes
  <2> HIDE DEF o, n
  <2> QED BY <2>2, <2>3, FallenForgotten
<1>6. Asking' /\ Late(dataReqTimeoutCb, dataReqRetries, reqs, rsps)' /\ Busy'
  BY <1>1 DEF GInv, Asking, Busy
<1> QED BY <1>5, <1>6 DEF GInv

(* Data arrive: a session is open, and the remote does not ask.            *)
LEMMA DataLosses ==
  ASSUME GInv, Data
  PROVE  GInv'
<1>1. /\ dataReqTimeoutCb = Off /\ dataReqTimeoutCb' = Off /\ scanSta' = "IDLE"
  BY DEF Data, remoteVars, GInv, Asking
<1> QED BY <1>1 DEF GInv, Lossy, Late, Asking, Busy

(* A request or an answer is lost.                                         *)
LEMMA LoseLosses ==
  ASSUME Margins, FInv, GInv, Lose
  PROVE  GInv'
<1>1. /\ UNCHANGED <<dataReqTimeoutCb, dataReqRetries, mic, rxOn, scanSta, life, ed,
                     curChannelIdx>>
      /\ missed' = IF missed > RetryNum THEN missed ELSE missed + 1
      /\ \/ reqs # <<>> /\ reqs' = Tail(reqs) /\ UNCHANGED rsps
         \/ rsps # <<>> /\ rsps' = Tail(rsps) /\ UNCHANGED reqs
  BY DEF Lose, remoteVars, dongleVars, scanVars
<1>2. Late(dataReqTimeoutCb, dataReqRetries, reqs, rsps)'
  BY <1>1, CountTypes, LateReqTaken, LateRspLost DEF GInv
<1>3. Asking' /\ Busy'
  BY <1>1 DEF GInv, Asking, Busy
<1> DEFINE o == Open(dataReqRetries, missed, rsps)
<1>4. Lossy'
  <2> SUFFICES ASSUME dataReqTimeoutCb # Off, missed' < Tolerated
               PROVE  Fallen(Open(dataReqRetries, missed', rsps'), Waiting(reqs'), dataReqRetries,
                             dataReqTimeoutCb, scanSta, curChannelIdx, ed, life)
    BY <1>1 DEF Lossy
  <2>1. missed < Tolerated /\ missed' = missed + 1
    <3>1. missed \in Nat /\ RetryNum \in Nat /\ RetryNum > 2
      BY CountTypes, MarginsIs
    <3>2. missed' = (IF missed > RetryNum THEN missed ELSE missed + 1) /\ missed' < 2
      BY <1>1 DEF Tolerated
    <3>3. ~(missed > RetryNum)
      BY <3>1, <3>2
    <3>4. missed' = missed + 1
      BY <3>2, <3>3
    <3> QED BY <3>1, <3>2, <3>4 DEF Tolerated
  <2>2. Fallen(o, Waiting(reqs), dataReqRetries, dataReqTimeoutCb, scanSta, curChannelIdx, ed, life)
    BY <2>1 DEF GInv, Lossy
  <2>3. /\ o \in Int /\ Waiting(reqs) \in {0, 1} /\ Waiting(reqs') \in {0, 1}
        /\ dataReqTimeoutCb \in Nat /\ curChannelIdx \in Nat
        /\ (scanSta = "DOING" => ed \in {0, 1})
    BY CountTypes DEF Waiting, GInv, Busy
  <2>4. RetryNum \in Nat /\ Len(rsps) \in Nat /\ missed \in Nat /\ dataReqRetries \in Int
    BY CountTypes, MarginsIs
  <2>5. CASE reqs # <<>> /\ reqs' = Tail(reqs) /\ UNCHANGED rsps
    <3>1. Open(dataReqRetries, missed', rsps') = RetryNum + 1 - dataReqRetries - (missed + 1) - Len(rsps)
      BY <2>1, <2>5 DEF Open
    <3>2. Open(dataReqRetries, missed', rsps') = o - 1
      BY <2>4, <3>1 DEF Open
    <3>3. Waiting(reqs) - 1 <= Waiting(reqs')
      BY <2>3
    <3> HIDE DEF o
    <3> QED BY <2>2, <2>3, <3>2, <3>3, FallenLess
  <2>6. CASE rsps # <<>> /\ rsps' = Tail(rsps) /\ UNCHANGED reqs
    <3>0. Len(rsps') = Len(rsps) - 1
      BY <2>6, CountTypes, TailIs
    <3>1. Open(dataReqRetries, missed', rsps') =
            RetryNum + 1 - dataReqRetries - (missed + 1) - (Len(rsps) - 1)
      BY <2>1, <3>0 DEF Open
    <3>2. Open(dataReqRetries, missed', rsps') = o
      BY <2>4, <3>1 DEF Open
    <3> QED BY <2>2, <2>6, <3>2
  <2> QED BY <1>1, <2>5, <2>6
<1> QED BY <1>2, <1>3, <1>4 DEF GInv

(* Two sequences with the same positions have the same length.             *)
LEMMA SameUpTo ==
  ASSUME NEW a \in Nat, NEW b \in Nat, 1..a = 1..b
  PROVE  a = b
<1>1. ASSUME a < b PROVE FALSE
  <2>1. b \in 1..b
    BY <1>1
  <2> QED BY <1>1, <2>1
<1>2. ASSUME b < a PROVE FALSE
  <2>1. a \in 1..a
    BY <1>2
  <2> QED BY <1>2, <2>1
<1> QED BY <1>1, <1>2

(* Time passes.                                                            *)
LEMMA TickLosses ==
  ASSUME Margins, FInv, GInv, Tick
  PROVE  GInv'
<1>1. /\ dataReqTimeoutCb # 0 /\ life # 0 /\ ed # 0
      /\ dataReqTimeoutCb' = Less(dataReqTimeoutCb) /\ life' = Less(life) /\ ed' = Less(ed)
      /\ UNCHANGED <<dataReqRetries, mic, rxOn, scanSta, curChannelIdx, missed>>
      /\ \A i \in DOMAIN rsps : rsps[i].left > 0
  BY DEF Tick, Counts, scanVars, histVars
<1>2. /\ Len(reqs') = Len(reqs) /\ Len(rsps') = Len(rsps)
      /\ (reqs' = <<>> <=> reqs = <<>>)
  <2>1. /\ reqs' = [i \in DOMAIN reqs |-> reqs[i] - 1]
        /\ rsps' = [i \in DOMAIN rsps |-> [rsps[i] EXCEPT !.left = @ - 1]]
    BY DEF Tick
  <2>2. /\ DOMAIN reqs = 1..Len(reqs) /\ Len(reqs) \in Nat
        /\ DOMAIN rsps = 1..Len(rsps) /\ Len(rsps) \in Nat
    BY CountTypes, FrameIs
  <2>3. reqs' \in Seq(0..FlightTime) /\ rsps' \in Seq(Rsp)
    BY DongleFrames DEF Frames
  <2>4. /\ DOMAIN reqs' = 1..Len(reqs') /\ Len(reqs') \in Nat
        /\ DOMAIN rsps' = 1..Len(rsps') /\ Len(rsps') \in Nat
    BY <2>3, FrameIs
  <2>5. 1..Len(reqs') = 1..Len(reqs) /\ 1..Len(rsps') = 1..Len(rsps)
    BY <2>1, <2>2, <2>4
  <2>6. Len(reqs') = Len(reqs) /\ Len(rsps') = Len(rsps)
    BY <2>2, <2>4, <2>5, SameUpTo
  <2> QED BY <2>3, <2>6, CountTypes, EmptySeq
<1>3. Late(dataReqTimeoutCb, dataReqRetries, reqs, rsps)'
  BY <1>1, <1>2, CountTypes, LateTick DEF GInv
<1>4. Off # 0 /\ Off # 1 /\ (ed = 1 => Less(ed) = 0)
  BY MarginsIs DEF Less
<1>5. Asking'
  BY <1>1 DEF GInv, Asking, Less
<1>6. Busy'
  BY <1>1, <1>4 DEF GInv, Busy
<1> DEFINE o == Open(dataReqRetries, missed, rsps)
           n == Waiting(reqs)
<1>7. Lossy'
  <2> SUFFICES ASSUME dataReqTimeoutCb' # Off, missed < Tolerated
               PROVE  Fallen(o, n, dataReqRetries, dataReqTimeoutCb', scanSta, curChannelIdx, ed',
                             life')
    BY <1>1, <1>2 DEF Lossy, Open, Waiting
  <2>1. dataReqTimeoutCb # Off /\ dataReqTimeoutCb' = dataReqTimeoutCb - 1
    BY <1>1 DEF Less
  <2>2. Fallen(o, n, dataReqRetries, dataReqTimeoutCb, scanSta, curChannelIdx, ed, life)
    BY <2>1 DEF GInv, Lossy
  <2>3. /\ scanSta = "DOING" => ed = 1 /\ ed' = ed - 1
        /\ scanSta = "DONE" => life \in Nat /\ life' = life - 1
    BY <1>1, <1>4, CountTypes DEF GInv, Busy, Less
  <2>4. o \in Int /\ dataReqRetries \in Nat /\ dataReqTimeoutCb \in Nat /\ curChannelIdx \in Nat
    BY <2>1, CountTypes
  <2> HIDE DEF o, n
  <2> QED BY <2>1, <2>2, <2>3, <2>4, FallenTick
<1> QED BY <1>3, <1>5, <1>6, <1>7 DEF GInv

(* Before the first key the remote does not ask and the dongle is idle.    *)
LEMMA InitGInv ==
  ASSUME Init PROVE GInv
<1>1. dataReqTimeoutCb = Off /\ scanSta = "IDLE"
  BY DEF Init
<1> QED BY <1>1 DEF GInv, Lossy, Late, Asking, Busy

(* What is known of the losses, the scan and the retries in every state.   *)
LEMMA LossInvariance ==
  ASSUME Margins
  PROVE  Spec => [](FInv /\ GInv)
<1>1. Init => GInv
  BY InitGInv
<1>2. FInv /\ GInv /\ [Next]_vars => GInv'
  <2> SUFFICES ASSUME FInv, GInv, [Next]_vars PROVE GInv'
    OBVIOUS
  <2>1. CASE Next
    BY <2>1, KeyLosses, OffLosses, RetryLosses, ReqLosses, MeasureLosses, ForgetLosses,
       DataLosses, LoseLosses, TickLosses DEF Next
  <2>2. CASE UNCHANGED vars
    <3>1. UNCHANGED <<dataReqTimeoutCb, reqs, rsps, rxOn, mic, dataReqRetries, life, ed, scanSta,
                      curChannelIdx, missed>>
      BY <2>2 DEF vars, remoteVars, dongleVars, scanVars, airVars, histVars
    <3>2. Lossy' /\ Late(dataReqTimeoutCb, dataReqRetries, reqs, rsps)'
      BY <3>1 DEF GInv, Lossy
    <3>3. Asking' /\ Busy'
      BY <3>1 DEF GInv, Asking, Busy
    <3> QED BY <3>2, <3>3 DEF GInv
  <2> QED BY <2>1, <2>2
<1>3. Spec => []FInv
  BY FramesInvariance, MarginsIs
<1> QED BY <1>1, <1>2, <1>3, PTL DEF Spec

(* The last retry has run out: without two losses the scan would be over   *)
(* and two requests answered, and one of the answers would have arrived.   *)
LEMMA RunsOutAfterLosses ==
  ASSUME Margins, FInv, GInv, dataReqTimeoutCb = 0, dataReqRetries = 0
  PROVE  missed >= Tolerated
<1> DEFINE o == Open(0, missed, rsps)
<1>1. SUFFICES ASSUME missed < Tolerated PROVE FALSE
  BY CountTypes DEF Tolerated
<1>2. /\ 0 # Off /\ RetryNum \in Nat /\ RetryNum > 2 /\ 0 < RetryNum /\ RetryTime # 0
      /\ FlightTime \in Nat /\ ChannelNum \in Nat /\ RetryTime \in Nat
  BY MarginsIs
<1>3. reqs = <<>> /\ Len(rsps) <= 1
  <2>1. reqs = <<>> /\ Len(reqs) = 0
    BY CountTypes, RunOut, EmptySeq
  <2>2. Len(reqs) + Len(rsps) <= 1
    BY <1>2 DEF GInv, Late
  <2>3. Len(rsps) \in Nat
    BY CountTypes
  <2> QED BY <2>1, <2>2, <2>3
<1>4. o \in Int /\ o >= RetryNum - 1
  <2>1. missed \in Nat /\ Len(rsps) \in Nat /\ missed <= 1
    BY <1>1, CountTypes DEF Tolerated
  <2> QED BY <1>2, <1>3, <2>1 DEF Open
<1>5. Fallen(o, 0, 0, 0, scanSta, curChannelIdx, ed, life)
  BY <1>1, <1>2, <1>3 DEF GInv, Lossy, Waiting
<1>6. scanSta \in {"IDLE", "DOING", "DONE"}
  BY DEF FInv, IInv, Types
<1> HIDE DEF o
<1>7. CASE scanSta = "IDLE"
  BY <1>2, <1>4, <1>5, <1>7 DEF Fallen
<1>8. CASE scanSta = "DONE"
  BY <1>2, <1>4, <1>5, <1>8 DEF Fallen
<1>9. CASE scanSta = "DOING"
  <2>1. Times(o - 1) + RetryTime <= curChannelIdx + 1 + FlightTime + 0 - ed
    BY <1>5, <1>9 DEF Fallen
  <2>2. ed \in {0, 1} /\ curChannelIdx < ChannelNum /\ curChannelIdx \in Nat
    BY <1>9, CountTypes DEF GInv, Busy
  <2>3. o - 1 \in Int
    BY <1>4
  <2>4. Times(o - 1) \in Int
    BY <2>3, TimesIs
  <2>5. Times(o - 1) <= ChannelNum + FlightTime /\ ChannelNum + FlightTime \in Int
    BY <1>2, <2>1, <2>2, <2>4
  <2>6. o <= RetryNum - 2
    BY <1>4, <2>5, ScanLeaves
  <2> QED BY <1>2, <1>4, <2>6
<1> QED BY <1>6, <1>7, <1>8, <1>9

(* The remote gives up only after two frames were lost or results          *)
(* forgotten (tl_specific_data_audio.c:255-268, 299-300, 332), for every   *)
(* number of channels and retries and every length of the timers that      *)
(* leaves the margins.                                                     *)
THEOREM GivesUpOnlyAfterLossesTheorem ==
  ASSUME Margins
  PROVE  Spec => GivesUpOnlyAfterLosses
<1>1. Spec => [](FInv /\ GInv)
  BY LossInvariance
<1>2. ASSUME FInv, GInv, [Next]_vars
      PROVE  [dataReqTimeoutCb = 0 /\ rxOn /\ ~rxOn' => missed >= Tolerated]_vars
  <2>1. SUFFICES ASSUME Next, rxOn, ~rxOn' PROVE missed >= Tolerated
    BY <1>2
  <2>2. GiveUp
    BY <2>1 DEF Next, app_audioStart, Retry, StartRsp, tl_audio_stop, StartReq, Measure,
               app_edScanLifetimeCb, Data, Lose, Tick, remoteVars
  <2>3. dataReqTimeoutCb = 0 /\ dataReqRetries = 0
    BY <2>2 DEF GiveUp
  <2> QED BY <1>2, <2>3, RunsOutAfterLosses
<1> QED BY <1>1, <1>2, PTL DEF Spec, GivesUpOnlyAfterLosses
=============================================================================
