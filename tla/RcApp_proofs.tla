----------------------------- MODULE RcApp_proofs -----------------------------
(***************************************************************************)
(* What the remote believes of its pairing, for any number of restarts,    *)
(* any battery levels and any number of retries and answers.               *)
(*                                                                         *)
(* The pairing is kept four times: in the RAM of the application and of    *)
(* the stack, and in flash for each.  The inductive invariant says which   *)
(* of them agree at each stage of a pairing and of the two saves.          *)
(*                                                                         *)
(* The last part is what the application's state tells of the microphone,  *)
(* the update, the pairing and the keys, until a callback overwrites it.   *)
(***************************************************************************)
EXTENDS RcApp, TLAPS

Info == [paired : BOOLEAN, state : Normal]

AppRecord ==
  [state : States, info : Info, deep : BOOLEAN, inPair : BOOLEAN,
   rx : BOOLEAN, mic : BOOLEAN,
   timers : SUBSET {"repeat", "unpair", "pair", "req", "last"},
   tries : 0..Retries, last : Keys \cup {"none"}]

LibRecord ==
  [pairing : {"none", "search", "bond", "failed"}, unpairing : BOOLEAN,
   ota : BOOLEAN, late : BOOLEAN, asked : 0..MaxAsked, old : BOOLEAN,
   tbl : BOOLEAN]

Types ==
  /\ app \in AppRecord
  /\ lib \in LibRecord
  /\ nv \in [info : {Paired, Unpaired}, tbl : BOOLEAN]
  /\ save \in {"none", "stack", "app"}
  /\ batt \in Levels
  /\ key \in Keys \cup {"none"}
  /\ unsaved \in BOOLEAN

(* A pairing begins with the battery high enough for the two saves at its  *)
(* end, and the stack does one thing at a time.                            *)
Exclusive ==
  /\ app.inPair <=> lib.pairing # "none"
  /\ lib.pairing # "none" => batt <= FlashLevel /\ ~lib.unpairing /\ save = "none"

(* A half-made pairing is only in RAM. *)
Known == lib.pairing = "none" => app.info \in {Paired, Unpaired}

(* While the saves are under way the two copies in RAM agree. *)
Saved ==
  save # "none" =>
    /\ lib.pairing = "none"
    /\ app.info.paired <=> lib.tbl
    /\ save = "app" => (nv.tbl <=> lib.tbl)

(* Flash is up to date, unless it is behind or a save is under way. *)
Flash ==
  ~unsaved =>
    /\ save # "app" => (nv.info.paired <=> nv.tbl)
    /\ save = "none" /\ lib.pairing = "none" =>
         app.info = nv.info /\ (lib.tbl <=> nv.tbl)
    /\ lib.pairing # "none" => (lib.old <=> nv.tbl)

IInv == Types /\ Exclusive /\ Known /\ Saved /\ Flash

-----------------------------------------------------------------------------
(* Most handlers leave the pairing alone: Keeps says so of what they make  *)
(* of the application's RAM, Quiet of what they make of the stack's.       *)

Keeps(a, b) ==
  b \in AppRecord /\ b.info = a.info /\ b.inPair = a.inPair

Quiet(l) ==
  /\ l \in LibRecord
  /\ l.pairing = lib.pairing /\ l.old = lib.old /\ l.tbl = lib.tbl
  /\ lib.pairing # "none" => l.unpairing = lib.unpairing

(* Each setting of the application's RAM that leaves its info alone. *)
LEMMA SetState ==
  ASSUME NEW a \in AppRecord, NEW s \in States
  PROVE  Keeps(a, [a EXCEPT !.state = s])
BY DEF Keeps, AppRecord

(* ...of whether deep sleep is allowed, *)
LEMMA SetDeep ==
  ASSUME NEW a \in AppRecord, NEW x \in BOOLEAN
  PROVE  Keeps(a, [a EXCEPT !.deep = x])
BY DEF Keeps, AppRecord

(* ...of the receiver, *)
LEMMA SetRx ==
  ASSUME NEW a \in AppRecord, NEW x \in BOOLEAN
  PROVE  Keeps(a, [a EXCEPT !.rx = x])
BY DEF Keeps, AppRecord

(* ...of the microphone, *)
LEMMA SetMic ==
  ASSUME NEW a \in AppRecord, NEW x \in BOOLEAN
  PROVE  Keeps(a, [a EXCEPT !.mic = x])
BY DEF Keeps, AppRecord

(* ...and of the last key. *)
LEMMA SetLast ==
  ASSUME NEW a \in AppRecord, NEW k \in Keys \cup {"none"}
  PROVE  Keeps(a, [a EXCEPT !.last = k])
BY DEF Keeps, AppRecord

(* Stopping timers, which includes ending a repetition. *)
LEMMA DropTimer ==
  ASSUME NEW a \in AppRecord, NEW T
  PROVE  Keeps(a, [a EXCEPT !.timers = @ \ T])
BY DEF Keeps, AppRecord

(* Two settings at once, as the audio handlers make them. *)
LEMMA SetTwo ==
  ASSUME NEW a \in AppRecord, NEW T, NEW x \in BOOLEAN
  PROVE  /\ Keeps(a, [a EXCEPT !.timers = @ \ T, !.rx = x])
         /\ Keeps(a, [a EXCEPT !.mic = x, !.timers = @ \ T])
BY DEF Keeps, AppRecord

(* Starting a timer. *)
LEMMA AddTimer ==
  ASSUME NEW a \in AppRecord, NEW t \in {"repeat", "unpair", "pair", "req", "last"}
  PROVE  Keeps(a, [a EXCEPT !.timers = @ \cup {t}])
BY DEF Keeps, AppRecord

(* What the handlers' helpers do to the application's RAM. *)
LEMMA RestoredKeeps ==
  ASSUME NEW a \in AppRecord
  PROVE  Keeps(a, Restored(a))
BY DEF Keeps, AppRecord, Restored, Info, States

(* RepeatStopped: the repetition ends. *)
LEMMA RepeatStoppedKeeps ==
  ASSUME NEW a \in AppRecord
  PROVE  Keeps(a, RepeatStopped(a))
BY DropTimer DEF RepeatStopped

(* How a repetition ends everywhere: back to the state of the info. *)
LEMMA RepeatOverKeeps ==
  ASSUME NEW a \in AppRecord
  PROVE  Keeps(a, [RepeatStopped(Restored(a)) EXCEPT !.deep = TRUE])
<1>1. Keeps(a, Restored(a))
  BY RestoredKeeps
<1>2. Keeps(a, RepeatStopped(Restored(a)))
  BY <1>1, RepeatStoppedKeeps DEF Keeps
<1> QED BY <1>2, SetDeep DEF Keeps

(* audio_stateSettingCb, the microphone opened. *)
LEMMA AudioOpenedKeeps ==
  ASSUME NEW a \in AppRecord
  PROVE  Keeps(a, AudioOpened(a))
BY DEF Keeps, AppRecord, AudioOpened, States

(* audio_stateSettingCb, the microphone closed. *)
LEMMA AudioIdleKeeps ==
  ASSUME NEW a \in AppRecord
  PROVE  Keeps(a, AudioIdle(a))
BY RestoredKeeps, DropTimer DEF Keeps, AudioIdle

(* tl_audio_stop. *)
LEMMA AudioStopKeeps ==
  ASSUME NEW a \in AppRecord
  PROVE  Keeps(a, tl_audio_stop(a))
<1>1. Keeps(a, [a EXCEPT !.mic = FALSE, !.rx = TRUE])
  BY DEF Keeps, AppRecord
<1> QED BY <1>1, AudioIdleKeeps DEF Keeps, tl_audio_stop

(* app_audioStart. *)
LEMMA StartAudioKeeps ==
  ASSUME NEW a \in AppRecord
  PROVE  Keeps(a, StartAudio(a))
<1>1. Retries \in 0..Retries
  BY RcAppAssumption
<1> QED BY <1>1 DEF Keeps, AppRecord, StartAudio

(* A request that is sent, or a session of the update that starts or ends, *)
(* is nothing to the pairing.                                              *)
LEMMA QuietLib ==
  ASSUME Types
  PROVE  Quiet(lib) /\ Quiet(Asked) /\ Quiet(Unpairing(lib))
<1>1. Quiet(lib)
  BY DEF Quiet, Types
<1>2. Quiet(Asked)
  BY RcAppAssumption DEF Quiet, Types, LibRecord, Asked
<1>3. Quiet(Unpairing(lib))
  BY DEF Quiet, Types, LibRecord, Unpairing
<1> QED BY <1>1, <1>2, <1>3

(* A handler that keeps the info and is quiet for the stack preserves the  *)
(* invariant.                                                              *)
LEMMA QuietHandled ==
  ASSUME IInv, NEW a, NEW l, NEW foreign,
         Keeps(app, a), Quiet(l), Handled(a, l, foreign),
         batt' = batt, key' \in Keys \cup {"none"}
  PROVE  IInv'
<1>1. Keeps(app, app')
  <2>1. a \in AppRecord /\ "none" \in Keys \cup {"none"}
    BY DEF Keeps
  <2>2. Keeps(a, [a EXCEPT !.last = "none"])
    BY <2>1, SetLast
  <2> QED BY <2>1, <2>2 DEF Keeps, Handled, Left
<1>2. lib' = l /\ nv' = nv /\ save' = save /\ unsaved' = unsaved
  BY DEF Handled, Left
<1>3. /\ lib'.pairing = lib.pairing /\ lib'.old = lib.old
      /\ lib'.tbl = lib.tbl
      /\ lib'.pairing # "none" => lib'.unpairing = lib.unpairing
      /\ app'.info = app.info /\ app'.inPair = app.inPair
  BY <1>1, <1>2 DEF Keeps, Quiet
<1>4. Types'
  BY <1>1, <1>2 DEF IInv, Types, Keeps, Quiet
<1>5. Exclusive'
  BY <1>2, <1>3 DEF IInv, Exclusive
<1>6. Known'
  BY <1>3 DEF IInv, Known
<1>7. Saved'
  BY <1>2, <1>3 DEF IInv, Saved
<1>8. Flash'
  BY <1>2, <1>3 DEF IInv, Flash
<1> QED BY <1>4, <1>5, <1>6, <1>7, <1>8 DEF IInv

(* The same for a handler that is no key. *)
LEMMA QuietStep ==
  ASSUME IInv, NEW a, NEW l, NEW foreign,
         Keeps(app, a), Quiet(l), Step(a, l, foreign)
  PROVE  IInv'
<1>1. Handled(a, l, foreign) /\ batt' = batt /\ key' \in Keys \cup {"none"}
  BY DEF Step, IInv, Types
<1> QED BY <1>1, QuietHandled

-----------------------------------------------------------------------------
(* Keys *)

(* The application after a key has stopped another key's repetition. *)
LEMMA KeyHandlers ==
  ASSUME IInv, NEW k \in Keys, NEW a, Keeps(app, a),
         batt' = batt, key' \in Keys \cup {"none"},
         \/ HomeKey(k, a) \/ RecordKey(k, a) \/ TvKey(k, a) \/ SendKey(k, a)
         \/ UnpairKeys(k, a) \/ InfraredKey(k, a) \/ KeyIgnored(k, a)
  PROVE  IInv'
<1> a \in AppRecord
  BY DEF Keeps
<1> Types /\ Quiet(lib) /\ Quiet(Asked)
  BY QuietLib DEF IInv
<1> DEFINE Done(b, l) == Handled(b, l, FALSE) /\ Keeps(a, b) /\ Quiet(l)
<1>q. ASSUME NEW b, NEW l, Done(b, l)
      PROVE  IInv'
  <2>1. Keeps(app, b) /\ Quiet(l) /\ Handled(b, l, FALSE)
    BY <1>q DEF Keeps
  <2> QED BY <2>1, QuietHandled
<1>1. CASE HomeKey(k, a)
  <2>1. PICK x \in BOOLEAN :
          Handled([Restored(RepeatStopped(a)) EXCEPT !.state = "pre_pairing",
                     !.deep = FALSE, !.rx = x], lib, FALSE)
    <3>1. a.rx \in BOOLEAN /\ Restored(RepeatStopped(a)).rx = a.rx
      BY DEF AppRecord, Restored, RepeatStopped
    <3> QED BY <1>1, <3>1 DEF HomeKey
  <2> DEFINE c == Restored(RepeatStopped(a))
             b == [c EXCEPT !.state = "pre_pairing", !.deep = FALSE, !.rx = x]
  <2>2. Keeps(a, c)
    BY RestoredKeeps, RepeatStoppedKeeps DEF Keeps
  <2>3. "pre_pairing" \in States
    BY DEF States, PairingStates
  <2> HIDE DEF c
  <2>4. Keeps(a, b)
    BY <2>2, <2>3 DEF Keeps, AppRecord
  <2>5. Done(b, lib)
    BY <2>1, <2>4 DEF c
  <2> HIDE DEF b
  <2> QED BY <2>5, <1>q
<1>2. CASE RecordKey(k, a)
  <2>1. Keeps(a, tl_audio_stop(a)) /\ Keeps(a, a) /\ Keeps(a, StartAudio(a))
    BY AudioStopKeeps, StartAudioKeeps DEF Keeps
  <2> QED BY <1>2, <2>1, <1>q DEF RecordKey
<1>3. CASE TvKey(k, a)
  <2>1. Keeps(a, [a EXCEPT !.state = "ota", !.rx = TRUE])
    BY DEF Keeps, AppRecord, States
  <2>2. Quiet([lib EXCEPT !.ota = TRUE])
    BY DEF Quiet, Types, LibRecord
  <2>3. Keeps(a, [Restored(a) EXCEPT !.deep = TRUE])
    BY RestoredKeeps, SetDeep DEF Keeps
  <2> QED BY <1>3, <2>1, <2>2, <2>3, <1>q DEF TvKey
<1>4. CASE SendKey(k, a)
  <2>1. Keeps(a, [a EXCEPT !.deep = FALSE, !.timers = @ \cup {"repeat"}]) /\ Keeps(a, a)
    BY DEF Keeps, AppRecord
  <2> QED BY <1>4, <2>1, <1>q DEF SendKey
<1>5. CASE UnpairKeys(k, a)
  <2>1. Keeps(a, [a EXCEPT !.timers = @ \cup {"unpair"}])
    BY AddTimer
  <2> QED BY <1>5, <2>1, <1>q DEF UnpairKeys
<1>6. CASE InfraredKey(k, a)
  <2>1. Keeps(a, a) /\ Keeps(a, [a EXCEPT !.rx = FALSE, !.state = "ir",
                                 !.timers = @ \cup {"repeat"}])
    BY DEF Keeps, AppRecord, States
  <2> QED BY <1>6, <2>1, <1>q DEF InfraredKey
<1>7. CASE KeyIgnored(k, a)
  BY <1>7, <1>q DEF KeyIgnored, Keeps
<1> QED BY <1>1, <1>2, <1>3, <1>4, <1>5, <1>6, <1>7

(* Whatever the state in which a key is pressed. *)
LEMMA KeyPressed ==
  ASSUME IInv, NEW k \in Keys, keyScan_keyPressedCB(k)
  PROVE  IInv'
<1> app \in AppRecord /\ Types /\ Quiet(lib) /\ Keeps(app, app)
  BY QuietLib DEF IInv, Types, Keeps
<1> batt' = batt /\ key' \in Keys \cup {"none"}
  BY DEF keyScan_keyPressedCB
<1>1. CASE Handled([app EXCEPT !.deep = TRUE], lib, FALSE)
  BY <1>1, SetDeep, QuietHandled
<1>2. CASE KeyInSession(k)
  <2> DEFINE a == [app EXCEPT !.last = IF k = "menu_back" THEN "none" ELSE k]
  <2>1. Keeps(app, a)
    BY SetLast
  <2>2. Keeps(app, tl_audio_stop(a))
    BY <2>1, AudioStopKeeps DEF Keeps
  <2> HIDE DEF a
  <2>3. \E b \in {app, a, tl_audio_stop(a)} : Handled(b, lib, FALSE)
    BY <1>2 DEF KeyInSession, a
  <2> QED BY <2>1, <2>2, <2>3, QuietHandled
<1>3. ASSUME NEW code \in Keys \cup {"none"}, NEW a0 \in {app, RepeatStopped(app)},
             NEW a, a = [a0 EXCEPT !.last = code],
             \/ HomeKey(k, a) \/ RecordKey(k, a) \/ TvKey(k, a) \/ SendKey(k, a)
             \/ UnpairKeys(k, a) \/ InfraredKey(k, a) \/ KeyIgnored(k, a)
      PROVE  IInv'
  <2>1. Keeps(app, a0)
    BY RepeatStoppedKeeps
  <2>2. Keeps(app, a)
    BY <1>3, <2>1, SetLast DEF Keeps
  <2> QED BY <1>3, <2>2, KeyHandlers
<1> QED BY <1>1, <1>2, <1>3 DEF keyScan_keyPressedCB

(* The release ends a repetition and a pairing that has not begun. *)
LEMMA KeyReleased ==
  ASSUME IInv, keyScan_keyReleasedCB
  PROVE  IInv'
<1> app \in AppRecord /\ Quiet(lib) /\ Keeps(app, app)
  BY QuietLib DEF IInv, Types, Keeps
<1>1. Keeps(app, [RepeatStopped(Restored(app)) EXCEPT !.deep = TRUE])
  BY RepeatOverKeeps
<1>2. Keeps(app, [Restored(app) EXCEPT !.deep = TRUE])
  BY RestoredKeeps, SetDeep DEF Keeps
<1>3. \E b \in {app, [RepeatStopped(Restored(app)) EXCEPT !.deep = TRUE],
                 [Restored(app) EXCEPT !.deep = TRUE]} : Handled(b, lib, FALSE)
  BY DEF keyScan_keyReleasedCB
<1>4. batt' = batt /\ key' \in Keys \cup {"none"}
  BY DEF keyScan_keyReleasedCB
<1> QED BY <1>1, <1>2, <1>3, <1>4, QuietHandled

-----------------------------------------------------------------------------
(* Audio, repetition and the update *)

(* Audio leaves the pairing alone. *)
LEMMA AudioTimers ==
  ASSUME IInv,
         audioStartReqTimeout \/ audioStartRsp \/ audioLastTimeoutCb \/ AudioErrors
  PROVE  IInv'
<1> app \in AppRecord /\ lib \in LibRecord /\ Quiet(lib) /\ Quiet(Asked)
  BY QuietLib DEF IInv, Types
<1>1. CASE audioStartReqTimeout
  <2>1. Keeps(app, [AudioIdle(app) EXCEPT !.timers = @ \ {"req"}, !.rx = FALSE])
    <3>1. Keeps(app, AudioIdle(app))
      BY AudioIdleKeeps
    <3>2. Keeps(AudioIdle(app),
                [AudioIdle(app) EXCEPT !.timers = @ \ {"req"}, !.rx = FALSE])
      BY <3>1, SetTwo DEF Keeps
    <3> QED BY <3>1, <3>2 DEF Keeps
  <2>2. app.tries # 0 => Keeps(app, [app EXCEPT !.tries = @ - 1])
    <3>1. app.tries # 0 => app.tries - 1 \in 0..Retries
      BY RcAppAssumption DEF AppRecord
    <3> QED BY <3>1 DEF Keeps, AppRecord
  <2> QED BY <1>1, <2>1, <2>2, QuietStep DEF audioStartReqTimeout
<1>2. CASE audioStartRsp
  <2>1. Keeps(app, [AudioOpened(app) EXCEPT !.mic = TRUE, !.timers = @ \ {"req"}])
    <3>1. Keeps(app, AudioOpened(app))
      BY AudioOpenedKeeps
    <3>2. Keeps(AudioOpened(app),
                [AudioOpened(app) EXCEPT !.mic = TRUE, !.timers = @ \ {"req"}])
      BY <3>1, SetTwo DEF Keeps
    <3> QED BY <3>1, <3>2 DEF Keeps
  <2>2. Quiet([lib EXCEPT !.asked = @ - 1])
    <3>1. lib.asked - 1 \in 0..MaxAsked
      BY <1>2, RcAppAssumption DEF LibRecord, audioStartRsp
    <3> QED BY <3>1 DEF Quiet, LibRecord
  <2> QED BY <1>2, <2>1, <2>2, QuietStep DEF audioStartRsp
<1>3. CASE audioLastTimeoutCb
  BY <1>3, AudioStopKeeps, QuietStep DEF audioLastTimeoutCb
<1>4. CASE AudioErrors
  <2>1. Keeps(app, AudioIdle([app EXCEPT !.mic = FALSE]))
    BY SetMic, AudioIdleKeeps DEF Keeps
  <2> QED BY <1>4, <2>1, QuietStep DEF AudioErrors
<1> QED BY <1>1, <1>2, <1>3, <1>4

(* So does the repetition of a key, *)
LEMMA RepeatTimer ==
  ASSUME IInv, RepeatTick \/ RepeatEnd
  PROVE  IInv'
<1> app \in AppRecord /\ Quiet(lib)
  BY QuietLib DEF IInv, Types
<1>1. Keeps(app, [app EXCEPT !.deep = FALSE])
  BY SetDeep
<1>2. Keeps(app, [RepeatStopped(Restored(app)) EXCEPT !.deep = TRUE])
  BY RepeatOverKeeps
<1> QED BY <1>1, <1>2, QuietStep DEF RepeatTick, RepeatEnd

(* and the end of an update. *)
LEMMA OtaState ==
  ASSUME IInv, app_otaStateCb
  PROVE  IInv'
<1> app \in AppRecord /\ lib \in LibRecord
  BY DEF IInv, Types
<1>1. Keeps(app, OtaFailed)
  BY DEF Keeps, AppRecord, OtaFailed, States, Normal
<1>2. /\ \A late \in BOOLEAN :
           Quiet([lib EXCEPT !.ota = FALSE, !.late = @ \/ late])
      /\ Quiet([lib EXCEPT !.late = FALSE])
  BY DEF Quiet, LibRecord
<1> QED BY <1>1, <1>2, QuietStep DEF app_otaStateCb

-----------------------------------------------------------------------------
(* Pairing *)

(* A request to pair begins one only when the stack is free.               *)
LEMMA DoPair ==
  ASSUME IInv, NEW a, Keeps(app, a), zrc_doPair(a)
  PROVE  IInv'
<1> a \in AppRecord /\ lib \in LibRecord /\ Quiet(lib)
  BY QuietLib DEF IInv, Types, Keeps
<1>1. CASE batt > PairLevel
  <2>1. Keeps(a, [Restored(a) EXCEPT !.deep = TRUE])
    BY RestoredKeeps, SetDeep DEF Keeps
  <2>2. Keeps(app, [Restored(a) EXCEPT !.deep = TRUE])
    BY <2>1 DEF Keeps
  <2> QED BY <1>1, <2>2, QuietStep DEF zrc_doPair
<1>2. CASE ~(batt > PairLevel) /\ a.inPair
  BY <1>2, QuietStep DEF zrc_doPair
<1>3. CASE ~(batt > PairLevel) /\ ~a.inPair /\ lib.unpairing
  <2>1. Keeps(a, [a EXCEPT !.rx = TRUE, !.timers = @ \cup {"pair"}])
    BY DEF Keeps, AppRecord
  <2>2. Keeps(app, [a EXCEPT !.rx = TRUE, !.timers = @ \cup {"pair"}])
    BY <2>1 DEF Keeps
  <2> QED BY <1>3, <2>2, QuietStep DEF zrc_doPair
<1>4. CASE ~(batt > PairLevel) /\ ~a.inPair /\ ~lib.unpairing
  <2> DEFINE b == [a EXCEPT !.rx = TRUE, !.state = "pairing", !.inPair = TRUE,
                            !.deep = FALSE]
             l == [lib EXCEPT !.pairing = "search", !.old = lib.tbl]
  <2>1. Step(b, l, FALSE)
    BY <1>4 DEF zrc_doPair
  <2>2. /\ b \in AppRecord /\ b.info = app.info /\ b.inPair = TRUE
        /\ [b EXCEPT !.last = "none"] \in AppRecord
        /\ [b EXCEPT !.last = "none"].info = app.info
        /\ [b EXCEPT !.last = "none"].inPair = TRUE
    BY DEF Keeps, AppRecord, States, PairingStates
  <2>3. l \in LibRecord /\ l.pairing = "search" /\ l.old = lib.tbl
        /\ l.tbl = lib.tbl /\ l.unpairing = lib.unpairing
    BY DEF LibRecord
  <2>4. app' \in AppRecord /\ app'.info = app.info /\ app'.inPair = TRUE
    BY <2>1, <2>2 DEF Step, Handled, Left
  <2>5. /\ lib' = l /\ save = "none"
        /\ UNCHANGED <<nv, save, batt, key, unsaved>>
    BY <2>1 DEF Step, Handled, Left
  <2> HIDE DEF b, l
  <2>6. lib.pairing = "none"
    BY <1>4 DEF IInv, Exclusive, Keeps
  <2>7. batt <= FlashLevel
    BY <1>4, RcAppAssumption DEF IInv, Types, PairLevel, FlashLevel, CutOff
  <2>8. Types'
    BY <2>3, <2>4, <2>5 DEF IInv, Types
  <2>9. Exclusive'
    BY <1>4, <2>3, <2>4, <2>5, <2>7 DEF Exclusive
  <2>10. Known' /\ Saved'
    BY <2>3, <2>5 DEF Known, Saved
  <2>11. Flash'
    BY <2>3, <2>4, <2>5, <2>6 DEF IInv, Flash
  <2> QED BY <2>8, <2>9, <2>10, <2>11 DEF IInv
<1> QED BY <1>1, <1>2, <1>3, <1>4

(* HOME held, and the second attempt while the stack was busy. *)
LEMMA PairingAsked ==
  ASSUME IInv, app_lightOnProgLed \/ PairTimer
  PROVE  IInv'
<1> app \in AppRecord
  BY DEF IInv, Types
<1>1. Keeps(app, [app EXCEPT !.state = "pairing"])
  BY SetState DEF States, PairingStates
<1>2. Keeps(app, [app EXCEPT !.timers = @ \ {"pair"}])
  BY DropTimer
<1> QED BY <1>1, <1>2, DoPair DEF app_lightOnProgLed, PairTimer

(* While the stack pairs, the application may believe in a pairing that is *)
(* not complete: what it believes is in RAM only.                          *)
LEMMA PairingStep ==
  ASSUME IInv, NEW b, NEW l, NEW foreign,
         Step(b, l, foreign),
         b \in AppRecord, b.inPair = app.inPair,
         l \in LibRecord, l.pairing # "none", l.old = lib.old,
         l.unpairing = lib.unpairing, lib.pairing # "none"
  PROVE  IInv'
<1>1. app' \in AppRecord /\ app'.inPair = b.inPair
  <2>1. Keeps(b, [b EXCEPT !.last = "none"])
    BY SetLast
  <2> QED BY <2>1 DEF Keeps, Step, Handled, Left
<1>2. /\ lib' = l /\ save = "none"
      /\ UNCHANGED <<nv, save, batt, key, unsaved>>
  BY DEF Step, Handled, Left
<1>3. Types'
  BY <1>1, <1>2 DEF IInv, Types
<1>4. Exclusive' /\ Known' /\ Saved'
  BY <1>1, <1>2 DEF IInv, Exclusive, Known, Saved
<1>5. Flash'
  BY <1>2 DEF IInv, Flash
<1> QED BY <1>3, <1>4, <1>5 DEF IInv

(* The pairing is confirmed or fails; the validation starts. *)
LEMMA PairConfirmed ==
  ASSUME IInv, zrc_pairCnfCb \/ zrc_checkValidationCb
  PROVE  IInv'
<1> app \in AppRecord /\ lib \in LibRecord
  BY DEF IInv, Types
<1>1. CASE zrc_checkValidationCb
  <2>1. Keeps(app, [app EXCEPT !.state = "validation"]) /\ Quiet(lib)
    BY SetState, QuietLib DEF IInv, States, PairingStates
  <2> QED BY <1>1, <2>1, QuietStep DEF zrc_checkValidationCb
<1>2. CASE zrc_pairCnfCb
  <2> DEFINE b1 == [app EXCEPT !.rx = FALSE, !.info.paired = TRUE, !.state = "verify"]
             l1 == [lib EXCEPT !.pairing = "bond", !.tbl = TRUE]
             b2 == [app EXCEPT !.rx = FALSE]
             l2 == [lib EXCEPT !.pairing = "failed"]
  <2>1. b1 \in AppRecord /\ b1.inPair = app.inPair
    BY DEF AppRecord, Info, States, PairingStates
  <2>2. b2 \in AppRecord /\ b2.inPair = app.inPair
    BY SetRx DEF Keeps
  <2>3. /\ l1 \in LibRecord /\ l1.pairing # "none" /\ l1.old = lib.old
        /\ l1.unpairing = lib.unpairing
    BY DEF LibRecord
  <2>4. /\ l2 \in LibRecord /\ l2.pairing # "none" /\ l2.old = lib.old
        /\ l2.unpairing = lib.unpairing
    BY DEF LibRecord
  <2>5. /\ lib.pairing # "none"
        /\ Step(b1, l1, app.state # "pairing") \/ Step(b2, l2, FALSE)
    BY <1>2 DEF zrc_pairCnfCb
  <2> HIDE DEF b1, l1, b2, l2
  <2> QED BY <2>1, <2>2, <2>3, <2>4, <2>5, PairingStep
<1> QED BY <1>1, <1>2

(* The two infos that are ever saved. *)
LEMMA BothAreInfo == /\ Paired \in Info /\ Paired.paired
                    /\ Unpaired \in Info /\ ~Unpaired.paired
BY DEF Info, Paired, Unpaired, Normal

(* A pairing or an unpairing is complete: both copies in RAM agree, and    *)
(* the saves begin or flash is marked as behind.                           *)
LEMMA CompleteStep ==
  ASSUME IInv, NEW b, NEW l, NEW foreign, NEW unpair \in BOOLEAN,
         Left(b, l, foreign), Saving(unpair),
         b \in AppRecord, ~b.inPair, b.info \in {Paired, Unpaired},
         l \in LibRecord, l.pairing = "none", b.info.paired <=> l.tbl,
         unpair \/ batt <= FlashLevel
  PROVE  IInv'
<1>1. app' \in AppRecord /\ app'.inPair = b.inPair /\ app'.info = b.info
  <2>1. Keeps(b, [b EXCEPT !.last = "none"])
    BY SetLast
  <2> QED BY <2>1 DEF Keeps, Left
<1>2. lib' = l /\ save = "none" /\ UNCHANGED <<nv, batt, key>>
  BY DEF Left, Saving
<1>3. save' \in {"none", "stack"}
  BY DEF Saving
<1>4. unsaved' \in BOOLEAN /\ (unsaved => unsaved')
  BY DEF IInv, Types, Saving
<1>5. save' = "none" => unsaved'
  <2>1. ~(batt <= FlashLevel) => batt > FlashLevel
    BY RcAppAssumption DEF IInv, Types, FlashLevel, CutOff
  <2>2. ~(batt <= FlashLevel) => unpair
    OBVIOUS
  <2>3. batt <= FlashLevel => save' = "stack"
    BY DEF Saving
  <2>4. unsaved' = (unsaved \/ (unpair /\ batt > FlashLevel))
    BY DEF Saving
  <2>5. save' = "none" => ~(batt <= FlashLevel)
    BY <2>3
  <2> QED BY <2>1, <2>2, <2>4, <2>5
<1>6. Types'
  BY <1>1, <1>2, <1>3, <1>4 DEF IInv, Types
<1>7. Exclusive' /\ Known' /\ Saved'
  BY <1>1, <1>2, <1>3 DEF Exclusive, Known, Saved
<1>8. Flash'
  BY <1>2, <1>3, <1>4, <1>5 DEF IInv, Flash
<1> QED BY <1>6, <1>7, <1>8 DEF IInv

(* The binding ends: both believe in it, neither does, or what flash has   *)
(* is restored.                                                            *)
LEMMA BondConfirmed ==
  ASSUME IInv, zrc_bondCnfCb
  PROVE  IInv'
<1> app \in AppRecord /\ lib \in LibRecord
    /\ nv \in [info : {Paired, Unpaired}, tbl : BOOLEAN]
  BY DEF IInv, Types
<1> DEFINE foreign == app.state \notin {"pairing", "verify", "validation"}
           done(t) == [lib EXCEPT !.pairing = "none", !.old = FALSE, !.tbl = t]
           restored == [Bound(Paired) EXCEPT !.info = nv.info, !.deep = TRUE]
<1>1. lib.pairing # "none" /\ batt <= FlashLevel
  BY DEF IInv, Exclusive, zrc_bondCnfCb
<1>2. \A t \in BOOLEAN :
        done(t) \in LibRecord /\ done(t).pairing = "none" /\ done(t).tbl = t
  BY DEF LibRecord
<1>3. Paired \in Info /\ Unpaired \in Info /\ Paired.paired /\ ~Unpaired.paired
  BY BothAreInfo
<1>4. \A info \in Info : /\ Bound(info) \in AppRecord /\ ~Bound(info).inPair
                         /\ Bound(info).info = info
  BY DEF AppRecord, Bound, Info, States
<1>5. CASE Left(Bound(Paired), done(TRUE), foreign) /\ Saving(FALSE)
  <2> HIDE DEF foreign, done
  <2> QED BY <1>1, <1>2, <1>3, <1>4, <1>5, CompleteStep
<1>6. CASE /\ Left([Bound(Unpaired) EXCEPT !.deep = TRUE], done(FALSE), foreign)
           /\ Saving(FALSE)
  <2>1. Keeps(Bound(Unpaired), [Bound(Unpaired) EXCEPT !.deep = TRUE])
    BY <1>3, <1>4, SetDeep
  <2> HIDE DEF foreign, done
  <2> QED BY <1>1, <1>2, <1>3, <1>4, <1>6, <2>1, CompleteStep DEF Keeps
<1>7. CASE lib.old /\ Step(restored, done(TRUE), foreign)
  <2>1. restored \in AppRecord /\ ~restored.inPair /\ restored.info = nv.info
    <3>1. nv.info \in Info
      BY <1>3
    <3>2. Bound(Paired) \in AppRecord /\ ~Bound(Paired).inPair
      BY <1>3, <1>4
    <3> QED BY <3>1, <3>2 DEF AppRecord
  <2> HIDE DEF foreign, done, restored
  <2>2. app' \in AppRecord /\ ~app'.inPair /\ app'.info = nv.info
    <3>1. Keeps(restored, [restored EXCEPT !.last = "none"])
      BY <2>1, SetLast
    <3> QED BY <1>7, <2>1, <3>1 DEF Keeps, Step, Handled, Left
  <2>3. /\ lib' = done(TRUE) /\ save = "none"
        /\ UNCHANGED <<nv, save, batt, key, unsaved>>
    BY <1>7 DEF Step, Handled, Left
  <2>4. Types'
    BY <1>2, <2>2, <2>3 DEF IInv, Types
  <2>5. Exclusive' /\ Known' /\ Saved'
    BY <1>2, <2>2, <2>3 DEF Exclusive, Known, Saved
  <2>6. Flash'
    BY <1>1, <1>2, <1>7, <2>2, <2>3 DEF IInv, Flash
  <2> QED BY <2>4, <2>5, <2>6 DEF IInv
<1> QED BY <1>5, <1>6, <1>7 DEF zrc_bondCnfCb

-----------------------------------------------------------------------------
(* Unpairing *)

(* An unpairing is asked for: the stack alone changes. *)
LEMMA UnpairAsked ==
  ASSUME IInv, zrc_doUnpair \/ zrc_cmdSendCb
  PROVE  IInv'
<1> app \in AppRecord /\ Quiet(lib) /\ Quiet(Unpairing(lib))
  BY QuietLib DEF IInv, Types
<1>1. CASE zrc_doUnpair
  <2>1. Keeps(app, [app EXCEPT !.timers = @ \ {"unpair"}, !.deep = FALSE])
    BY DEF Keeps, AppRecord
  <2> QED BY <1>1, <2>1, QuietStep DEF zrc_doUnpair
<1>2. CASE zrc_cmdSendCb
  <2>1. \E a \in {app, [app EXCEPT !.deep = FALSE]},
           l \in {lib, Unpairing(lib)}, foreign \in BOOLEAN :
          \/ Step([RepeatStopped(Restored(a)) EXCEPT !.deep = TRUE], l, foreign)
          \/ Step(a, l, foreign)
    BY <1>2 DEF zrc_cmdSendCb
  <2>2. PICK a \in {app, [app EXCEPT !.deep = FALSE]},
             l \in {lib, Unpairing(lib)}, foreign \in BOOLEAN :
          \/ Step([RepeatStopped(Restored(a)) EXCEPT !.deep = TRUE], l, foreign)
          \/ Step(a, l, foreign)
    BY <2>1
  <2>3. Keeps(app, a)
    BY SetDeep DEF Keeps
  <2>4. Keeps(app, [RepeatStopped(Restored(a)) EXCEPT !.deep = TRUE])
    BY <2>3, RepeatOverKeeps DEF Keeps
  <2> QED BY <2>2, <2>3, <2>4, QuietStep
<1> QED BY <1>1, <1>2

(* The unpairing ends: nobody believes in the pairing. *)
LEMMA UnpairConfirmed ==
  ASSUME IInv, zrc_unPairCnfCb
  PROVE  IInv'
<1> app \in AppRecord /\ lib \in LibRecord
  BY DEF IInv, Types
<1> DEFINE b == [app EXCEPT !.state = "unconnect", !.info = Unpaired, !.deep = TRUE]
           l == [lib EXCEPT !.unpairing = FALSE, !.tbl = FALSE]
<1>1. lib.pairing = "none" /\ ~app.inPair
  BY DEF IInv, Exclusive, zrc_unPairCnfCb
<1>2. b \in AppRecord /\ ~b.inPair /\ b.info = Unpaired /\ ~Unpaired.paired
  BY <1>1 DEF AppRecord, States, Normal, Info, Unpaired
<1>3. l \in LibRecord /\ l.pairing = "none" /\ ~l.tbl
  BY <1>1 DEF LibRecord
<1>4. Left(b, l, app.state \notin Normal) /\ Saving(TRUE)
  BY DEF zrc_unPairCnfCb
<1> HIDE DEF b, l
<1> QED BY <1>2, <1>3, <1>4, CompleteStep

-----------------------------------------------------------------------------
(* Saves, restarts and the battery *)

(* The stack saves its table first, *)
LEMMA SaveStack ==
  ASSUME IInv, zrc_saveStackInfo
  PROVE  IInv'
<1>1. /\ lib.pairing = "none" /\ lib.tbl \in BOOLEAN
      /\ nv \in [info : {Paired, Unpaired}, tbl : BOOLEAN]
  BY DEF IInv, Types, LibRecord, Saved, zrc_saveStackInfo
<1>2. nv' = [nv EXCEPT !.tbl = lib.tbl] /\ save = "stack" /\ save' = "app"
      /\ UNCHANGED <<app, lib, batt, key, unsaved>>
  BY DEF zrc_saveStackInfo
<1>3. nv' \in [info : {Paired, Unpaired}, tbl : BOOLEAN] /\ nv'.tbl = lib.tbl
  BY <1>1, <1>2
<1>4. Types'
  BY <1>2, <1>3 DEF IInv, Types
<1>5. Exclusive' /\ Known' /\ Saved'
  BY <1>1, <1>2, <1>3 DEF IInv, Exclusive, Known, Saved
<1>6. Flash'
  BY <1>1, <1>2 DEF Flash
<1> QED BY <1>4, <1>5, <1>6 DEF IInv

(* and the application its info. *)
LEMMA SaveApp ==
  ASSUME IInv, save_appInfo
  PROVE  IInv'
<1>1. /\ lib.pairing = "none" /\ app.info \in {Paired, Unpaired}
      /\ nv \in [info : {Paired, Unpaired}, tbl : BOOLEAN]
      /\ app.info.paired <=> lib.tbl
      /\ nv.tbl <=> lib.tbl
  BY DEF IInv, Types, Saved, Known, save_appInfo
<1>2. /\ nv' = [nv EXCEPT !.info = app.info] /\ save' = "none" /\ unsaved' = FALSE
      /\ UNCHANGED <<app, lib, batt, key>>
  BY DEF save_appInfo
<1>3. /\ nv' \in [info : {Paired, Unpaired}, tbl : BOOLEAN]
      /\ nv'.tbl = nv.tbl /\ nv'.info = app.info
  BY <1>1, <1>2
<1>4. Types'
  BY <1>2, <1>3 DEF IInv, Types
<1>5. Exclusive' /\ Known' /\ Saved'
  BY <1>1, <1>2 DEF IInv, Exclusive, Known, Saved
<1>6. Flash'
  BY <1>1, <1>2, <1>3 DEF Flash
<1> QED BY <1>4, <1>5, <1>6 DEF IInv

(* The counters start at zero. *)
LEMMA ZeroInRange == 0 \in 0..Retries /\ 0 \in 0..MaxAsked
BY RcAppAssumption

(* After a restart RAM is read from flash. *)
LEMMA Restarted ==
  ASSUME IInv, Restart, batt' \in Levels, key' = key
  PROVE  IInv'
<1>1. /\ nv' = nv /\ nv \in [info : {Paired, Unpaired}, tbl : BOOLEAN]
      /\ nv.info \in Info /\ 0 \in 0..Retries /\ 0 \in 0..MaxAsked
  <2>1. nv' = nv /\ nv \in [info : {Paired, Unpaired}, tbl : BOOLEAN]
    BY DEF IInv, Types, Restart
  <2>2. nv.info \in Info
    BY <2>1, BothAreInfo
  <2> QED BY <2>1, <2>2, ZeroInRange
<1>2. app' \in AppRecord /\ ~app'.inPair /\ app'.info = nv.info
  BY <1>1 DEF Restart, Booted, AppRecord, Info, States
<1>3. /\ lib' \in LibRecord /\ lib'.pairing = "none" /\ lib'.tbl = nv.tbl
      /\ save' = "none"
  BY <1>1 DEF Restart, IdleLib, LibRecord
<1>4. /\ unsaved' \in BOOLEAN
      /\ unsaved' <=> (unsaved \/ save = "app") /\ nv.info.paired # nv.tbl
  BY DEF Restart
<1>5. Types'
  BY <1>1, <1>2, <1>3, <1>4 DEF IInv, Types
<1>6. Exclusive' /\ Known' /\ Saved'
  BY <1>1, <1>2, <1>3 DEF Exclusive, Known, Saved
<1>7. Flash'
  BY <1>1, <1>2, <1>3, <1>4 DEF IInv, Flash
<1> QED BY <1>5, <1>6, <1>7 DEF IInv

(* Deep sleep, a power failure, the update's reboot, and a new battery level. *)
LEMMA PowerStep ==
  ASSUME IInv, Power \/ ota_mcuReboot
  PROVE  IInv'
<1>1. batt \in Levels
  BY DEF IInv, Types
<1>2. CASE DeepSleep \/ ota_mcuReboot
  BY <1>1, <1>2, Restarted DEF DeepSleep, ota_mcuReboot
<1>3. CASE PowerLoss
  BY <1>3, Restarted DEF PowerLoss
<1>4. CASE voltage_detect
  <2>1. /\ batt' \in Levels \cap 0..FlashLevel
        /\ UNCHANGED <<app, lib, nv, save, key, unsaved>>
    BY <1>4 DEF voltage_detect
  <2>2. batt' <= FlashLevel
    BY <2>1 DEF FlashLevel
  <2>3. Types' /\ Known' /\ Saved' /\ Flash'
    BY <2>1 DEF IInv, Types, Known, Saved, Flash
  <2>4. Exclusive'
    BY <2>1, <2>2 DEF IInv, Exclusive
  <2> QED BY <2>3, <2>4 DEF IInv
<1> QED BY <1>2, <1>3, <1>4 DEF Power

-----------------------------------------------------------------------------
(* The remote starts with what flash has. *)
LEMMA InitIInv ==
  ASSUME Init
  PROVE  IInv
<1>1. /\ nv \in [info : {Paired, Unpaired}, tbl : BOOLEAN]
      /\ nv.info.paired <=> nv.tbl
      /\ nv.info \in Info /\ 0 \in 0..Retries /\ 0 \in 0..MaxAsked
  <2>1. nv \in {[info |-> Unpaired, tbl |-> FALSE], [info |-> Paired, tbl |-> TRUE]}
    BY DEF Init
  <2>2. CASE nv = [info |-> Unpaired, tbl |-> FALSE]
    BY <2>2, BothAreInfo, ZeroInRange
  <2>3. CASE nv = [info |-> Paired, tbl |-> TRUE]
    BY <2>3, BothAreInfo, ZeroInRange
  <2> QED BY <2>1, <2>2, <2>3
<1>2. app \in AppRecord /\ ~app.inPair /\ app.info = nv.info
  BY <1>1 DEF Init, Booted, AppRecord, Info, States
<1>3. lib \in LibRecord /\ lib.pairing = "none" /\ lib.tbl = nv.tbl
  BY <1>1 DEF Init, IdleLib, LibRecord
<1>4. save = "none" /\ batt \in Levels /\ key = "none" /\ unsaved = FALSE
  BY DEF Init
<1>5. Types
  BY <1>1, <1>2, <1>3, <1>4 DEF Types
<1>6. Exclusive /\ Known /\ Saved /\ Flash
  BY <1>1, <1>2, <1>3, <1>4 DEF Exclusive, Known, Saved, Flash
<1> QED BY <1>5, <1>6 DEF IInv

(* Every step preserves the invariant. *)
LEMMA NextIInv ==
  ASSUME IInv, [Next]_vars
  PROVE  IInv'
<1>1. CASE KeyEvents
  BY <1>1, KeyPressed, KeyReleased DEF KeyEvents
<1>2. CASE app_lightOnProgLed
  BY <1>2, PairingAsked
<1>3. CASE Stack
  BY <1>3, PairConfirmed, BondConfirmed, UnpairConfirmed, UnpairAsked, AudioTimers DEF Stack
<1>4. CASE Timers
  BY <1>4, PairingAsked, UnpairAsked, AudioTimers, RepeatTimer DEF Timers
<1>5. CASE AudioErrors
  BY <1>5, AudioTimers
<1>6. CASE Saves
  BY <1>6, SaveStack, SaveApp DEF Saves
<1>7. CASE Updates
  BY <1>7, OtaState, PowerStep DEF Updates
<1>8. CASE Power
  BY <1>8, PowerStep
<1>9. CASE UNCHANGED vars
  BY <1>9 DEF vars, IInv, Types, Exclusive, Known, Saved, Flash
<1> QED BY <1>1, <1>2, <1>3, <1>4, <1>5, <1>6, <1>7, <1>8, <1>9 DEF Next

(* The inductive invariant holds for every value of the constants. *)
LEMMA Invariant == Spec => []IInv
<1>1. Init => IInv
  BY InitIInv
<1>2. IInv /\ [Next]_vars => IInv'
  BY NextIInv
<1> QED BY <1>1, <1>2, PTL DEF Spec

(* The variables have their types (rcu_appVars, g_uapiVar, the saved info  *)
(* and pairing table), for any number of restarts.                         *)
THEOREM TypeTheorem == Spec => []TypeOK
<1>1. IInv => TypeOK
  BY DEF IInv, Types, AppRecord, LibRecord, Info, TypeOK
<1> QED BY <1>1, Invariant, PTL

(* The application believes in a pairing only if the stack has its entry   *)
(* (app_zrc.c: zrc_bondCnfCb, zrc_unPairCnfCb and the two saves).          *)
THEOREM PairingKnownTheorem == Spec => []PairingKnown
<1>1. IInv => PairingKnown
  BY DEF IInv, Saved, Flash, PairingKnown
<1> QED BY <1>1, Invariant, PTL

(* Deep sleep neither forgets a pairing nor brings one back.               *)
THEOREM SleepKeepsPairingTheorem == Spec => SleepKeepsPairing
<1>1. IInv /\ DeepSleep /\ ~unsaved => app'.info = app.info /\ lib'.tbl = lib.tbl
  <2>1. SUFFICES ASSUME IInv, DeepSleep, ~unsaved
                 PROVE  app'.info = app.info /\ lib'.tbl = lib.tbl
    OBVIOUS
  <2>2. app.info = nv.info /\ (lib.tbl <=> nv.tbl)
    BY <2>1 DEF IInv, Flash, DeepSleep, stack_allow_suspend
  <2>3. lib.tbl \in BOOLEAN /\ nv.tbl \in BOOLEAN
    BY <2>1 DEF IInv, Types, LibRecord
  <2>4. app'.info = nv.info /\ lib'.tbl = nv.tbl
    BY <2>1 DEF DeepSleep, Restart, Booted, IdleLib
  <2> QED BY <2>2, <2>3, <2>4
<1>2. IInv => [DeepSleep /\ ~unsaved =>
                 app'.info = app.info /\ lib'.tbl = lib.tbl]_vars
  BY <1>1
<1> QED BY <1>2, Invariant, PTL DEF SleepKeepsPairing
-----------------------------------------------------------------------------
(* What the state variable tells.  Told is StateTellsSession with the      *)
(* facts it needs to be kept: no request waits while the microphone is     *)
(* open, the second attempt to pair waits while the stack does not pair,   *)
(* and only a paired remote is updated.  Own is why it still holds when    *)
(* flash has caught up.                                                    *)

Bonding == PairingStates \ {"pre_pairing"}

Tells(a, l, k, behind) ==
  /\ (a.state = "ota") <=> l.ota
  /\ l.ota => a.rx /\ a.info.paired
  /\ (a.state = "audio") <=> a.mic
  /\ a.state = "audio" => "req" \notin a.timers
  /\ (a.state \in Bonding) <=> (l.pairing # "none" \/ "pair" \in a.timers)
  /\ "pair" \in a.timers => l.pairing = "none"
  /\ a.state = "ir" => ~a.info.paired /\ (Repeating(a) \/ k # "none")
  /\ a.state \in Normal /\ ~behind => (a.state = "ready" <=> a.info.paired)

Told == ~crossed => Tells(app, lib, key, unsaved)

Own == save # "none" => app.state = app.info.state

SInv == IInv /\ Told /\ Own

(* What it tells depends on these fields alone. *)
Same(a, b) ==
  /\ b \in AppRecord
  /\ b.state = a.state /\ b.info = a.info /\ b.mic = a.mic /\ b.rx = a.rx
  /\ "pair" \in b.timers <=> "pair" \in a.timers
  /\ a.state = "audio" => ("req" \in b.timers => "req" \in a.timers)

(* A handler that changes none of them, while a key is pressed or the      *)
(* repetition goes on.                                                     *)
LEMMA TellsSame ==
  ASSUME NEW a, NEW b, Same(a, b), NEW l, NEW m, m.ota = l.ota, m.pairing = l.pairing,
         NEW k, NEW n, NEW u, Tells(a, l, k, u),
         n # "none" \/ a.state # "ir" \/ (n = k /\ (Repeating(a) => Repeating(b)))
  PROVE  Tells(b, m, n, u)
BY DEF Tells, Same

(* Which key was the last is none of them. *)
LEMMA LeftSame ==
  ASSUME app \in AppRecord, NEW b \in AppRecord, NEW l, NEW foreign, Left(b, l, foreign),
         ~crossed /\ ~foreign => Tells(b, l, key', unsaved')
  PROVE  Told'
<1>1. lib' = l /\ (~crossed' => ~crossed /\ ~foreign)
  BY DEF Left
<1>2. Same(b, app') /\ (Repeating(b) => Repeating(app'))
  BY DEF Left, Same, AppRecord, Repeating
<1>3. ASSUME ~crossed'
      PROVE  Tells(app', lib', key', unsaved')
  BY <1>1, <1>2, <1>3, TellsSame
<1> QED BY <1>3 DEF Told

(* A step during which nothing is saved and that is no key.                *)
LEMMA ToldStep ==
  ASSUME SInv, NEW b \in AppRecord, NEW l, NEW foreign, Step(b, l, foreign),
         ~crossed /\ ~foreign /\ Tells(app, lib, key, unsaved) => Tells(b, l, key, unsaved)
  PROVE  Told' /\ Own'
<1>1. Left(b, l, foreign) /\ key' = key /\ unsaved' = unsaved /\ save' = "none"
  BY DEF Step, Handled
<1>2. app \in AppRecord /\ (~crossed => Tells(app, lib, key, unsaved))
  BY DEF SInv, IInv, Types, Told
<1>3. ~crossed /\ ~foreign => Tells(b, l, key', unsaved')
  BY <1>1, <1>2
<1>4. Told'
  BY <1>1, <1>2, <1>3, LeftSame
<1> QED BY <1>1, <1>4 DEF Own

(* A key.                                                                  *)
LEMMA ToldKey ==
  ASSUME SInv, save = "none", NEW b \in AppRecord, NEW l, Handled(b, l, FALSE),
         ~crossed /\ Tells(app, lib, key, unsaved) => Tells(b, l, key', unsaved)
  PROVE  Told' /\ Own'
<1>1. Left(b, l, FALSE) /\ unsaved' = unsaved /\ save' = "none"
  BY DEF Handled
<1>2. app \in AppRecord /\ (~crossed => Tells(app, lib, key, unsaved))
  BY DEF SInv, IInv, Types, Told
<1>3. ~crossed /\ ~FALSE => Tells(b, l, key', unsaved')
  BY <1>1, <1>2
<1>4. Told'
  BY <1>1, <1>2, <1>3, LeftSame
<1> QED BY <1>1, <1>4 DEF Own

(* Each of the two infos has its state. *)
LEMMA InfoState ==
  ASSUME NEW i \in {Paired, Unpaired}
  PROVE  i.state \in Normal /\ (i.state = "ready" <=> i.paired)
BY DEF Paired, Unpaired, Normal

(* The states are different. *)
LEMMA StatesDiffer ==
  /\ Normal = {"unconnect", "ready"} /\ Bonding = {"pairing", "verify", "validation"}
  /\ AudioStates = {"unconnect", "ready", "audio"}
  /\ RepeatStates = {"unconnect", "ready", "ir"}
BY DEF Normal, Bonding, PairingStates, AudioStates, RepeatStates

(* A session that is the remote's own ends: back to the state of the info. *)
LEMMA Returns ==
  ASSUME IInv, Tells(app, lib, key, unsaved),
         app.state \in Normal \cup {"audio", "ir", "pre_pairing"},
         NEW b, b.state = app.info.state, b.info = app.info, ~b.mic,
         "pair" \in b.timers => "pair" \in app.timers,
         NEW l, l.ota = lib.ota, l.pairing = lib.pairing, NEW k
  PROVE  Tells(b, l, k, unsaved)
<1>1. app.state # "ota" /\ app.state \notin Bonding
  BY StatesDiffer
<1>2. ~lib.ota /\ lib.pairing = "none" /\ "pair" \notin app.timers
  BY <1>1 DEF Tells
<1>3. app.info \in {Paired, Unpaired}
  BY <1>2 DEF IInv, Known
<1>4. app.info.state \in Normal /\ (app.info.state = "ready" <=> app.info.paired)
  BY <1>3, InfoState
<1>5. b.state \notin {"ota", "audio", "ir"} \cup Bonding
  BY <1>4, StatesDiffer
<1> QED BY <1>2, <1>4, <1>5 DEF Tells

(* How each such end leaves the fields.                                    *)
LEMMA EndFields ==
  ASSUME NEW a \in AppRecord
  PROVE  /\ Restored(a) \in AppRecord /\ Restored(a).state = a.info.state
         /\ Restored(a).info = a.info /\ Restored(a).mic = a.mic /\ Restored(a).rx = a.rx
         /\ Restored(a).timers = a.timers
         /\ tl_audio_stop(a) \in AppRecord /\ tl_audio_stop(a).state = a.info.state
         /\ tl_audio_stop(a).info = a.info /\ tl_audio_stop(a).mic = FALSE
         /\ tl_audio_stop(a).timers = a.timers \ {"last"}
         /\ RepeatStopped(a) \in AppRecord /\ RepeatStopped(a).state = a.state
         /\ RepeatStopped(a).info = a.info /\ RepeatStopped(a).mic = a.mic
         /\ RepeatStopped(a).rx = a.rx /\ RepeatStopped(a).timers = a.timers \ {"repeat"}
<1>1. Restored(a) \in AppRecord /\ tl_audio_stop(a) \in AppRecord /\ RepeatStopped(a) \in AppRecord
  BY RestoredKeeps, AudioStopKeeps, RepeatStoppedKeeps DEF Keeps
<1>2. /\ Restored(a).state = a.info.state
      /\ Restored(a).info = a.info /\ Restored(a).mic = a.mic /\ Restored(a).rx = a.rx
      /\ Restored(a).timers = a.timers
  BY DEF Restored, AppRecord
<1>3. /\ RepeatStopped(a).state = a.state
      /\ RepeatStopped(a).info = a.info /\ RepeatStopped(a).mic = a.mic
      /\ RepeatStopped(a).rx = a.rx /\ RepeatStopped(a).timers = a.timers \ {"repeat"}
  BY DEF RepeatStopped, AppRecord
<1>4. /\ tl_audio_stop(a).state = a.info.state
      /\ tl_audio_stop(a).info = a.info /\ tl_audio_stop(a).mic = FALSE
      /\ tl_audio_stop(a).timers = a.timers \ {"last"}
  BY DEF tl_audio_stop, AudioIdle, Restored, AppRecord
<1> QED BY <1>1, <1>2, <1>3, <1>4

(* A repetition that ends.                                                 *)
LEMMA RepeatOverFields ==
  ASSUME NEW a \in AppRecord
  PROVE  LET b == [RepeatStopped(Restored(a)) EXCEPT !.deep = TRUE]
         IN  /\ b \in AppRecord /\ b.state = a.info.state /\ b.info = a.info
             /\ b.mic = a.mic /\ b.rx = a.rx /\ b.timers = a.timers \ {"repeat"}
<1> DEFINE d == Restored(a)
           c == RepeatStopped(d)
<1>0. /\ d \in AppRecord /\ d.state = a.info.state /\ d.info = a.info
      /\ d.mic = a.mic /\ d.rx = a.rx /\ d.timers = a.timers
  BY EndFields
<1> HIDE DEF d
<1>1. /\ c \in AppRecord /\ c.state = a.info.state /\ c.info = a.info
      /\ c.mic = a.mic /\ c.rx = a.rx /\ c.timers = a.timers \ {"repeat"}
  BY <1>0, EndFields
<1> HIDE DEF c
<1>2. LET b == [c EXCEPT !.deep = TRUE]
      IN  /\ b \in AppRecord /\ b.state = a.info.state /\ b.info = a.info
          /\ b.mic = a.mic /\ b.rx = a.rx /\ b.timers = a.timers \ {"repeat"}
  BY <1>1 DEF AppRecord
<1> QED BY <1>2 DEF c, d

-----------------------------------------------------------------------------
(* A key, while the repetition of another one has been stopped.            *)
LEMMA KeyTold ==
  ASSUME SInv, save = "none", NEW k \in Keys, key' = k, NEW a, Same(app, a),
         app.state \in RepeatStates,
         \/ HomeKey(k, a) \/ RecordKey(k, a) \/ TvKey(k, a) \/ SendKey(k, a)
         \/ UnpairKeys(k, a) \/ InfraredKey(k, a) \/ KeyIgnored(k, a)
  PROVE  Told' /\ Own'
<1>1. a \in AppRecord /\ lib \in LibRecord /\ IInv /\ k # "none"
  BY DEF SInv, IInv, Types, Same, Keys
<1>2. ASSUME NEW b, NEW l, Handled(b, l, FALSE), Same(a, b), l.ota = lib.ota,
             l.pairing = lib.pairing
      PROVE  Told' /\ Own'
  <2>1. b \in AppRecord /\ Same(app, b)
    BY <1>2 DEF Same
  <2>2. Tells(app, lib, key, unsaved) => Tells(b, l, key', unsaved)
    BY <1>1, <1>2, <2>1, TellsSame
  <2> QED BY <1>2, <2>1, <2>2, ToldKey
<1>3. ASSUME NEW b \in AppRecord, NEW l, Handled(b, l, FALSE), b.state = a.info.state,
             b.info = a.info, b.mic = FALSE \/ b.mic = a.mic,
             "pair" \in b.timers => "pair" \in a.timers, l.ota = lib.ota,
             l.pairing = lib.pairing
      PROVE  Told' /\ Own'
  <2>1. ASSUME Tells(app, lib, key, unsaved)
        PROVE  Tells(b, l, key', unsaved)
    <3>1. app.state \in Normal \cup {"audio", "ir", "pre_pairing"} /\ app.state # "audio"
      BY StatesDiffer
    <3>2. b.state = app.info.state /\ b.info = app.info
          /\ ("pair" \in b.timers => "pair" \in app.timers)
      BY <1>3 DEF Same
    <3>3. ~app.mic /\ a.mic = app.mic
      BY <2>1, <3>1 DEF Tells, Same
    <3>4. ~b.mic
      BY <1>3, <3>3
    <3> QED BY <1>1, <1>3, <2>1, <3>1, <3>2, <3>4, Returns
  <2> QED BY <1>3, <2>1, ToldKey
<1>4. CASE HomeKey(k, a)
  <2>1. PICK x \in BOOLEAN :
          Handled([Restored(RepeatStopped(a)) EXCEPT !.state = "pre_pairing",
                     !.deep = FALSE, !.rx = x], lib, FALSE)
    <3>1. a.rx \in BOOLEAN /\ Restored(RepeatStopped(a)).rx = a.rx
      BY <1>1 DEF AppRecord, Restored, RepeatStopped
    <3> QED BY <1>4, <3>1 DEF HomeKey
  <2> DEFINE d == RepeatStopped(a)
             c == Restored(d)
             b == [c EXCEPT !.state = "pre_pairing", !.deep = FALSE, !.rx = x]
  <2>2. d \in AppRecord /\ d.info = a.info /\ d.mic = a.mic /\ d.timers = a.timers \ {"repeat"}
    BY <1>1, EndFields
  <2> HIDE DEF d
  <2>3. c \in AppRecord /\ c.info = a.info /\ c.mic = a.mic /\ c.timers = a.timers \ {"repeat"}
    BY <2>2, EndFields
  <2> HIDE DEF c
  <2>4. /\ b \in AppRecord /\ b.state = "pre_pairing" /\ b.info = a.info /\ b.mic = a.mic
        /\ b.timers = a.timers \ {"repeat"}
    BY <2>3 DEF AppRecord, States, PairingStates
  <2> HIDE DEF b
  <2>5. Tells(app, lib, key, unsaved) => Tells(b, lib, key', unsaved)
    <3>1. app.state \notin {"ota", "audio"} \cup Bonding
      BY StatesDiffer
    <3>2. b.state \notin {"ota", "audio", "ir"} \cup Normal \cup Bonding
      BY <2>4, StatesDiffer
    <3>3. b.mic = app.mic /\ ("pair" \in b.timers <=> "pair" \in app.timers)
      BY <2>4 DEF Same
    <3> QED BY <3>1, <3>2, <3>3 DEF Tells
  <2>6. Handled(b, lib, FALSE)
    BY <2>1 DEF b, c, d
  <2> QED BY <2>4, <2>5, <2>6, ToldKey
<1>5. CASE RecordKey(k, a)
  <2>1. CASE Handled(tl_audio_stop(a), lib, FALSE)
    <3> DEFINE b == tl_audio_stop(a)
    <3>1. /\ b \in AppRecord /\ b.state = a.info.state /\ b.info = a.info /\ b.mic = FALSE
          /\ b.timers = a.timers \ {"last"}
      BY <1>1, EndFields
    <3> HIDE DEF b
    <3> QED BY <1>3, <2>1, <3>1 DEF b
  <2>2. CASE Handled(a, lib, FALSE)
    BY <1>1, <1>2, <2>2 DEF Same
  <2>3. CASE Handled(StartAudio(a), Asked, FALSE) /\ ReadyForKey(a)
    <3> DEFINE b == StartAudio(a)
    <3>1. /\ b \in AppRecord /\ b.state = a.state /\ b.info = a.info /\ b.mic = a.mic
          /\ b.rx = TRUE /\ ("pair" \in b.timers <=> "pair" \in a.timers)
      <4>1. b \in AppRecord
        BY <1>1, StartAudioKeeps DEF Keeps
      <4> QED BY <1>1, <4>1 DEF AppRecord, StartAudio
    <3>2. Asked.ota = lib.ota /\ Asked.pairing = lib.pairing
      BY <1>1 DEF Asked, LibRecord
    <3> HIDE DEF b
    <3>3. Tells(app, lib, key, unsaved) => Tells(b, Asked, key', unsaved)
      <4>1. app.state = b.state /\ app.info = b.info /\ app.mic = b.mic
            /\ ("pair" \in b.timers <=> "pair" \in app.timers)
        BY <3>1 DEF Same
      <4>2. app.state = "ready"
        BY <2>3 DEF ReadyForKey, Same
      <4> QED BY <1>1, <3>1, <3>2, <4>1, <4>2 DEF Tells
    <3> QED BY <2>3, <3>1, <3>3, ToldKey DEF b
  <2> QED BY <1>5, <2>1, <2>2, <2>3 DEF RecordKey
<1>6. CASE TvKey(k, a)
  <2>1. CASE Handled([a EXCEPT !.state = "ota", !.rx = TRUE], [lib EXCEPT !.ota = TRUE], FALSE)
             /\ ReadyForKey(a)
    <3> DEFINE b == [a EXCEPT !.state = "ota", !.rx = TRUE]
               l == [lib EXCEPT !.ota = TRUE]
    <3>1. /\ b \in AppRecord /\ b.state = "ota" /\ b.info = a.info /\ b.mic = a.mic
          /\ b.rx = TRUE /\ b.timers = a.timers
      BY <1>1 DEF AppRecord, States
    <3>2. l.ota = TRUE /\ l.pairing = lib.pairing
      BY <1>1 DEF LibRecord
    <3> HIDE DEF b, l
    <3>3. Tells(app, lib, key, unsaved) => Tells(b, l, key', unsaved)
      <4>1. app.state = "ready" /\ b.info.paired
        BY <2>1, <3>1 DEF ReadyForKey, Same
      <4>2. app.state \notin {"ota", "audio"} \cup Bonding
        BY <4>1, StatesDiffer
      <4>3. b.state \notin {"audio", "ir"} \cup Normal \cup Bonding
        BY <3>1, StatesDiffer
      <4>4. b.mic = app.mic /\ ("pair" \in b.timers <=> "pair" \in app.timers)
        BY <3>1 DEF Same
      <4> QED BY <3>1, <3>2, <4>1, <4>2, <4>3, <4>4 DEF Tells
    <3> QED BY <2>1, <3>1, <3>3, ToldKey DEF b, l
  <2>2. CASE Handled([Restored(a) EXCEPT !.deep = TRUE], lib, FALSE)
    <3> DEFINE c == Restored(a)
               b == [c EXCEPT !.deep = TRUE]
    <3>1. /\ c \in AppRecord /\ c.state = a.info.state /\ c.info = a.info /\ c.mic = a.mic
          /\ c.timers = a.timers
      BY <1>1, EndFields
    <3> HIDE DEF c
    <3>2. /\ b \in AppRecord /\ b.state = a.info.state /\ b.info = a.info /\ b.mic = a.mic
          /\ b.timers = a.timers
      BY <3>1 DEF AppRecord
    <3> HIDE DEF b
    <3> QED BY <1>3, <2>2, <3>2 DEF b, c
  <2> QED BY <1>6, <2>1, <2>2 DEF TvKey
<1>7. CASE SendKey(k, a)
  <2> DEFINE b == [a EXCEPT !.deep = FALSE, !.timers = @ \cup {"repeat"}]
  <2>1. Same(a, b) /\ Same(a, a)
    BY <1>1 DEF Same, AppRecord
  <2> HIDE DEF b
  <2>2. Handled(a, lib, FALSE) \/ Handled(b, lib, FALSE)
    BY <1>7 DEF SendKey, b
  <2> QED BY <1>2, <2>1, <2>2
<1>8. CASE UnpairKeys(k, a)
  <2> DEFINE b == [a EXCEPT !.timers = @ \cup {"unpair"}]
  <2>1. Same(a, b)
    BY <1>1 DEF Same, AppRecord
  <2> HIDE DEF b
  <2>2. Handled(b, lib, FALSE)
    BY <1>8 DEF UnpairKeys, b
  <2> QED BY <1>2, <2>1, <2>2
<1>9. CASE InfraredKey(k, a)
  <2>1. CASE Handled(a, lib, FALSE)
    BY <1>1, <1>2, <2>1 DEF Same
  <2>2. CASE Handled([a EXCEPT !.rx = FALSE, !.state = "ir", !.timers = @ \cup {"repeat"}],
                     lib, FALSE)
    <3> DEFINE b == [a EXCEPT !.rx = FALSE, !.state = "ir", !.timers = @ \cup {"repeat"}]
    <3>1. /\ b \in AppRecord /\ b.state = "ir" /\ b.info = a.info /\ b.mic = a.mic
          /\ b.timers = a.timers \cup {"repeat"}
      BY <1>1 DEF AppRecord, States
    <3> HIDE DEF b
    <3>2. Tells(app, lib, key, unsaved) => Tells(b, lib, key', unsaved)
      <4>1. app.state \notin {"ota", "audio"} \cup Bonding
        BY StatesDiffer
      <4>2. b.state \notin {"audio", "ota"} \cup Normal \cup Bonding
        BY <3>1, StatesDiffer
      <4>3. b.mic = app.mic /\ ("pair" \in b.timers <=> "pair" \in app.timers)
        BY <3>1 DEF Same
      <4>4. ~b.info.paired
        BY <1>9, <3>1 DEF InfraredKey
      <4> QED BY <1>1, <4>1, <4>2, <4>3, <4>4 DEF Tells
    <3> QED BY <2>2, <3>1, <3>2, ToldKey DEF b
  <2> QED BY <1>9, <2>1, <2>2 DEF InfraredKey
<1>10. CASE KeyIgnored(k, a)
  BY <1>1, <1>2, <1>10 DEF KeyIgnored, Same
<1> QED BY <1>4, <1>5, <1>6, <1>7, <1>8, <1>9, <1>10

(* Whatever the state in which it is pressed. *)
LEMMA KeyPressedTold ==
  ASSUME SInv, NEW k \in Keys, keyScan_keyPressedCB(k)
  PROVE  Told' /\ Own'
<1>1. app \in AppRecord /\ IInv /\ save = "none" /\ key' = k /\ k # "none"
  BY DEF SInv, IInv, Types, keyScan_keyPressedCB, Keys
<1>2. ASSUME NEW b, Handled(b, lib, FALSE), Same(app, b)
      PROVE  Told' /\ Own'
  <2>1. b \in AppRecord
    BY <1>2 DEF Same
  <2>2. Tells(app, lib, key, unsaved) => Tells(b, lib, key', unsaved)
    BY <1>1, <1>2, TellsSame
  <2> QED BY <1>1, <1>2, <2>1, <2>2, ToldKey
<1>3. CASE Handled([app EXCEPT !.deep = TRUE], lib, FALSE)
  <2> DEFINE b == [app EXCEPT !.deep = TRUE]
  <2>1. Same(app, b)
    BY <1>1 DEF Same, AppRecord
  <2> HIDE DEF b
  <2> QED BY <1>2, <1>3, <2>1 DEF b
<1>4. CASE app.state \notin RepeatStates /\ KeyInSession(k)
  <2> DEFINE a == [app EXCEPT !.last = IF k = "menu_back" THEN "none" ELSE k]
             b == tl_audio_stop(a)
  <2>1. Same(app, a) /\ Same(app, app)
    BY <1>1 DEF Same, AppRecord
  <2>4. a \in AppRecord /\ a.info = app.info
    BY <2>1 DEF Same
  <2> HIDE DEF a
  <2>2. CASE Handled(a, lib, FALSE) \/ Handled(app, lib, FALSE)
    BY <1>2, <2>1, <2>2
  <2>3. CASE Handled(b, lib, FALSE) /\ app.state = "audio"
    <3>1. b \in AppRecord /\ b.state = app.info.state /\ b.info = app.info /\ b.mic = FALSE
          /\ b.timers = a.timers \ {"last"}
      BY <2>4, EndFields
    <3>2. "pair" \in b.timers => "pair" \in app.timers
      BY <2>1, <3>1 DEF Same
    <3> HIDE DEF b
    <3>3. Tells(app, lib, key, unsaved) => Tells(b, lib, key', unsaved)
      BY <1>1, <2>3, <3>1, <3>2, Returns
    <3> QED BY <1>1, <2>3, <3>1, <3>3, ToldKey
  <2> QED BY <1>4, <2>2, <2>3 DEF KeyInSession, a, b
<1>5. ASSUME app.state \in RepeatStates,
             NEW code \in Keys \cup {"none"}, NEW a0 \in {app, RepeatStopped(app)},
             NEW a, a = [a0 EXCEPT !.last = code],
             \/ HomeKey(k, a) \/ RecordKey(k, a) \/ TvKey(k, a) \/ SendKey(k, a)
             \/ UnpairKeys(k, a) \/ InfraredKey(k, a) \/ KeyIgnored(k, a)
      PROVE  Told' /\ Own'
  <2>1. Same(app, a0) /\ a0 \in AppRecord
    BY <1>1, EndFields DEF Same
  <2>2. Same(app, a)
    BY <1>5, <2>1 DEF Same, AppRecord
  <2> QED BY <1>1, <1>5, <2>2, KeyTold
<1> QED BY <1>3, <1>4, <1>5 DEF keyScan_keyPressedCB

(* The release.                                                            *)
LEMMA KeyReleasedTold ==
  ASSUME SInv, keyScan_keyReleasedCB
  PROVE  Told' /\ Own'
<1>1. app \in AppRecord /\ IInv /\ save = "none"
  BY DEF SInv, IInv, Types, keyScan_keyReleasedCB
<1>2. ASSUME NEW b \in AppRecord, Handled(b, lib, FALSE), b.state = app.info.state,
             b.info = app.info, b.mic = app.mic, "pair" \in b.timers => "pair" \in app.timers,
             app.state \in RepeatStates \cup {"pre_pairing"}
      PROVE  Told' /\ Own'
  <2>1. ASSUME Tells(app, lib, key, unsaved)
        PROVE  Tells(b, lib, key', unsaved)
    <3>1. app.state \in Normal \cup {"audio", "ir", "pre_pairing"} /\ app.state # "audio"
      BY <1>2, StatesDiffer
    <3>2. ~b.mic
      BY <1>2, <2>1, <3>1 DEF Tells
    <3> QED BY <1>1, <1>2, <2>1, <3>1, <3>2, Returns
  <2> QED BY <1>1, <1>2, <2>1, ToldKey
<1>3. CASE app.state \in RepeatStates
  <2> DEFINE b == [RepeatStopped(Restored(app)) EXCEPT !.deep = TRUE]
  <2>1. /\ b \in AppRecord /\ b.state = app.info.state /\ b.info = app.info
        /\ b.mic = app.mic /\ b.timers = app.timers \ {"repeat"}
    BY <1>1, RepeatOverFields
  <2>2. Handled(b, lib, FALSE)
    BY <1>3 DEF keyScan_keyReleasedCB
  <2> HIDE DEF b
  <2> QED BY <1>2, <1>3, <2>1, <2>2
<1>4. CASE app.state \notin RepeatStates /\ app.state = "pre_pairing"
  <2> DEFINE c == Restored(app)
             b == [c EXCEPT !.deep = TRUE]
  <2>1. /\ c \in AppRecord /\ c.state = app.info.state /\ c.info = app.info
        /\ c.mic = app.mic /\ c.timers = app.timers
    BY <1>1, EndFields
  <2>2. Handled(b, lib, FALSE)
    BY <1>4 DEF keyScan_keyReleasedCB
  <2> HIDE DEF c
  <2>3. /\ b \in AppRecord /\ b.state = app.info.state /\ b.info = app.info
        /\ b.mic = app.mic /\ b.timers = app.timers
    BY <2>1 DEF AppRecord
  <2> HIDE DEF b
  <2> QED BY <1>2, <1>4, <2>2, <2>3
<1>5. CASE app.state \notin RepeatStates /\ app.state # "pre_pairing"
  <2>1. Handled(app, lib, FALSE)
    BY <1>5 DEF keyScan_keyReleasedCB
  <2>2. Same(app, app) /\ app.state # "ir"
    BY <1>1, <1>5, StatesDiffer DEF Same
  <2>3. Tells(app, lib, key, unsaved) => Tells(app, lib, key', unsaved)
    BY <2>2, TellsSame
  <2> QED BY <1>1, <2>1, <2>3, ToldKey
<1> QED BY <1>3, <1>4, <1>5

(* Audio: each callback that finds its own state.                          *)
LEMMA AudioTold ==
  ASSUME SInv,
         audioStartReqTimeout \/ audioStartRsp \/ audioLastTimeoutCb \/ AudioErrors
  PROVE  Told' /\ Own'
<1>1. app \in AppRecord /\ lib \in LibRecord /\ IInv
  BY DEF SInv, IInv, Types
<1>2. ASSUME NEW b \in AppRecord, Step(b, lib, app.state \notin AudioStates),
             b.state = app.info.state, b.info = app.info, b.mic = FALSE \/ b.mic = app.mic,
             "pair" \in b.timers => "pair" \in app.timers,
             b.mic = FALSE \/ "req" \in app.timers
      PROVE  Told' /\ Own'
  <2>1. ASSUME Tells(app, lib, key, unsaved), app.state \in AudioStates
        PROVE  Tells(b, lib, key, unsaved)
    <3>1. app.state \in Normal \cup {"audio", "ir", "pre_pairing"}
      BY <2>1, StatesDiffer
    <3>2. ~b.mic
      BY <1>2, <2>1 DEF Tells
    <3> QED BY <1>1, <1>2, <2>1, <3>1, <3>2, Returns
  <2> QED BY <1>2, <2>1, ToldStep
<1>3. CASE audioStartRsp
  <2> DEFINE c == AudioOpened(app)
             b == [c EXCEPT !.mic = TRUE, !.timers = @ \ {"req"}]
             l == [lib EXCEPT !.asked = @ - 1]
  <2>1. c \in AppRecord /\ c.state = "audio" /\ c.info = app.info /\ c.rx = app.rx
        /\ c.timers = app.timers \cup {"last"}
    <3>1. c \in AppRecord
      BY <1>1, AudioOpenedKeeps DEF Keeps
    <3> QED BY <1>1, <3>1 DEF AppRecord, AudioOpened
  <2>2. l.ota = lib.ota /\ l.pairing = lib.pairing
    BY <1>1 DEF LibRecord
  <2>3. Step(b, l, app.state \notin {"ready", "audio"})
    BY <1>3 DEF audioStartRsp
  <2> HIDE DEF c, l
  <2>4. b \in AppRecord /\ b.state = "audio" /\ b.info = app.info /\ b.mic = TRUE
        /\ b.rx = app.rx /\ ("pair" \in b.timers <=> "pair" \in app.timers)
        /\ "req" \notin b.timers
    BY <2>1 DEF AppRecord
  <2> HIDE DEF b
  <2>5. ASSUME Tells(app, lib, key, unsaved), app.state \in {"ready", "audio"}
        PROVE  Tells(b, l, key, unsaved)
    <3>1. app.state \notin {"ota"} \cup Bonding /\ b.state \notin {"ota", "ir"} \cup Normal \cup Bonding
      BY <2>4, <2>5, StatesDiffer
    <3> QED BY <2>2, <2>4, <2>5, <3>1 DEF Tells
  <2> QED BY <2>3, <2>4, <2>5, ToldStep
<1>4. CASE audioLastTimeoutCb
  <2> DEFINE b == tl_audio_stop(app)
  <2>1. b \in AppRecord /\ b.state = app.info.state /\ b.info = app.info /\ b.mic = FALSE
        /\ b.timers = app.timers \ {"last"}
    BY <1>1, EndFields
  <2>2. Step(b, lib, app.state \notin AudioStates)
    BY <1>4 DEF audioLastTimeoutCb
  <2> HIDE DEF b
  <2> QED BY <1>2, <2>1, <2>2
<1>5. CASE AudioErrors
  <2> DEFINE c == [app EXCEPT !.mic = FALSE]
             b == AudioIdle(c)
  <2>1. c \in AppRecord /\ c.info = app.info /\ c.mic = FALSE /\ c.timers = app.timers
    BY <1>1 DEF AppRecord
  <2>2. Step(b, lib, app.state \notin AudioStates)
    BY <1>5 DEF AudioErrors
  <2> HIDE DEF c
  <2>3. b \in AppRecord
    BY <2>1, AudioIdleKeeps DEF Keeps
  <2>4. b.state = app.info.state /\ b.info = app.info /\ b.mic = FALSE
        /\ b.timers = app.timers \ {"last"}
    BY <2>1 DEF AudioIdle, Restored, AppRecord
  <2> HIDE DEF b
  <2> QED BY <1>2, <2>2, <2>3, <2>4
<1>6. CASE audioStartReqTimeout /\ app.tries = 0
  <2> DEFINE c == AudioIdle(app)
             b == [c EXCEPT !.timers = @ \ {"req"}, !.rx = FALSE]
  <2>1. c \in AppRecord
    BY <1>1, AudioIdleKeeps DEF Keeps
  <2>2. c.state = app.info.state /\ c.info = app.info /\ c.mic = app.mic
        /\ c.timers = app.timers \ {"last"}
    BY <1>1 DEF AudioIdle, Restored, AppRecord
  <2>3. Step(b, lib, app.state \notin AudioStates)
    BY <1>6 DEF audioStartReqTimeout
  <2> HIDE DEF c
  <2>4. b \in AppRecord /\ b.state = app.info.state /\ b.info = app.info /\ b.mic = app.mic
        /\ ("pair" \in b.timers => "pair" \in app.timers)
    BY <2>1, <2>2 DEF AppRecord
  <2> HIDE DEF b
  <2>5. "req" \in app.timers
    BY <1>6 DEF audioStartReqTimeout
  <2> QED BY <1>2, <2>3, <2>4, <2>5
<1>7. CASE audioStartReqTimeout /\ app.tries # 0
  <2> DEFINE b == [app EXCEPT !.tries = @ - 1]
  <2>1. Step(b, Asked, FALSE)
    BY <1>7 DEF audioStartReqTimeout
  <2>2. Same(app, b) /\ Repeating(b) = Repeating(app)
    <3>1. app.tries - 1 \in 0..Retries
      BY <1>1, <1>7, RcAppAssumption DEF AppRecord
    <3> QED BY <1>1, <3>1 DEF Same, AppRecord, Repeating
  <2>3. Asked.ota = lib.ota /\ Asked.pairing = lib.pairing
    BY <1>1 DEF Asked, LibRecord
  <2> HIDE DEF b
  <2>4. b \in AppRecord
    BY <2>2 DEF Same
  <2>5. Tells(app, lib, key, unsaved) => Tells(b, Asked, key, unsaved)
    BY <2>2, <2>3, TellsSame
  <2> QED BY <2>1, <2>4, <2>5, ToldStep
<1> QED BY <1>3, <1>4, <1>5, <1>6, <1>7

(* The repetition of a key.                                                *)
LEMMA RepeatTold ==
  ASSUME SInv, RepeatTick \/ RepeatEnd
  PROVE  Told' /\ Own'
<1>1. app \in AppRecord /\ IInv
  BY DEF SInv, IInv, Types
<1>2. CASE RepeatTick
  <2> DEFINE b == [app EXCEPT !.deep = FALSE]
  <2>1. Same(app, b) /\ Repeating(b) = Repeating(app) /\ b \in AppRecord
    BY <1>1 DEF Same, AppRecord, Repeating
  <2>2. Step(b, lib, FALSE)
    BY <1>2 DEF RepeatTick
  <2> HIDE DEF b
  <2>3. Tells(app, lib, key, unsaved) => Tells(b, lib, key, unsaved)
    BY <2>1, TellsSame
  <2> QED BY <2>1, <2>2, <2>3, ToldStep
<1>3. CASE RepeatEnd
  <2> DEFINE b == [RepeatStopped(Restored(app)) EXCEPT !.deep = TRUE]
  <2>1. /\ b \in AppRecord /\ b.state = app.info.state /\ b.info = app.info
        /\ b.mic = app.mic /\ b.timers = app.timers \ {"repeat"}
    BY <1>1, RepeatOverFields
  <2>2. Step(b, lib, app.state \notin RepeatStates)
    BY <1>3 DEF RepeatEnd
  <2> HIDE DEF b
  <2>3. ASSUME Tells(app, lib, key, unsaved), app.state \in RepeatStates
        PROVE  Tells(b, lib, key, unsaved)
    <3>1. app.state \in Normal \cup {"audio", "ir", "pre_pairing"} /\ app.state # "audio"
      BY <2>3, StatesDiffer
    <3>2. ~b.mic
      BY <2>1, <2>3, <3>1 DEF Tells
    <3> QED BY <1>1, <2>1, <2>3, <3>1, <3>2, Returns
  <2> QED BY <2>1, <2>2, <2>3, ToldStep
<1> QED BY <1>2, <1>3

(* The update ends; a report that comes a second time finds READY.         *)
LEMMA OtaTold ==
  ASSUME SInv, app_otaStateCb
  PROVE  Told' /\ Own'
<1>1. app \in AppRecord /\ lib \in LibRecord /\ IInv
  BY DEF SInv, IInv, Types
<1>2. /\ OtaFailed \in AppRecord /\ OtaFailed.state = "ready" /\ OtaFailed.info = app.info
      /\ OtaFailed.mic = app.mic /\ OtaFailed.timers = app.timers
  BY <1>1 DEF AppRecord, OtaFailed, States, Normal
<1>3. OtaFailed.state \in Normal /\ OtaFailed.state \notin {"ota", "audio", "ir"} \cup Bonding
  BY <1>2, StatesDiffer
<1>4. ASSUME NEW late \in BOOLEAN,
             lib.ota,
             Step(OtaFailed, [lib EXCEPT !.ota = FALSE, !.late = @ \/ late], app.state # "ota")
      PROVE  Told' /\ Own'
  <2> DEFINE l == [lib EXCEPT !.ota = FALSE, !.late = @ \/ late]
  <2>1. l.ota = FALSE /\ l.pairing = lib.pairing
    BY <1>1 DEF LibRecord
  <2> HIDE DEF l
  <2>2. ASSUME Tells(app, lib, key, unsaved), app.state = "ota"
        PROVE  Tells(OtaFailed, l, key, unsaved)
    <3>1. app.state \notin {"audio"} \cup Bonding
      BY <2>2, StatesDiffer
    <3> QED BY <1>2, <1>3, <1>4, <2>1, <2>2, <3>1 DEF Tells
  <2> QED BY <1>2, <1>4, <2>2, ToldStep DEF l
<1>5. ASSUME Step(OtaFailed, [lib EXCEPT !.late = FALSE], app.state # "ready")
      PROVE  Told' /\ Own'
  <2> DEFINE l == [lib EXCEPT !.late = FALSE]
  <2>1. l.ota = lib.ota /\ l.pairing = lib.pairing
    BY <1>1 DEF LibRecord
  <2> HIDE DEF l
  <2>2. ASSUME Tells(app, lib, key, unsaved), app.state = "ready"
        PROVE  Tells(OtaFailed, l, key, unsaved)
    BY <1>2, <1>3, <2>1, <2>2, StatesDiffer DEF Tells
  <2> QED BY <1>2, <1>5, <2>2, ToldStep DEF l
<1> QED BY <1>4, <1>5 DEF app_otaStateCb

-----------------------------------------------------------------------------
(* Pairing.  The attempt is a handler's: HOME held, or the second one.     *)
LEMMA DoPairTold ==
  ASSUME SInv, NEW a \in AppRecord, zrc_doPair(a), a.state \in Bonding \/ a.state = app.state,
         a.info = app.info, a.mic = app.mic, a.rx = app.rx, a.inPair = app.inPair,
         Tells(app, lib, key, unsaved) =>
           /\ "pair" \notin a.timers
           /\ app.state \in Bonding \/ (app.state = "pre_pairing" /\ a.state = "pairing")
           /\ lib.pairing = "none"
  PROVE  Told' /\ Own'
<1>1. lib \in LibRecord /\ IInv /\ app \in AppRecord
  BY DEF SInv, IInv, Types
<1>2. Tells(app, lib, key, unsaved) =>
        /\ a.state \in Bonding /\ app.state \notin Normal \cup {"ota", "audio", "ir"}
        /\ ~lib.ota /\ ~app.mic /\ lib.pairing = "none" /\ ~app.inPair
        /\ "pair" \notin a.timers
  <2>1. ASSUME Tells(app, lib, key, unsaved)
        PROVE  /\ a.state \in Bonding /\ app.state \notin Normal \cup {"ota", "audio", "ir"}
               /\ lib.pairing = "none" /\ "pair" \notin a.timers
    BY <2>1, StatesDiffer
  <2>2. ASSUME Tells(app, lib, key, unsaved)
        PROVE  ~lib.ota /\ ~app.mic /\ ~app.inPair
    <3>1. ~lib.ota /\ ~app.mic
      BY <2>1, <2>2 DEF Tells
    <3>2. ~app.inPair
      BY <1>1, <2>1, <2>2 DEF IInv, Exclusive
    <3> QED BY <3>1, <3>2
  <2> QED BY <2>1, <2>2
<1>3. \A s : s \in Bonding => s \notin Normal \cup {"ota", "audio", "ir"}
  BY StatesDiffer
<1>4. CASE batt > PairLevel
  <2> DEFINE c == Restored(a)
             b == [c EXCEPT !.deep = TRUE]
  <2>1. /\ c \in AppRecord /\ c.state = a.info.state /\ c.info = a.info /\ c.mic = a.mic
        /\ c.timers = a.timers
    BY EndFields
  <2>2. Step(b, lib, FALSE)
    BY <1>4 DEF zrc_doPair
  <2> HIDE DEF c
  <2>3. /\ b \in AppRecord /\ b.state = app.info.state /\ b.info = app.info /\ b.mic = app.mic
        /\ b.timers = a.timers
    BY <2>1 DEF AppRecord
  <2> HIDE DEF b
  <2>4. ASSUME Tells(app, lib, key, unsaved)
        PROVE  Tells(b, lib, key, unsaved)
    <3>1. app.info \in {Paired, Unpaired}
      BY <1>1, <1>2, <2>4 DEF IInv, Known
    <3>2. app.info.state \in Normal /\ (app.info.state = "ready" <=> app.info.paired)
      BY <3>1, InfoState
    <3>3. b.state \notin {"ota", "audio", "ir"} \cup Bonding
      BY <2>3, <3>2, StatesDiffer
    <3> QED BY <1>2, <2>3, <2>4, <3>2, <3>3 DEF Tells
  <2> QED BY <2>2, <2>3, <2>4, ToldStep
<1>5. CASE ~(batt > PairLevel) /\ a.inPair
  <2>1. Step(a, lib, FALSE)
    BY <1>5 DEF zrc_doPair
  <2>2. ~Tells(app, lib, key, unsaved)
    BY <1>2, <1>5
  <2> QED BY <2>1, <2>2, ToldStep
<1>6. CASE ~(batt > PairLevel) /\ ~a.inPair /\ lib.unpairing
  <2> DEFINE b == [a EXCEPT !.rx = TRUE, !.timers = @ \cup {"pair"}]
  <2>1. /\ b \in AppRecord /\ b.state = a.state /\ b.info = app.info /\ b.mic = app.mic
        /\ "pair" \in b.timers
    BY DEF AppRecord
  <2>2. Step(b, lib, FALSE)
    BY <1>6 DEF zrc_doPair
  <2> HIDE DEF b
  <2>3. Tells(app, lib, key, unsaved) => Tells(b, lib, key, unsaved)
    BY <1>2, <1>3, <2>1 DEF Tells
  <2> QED BY <2>1, <2>2, <2>3, ToldStep
<1>7. CASE ~(batt > PairLevel) /\ ~a.inPair /\ ~lib.unpairing
  <2> DEFINE b == [a EXCEPT !.rx = TRUE, !.state = "pairing", !.inPair = TRUE,
                            !.deep = FALSE]
             l == [lib EXCEPT !.pairing = "search", !.old = lib.tbl]
  <2>1. /\ b \in AppRecord /\ b.state = "pairing" /\ b.info = app.info /\ b.mic = app.mic
        /\ b.timers = a.timers
    BY DEF AppRecord, States, PairingStates
  <2>2. l.pairing = "search" /\ l.ota = lib.ota
    BY <1>1 DEF LibRecord
  <2>3. Step(b, l, FALSE)
    BY <1>7 DEF zrc_doPair
  <2>4. "pairing" \in Bonding
    BY StatesDiffer
  <2> HIDE DEF b, l
  <2>5. Tells(app, lib, key, unsaved) => Tells(b, l, key, unsaved)
    BY <1>2, <1>3, <2>1, <2>2, <2>4 DEF Tells
  <2> QED BY <2>1, <2>3, <2>5, ToldStep
<1> QED BY <1>4, <1>5, <1>6, <1>7

(* HOME held, and the second attempt. *)
LEMMA PairingAskedTold ==
  ASSUME SInv, app_lightOnProgLed \/ PairTimer
  PROVE  Told' /\ Own'
<1>1. app \in AppRecord /\ IInv
  BY DEF SInv, IInv, Types
<1>2. CASE app_lightOnProgLed
  <2> DEFINE a == [app EXCEPT !.state = "pairing"]
  <2>1. /\ a \in AppRecord /\ a.state = "pairing" /\ a.info = app.info /\ a.mic = app.mic
        /\ a.rx = app.rx /\ a.inPair = app.inPair /\ a.timers = app.timers
    BY <1>1 DEF AppRecord, States, PairingStates
  <2>2. zrc_doPair(a) /\ app.state = "pre_pairing"
    BY <1>2 DEF app_lightOnProgLed
  <2>3. "pairing" \in Bonding /\ "pre_pairing" \notin Bonding
    BY StatesDiffer
  <2> HIDE DEF a
  <2>4. Tells(app, lib, key, unsaved) => lib.pairing = "none" /\ "pair" \notin a.timers
    BY <2>1, <2>2, <2>3 DEF Tells
  <2> QED BY <2>1, <2>2, <2>3, <2>4, DoPairTold
<1>3. CASE PairTimer
  <2> DEFINE a == [app EXCEPT !.timers = @ \ {"pair"}]
  <2>1. /\ a \in AppRecord /\ a.state = app.state /\ a.info = app.info /\ a.mic = app.mic
        /\ a.rx = app.rx /\ a.inPair = app.inPair /\ "pair" \notin a.timers
    BY <1>1 DEF AppRecord
  <2>2. zrc_doPair(a) /\ "pair" \in app.timers
    BY <1>3 DEF PairTimer
  <2>3. Tells(app, lib, key, unsaved) => app.state \in Bonding /\ lib.pairing = "none"
    BY <2>2 DEF Tells
  <2> HIDE DEF a
  <2>4. Tells(app, lib, key, unsaved) =>
          /\ "pair" \notin a.timers
          /\ app.state \in Bonding \/ (app.state = "pre_pairing" /\ a.state = "pairing")
          /\ lib.pairing = "none"
    BY <2>1, <2>3
  <2> QED BY <2>1, <2>2, <2>4, DoPairTold
<1> QED BY <1>2, <1>3

(* The stack pairs: the application follows, in the pairing states.        *)
LEMMA BondingTold ==
  ASSUME SInv, zrc_pairCnfCb \/ zrc_checkValidationCb
  PROVE  Told' /\ Own'
<1>1. app \in AppRecord /\ lib \in LibRecord /\ IInv
  BY DEF SInv, IInv, Types
<1>2. lib.pairing # "none"
  BY DEF zrc_pairCnfCb, zrc_checkValidationCb
<1>3. ASSUME NEW b \in AppRecord, NEW l, NEW foreign, Step(b, l, foreign),
             b.state \in Bonding \/ b.state = app.state, b.mic = app.mic,
             b.timers = app.timers, l.pairing # "none", l.ota = lib.ota
      PROVE  Told' /\ Own'
  <2>1. ASSUME Tells(app, lib, key, unsaved)
        PROVE  Tells(b, l, key, unsaved)
    <3>1. app.state \in Bonding /\ "pair" \notin app.timers
      BY <1>2, <2>1 DEF Tells
    <3>2. /\ app.state \notin Normal \cup {"ota", "audio", "ir"}
          /\ b.state \notin Normal \cup {"ota", "audio", "ir"} /\ b.state \in Bonding
      BY <1>3, <3>1, StatesDiffer
    <3> QED BY <1>3, <2>1, <3>1, <3>2 DEF Tells
  <2> QED BY <1>3, <2>1, ToldStep
<1>4. CASE zrc_checkValidationCb
  <2> DEFINE b == [app EXCEPT !.state = "validation"]
  <2>1. b \in AppRecord /\ b.state = "validation" /\ b.mic = app.mic /\ b.timers = app.timers
    BY <1>1 DEF AppRecord, States, PairingStates
  <2>2. Step(b, lib, FALSE)
    BY <1>4 DEF zrc_checkValidationCb
  <2> HIDE DEF b
  <2> QED BY <1>2, <1>3, <2>1, <2>2, StatesDiffer
<1>5. CASE zrc_pairCnfCb
  <2> DEFINE b1 == [app EXCEPT !.rx = FALSE, !.info.paired = TRUE, !.state = "verify"]
             l1 == [lib EXCEPT !.pairing = "bond", !.tbl = TRUE]
             b2 == [app EXCEPT !.rx = FALSE]
             l2 == [lib EXCEPT !.pairing = "failed"]
  <2>1. b1 \in AppRecord /\ b1.state = "verify" /\ b1.mic = app.mic /\ b1.timers = app.timers
    BY <1>1 DEF AppRecord, Info, States, PairingStates
  <2>2. b2 \in AppRecord /\ b2.state = app.state /\ b2.mic = app.mic /\ b2.timers = app.timers
    BY <1>1 DEF AppRecord
  <2>3. l1.pairing # "none" /\ l2.pairing # "none" /\ l1.ota = lib.ota /\ l2.ota = lib.ota
    BY <1>1 DEF LibRecord
  <2>4. Step(b1, l1, app.state # "pairing") \/ Step(b2, l2, FALSE)
    BY <1>5 DEF zrc_pairCnfCb
  <2> HIDE DEF b1, b2, l1, l2
  <2> QED BY <1>3, <2>1, <2>2, <2>3, <2>4, StatesDiffer
<1> QED BY <1>4, <1>5

(* The pairing or the unpairing ends: the state is that of the info.       *)
LEMMA EndsTold ==
  ASSUME SInv, NEW b \in AppRecord, NEW l, NEW foreign, NEW unpair, Left(b, l, foreign),
         Saving(unpair), b.state = b.info.state, b.info \in {Paired, Unpaired},
         b.mic = app.mic, b.timers = app.timers, l.ota = lib.ota, l.pairing = "none",
         ~foreign => app.state \in Bonding \cup Normal,
         lib.pairing # "none" \/ (~foreign => app.state \in Normal)
  PROVE  Told' /\ Own'
<1>1. app \in AppRecord /\ (~crossed => Tells(app, lib, key, unsaved)) /\ key' = key
  BY DEF SInv, IInv, Types, Told, Saving
<1>2. b.state \in Normal /\ (b.state = "ready" <=> b.info.paired)
  BY InfoState
<1>3. ASSUME Tells(app, lib, key, unsaved), ~foreign
      PROVE  Tells(b, l, key', unsaved')
  <2>1. app.state \notin {"ota", "audio", "ir"}
        /\ b.state \notin {"ota", "audio", "ir"} \cup Bonding
    BY <1>2, <1>3, StatesDiffer
  <2>2. "pair" \notin app.timers
    BY <1>3, StatesDiffer DEF Tells
  <2> QED BY <1>1, <1>2, <1>3, <2>1, <2>2 DEF Tells
<1>4. Told'
  BY <1>1, <1>3, LeftSame
<1>5. app'.state = app'.info.state
  BY DEF Left, AppRecord
<1> QED BY <1>4, <1>5 DEF Own

(* The binding.                                                            *)
LEMMA BoundTold ==
  ASSUME SInv, zrc_bondCnfCb
  PROVE  Told' /\ Own'
<1>1. app \in AppRecord /\ lib \in LibRecord /\ IInv /\ lib.pairing # "none"
      /\ nv \in [info : {Paired, Unpaired}, tbl : BOOLEAN]
  BY DEF SInv, IInv, Types, zrc_bondCnfCb
<1> DEFINE foreign == app.state \notin {"pairing", "verify", "validation"}
           done(t) == [lib EXCEPT !.pairing = "none", !.old = FALSE, !.tbl = t]
           unbound == [Bound(Unpaired) EXCEPT !.deep = TRUE]
           restored == [Bound(Paired) EXCEPT !.info = nv.info, !.deep = TRUE]
<1>2. \A t : done(t).ota = lib.ota /\ done(t).pairing = "none"
  BY <1>1 DEF LibRecord
<1>3. \A i \in {Paired, Unpaired} :
        /\ Bound(i) \in AppRecord /\ Bound(i).state = i.state /\ Bound(i).info = i
        /\ Bound(i).mic = app.mic /\ Bound(i).timers = app.timers
  <2> TAKE i \in {Paired, Unpaired}
  <2>1. i \in Info /\ i.state \in Normal
    BY BothAreInfo DEF Info
  <2> QED BY <1>1, <2>1 DEF Bound, AppRecord, States
<1>4. ~foreign => app.state \in Bonding
  BY StatesDiffer
<1>5. /\ unbound \in AppRecord /\ unbound.state = Unpaired.state /\ unbound.info = Unpaired
      /\ unbound.mic = app.mic /\ unbound.timers = app.timers
  BY <1>3 DEF AppRecord
<1>6. /\ restored \in AppRecord /\ restored.state = "ready" /\ restored.info = nv.info
      /\ restored.mic = app.mic /\ restored.timers = app.timers
  <2>1. Bound(Paired).state = "ready"
    BY <1>3 DEF Paired
  <2>2. nv.info \in Info
    BY <1>1, BothAreInfo
  <2> QED BY <1>3, <2>1, <2>2 DEF AppRecord
<1>7. \/ Left(Bound(Paired), done(TRUE), foreign) /\ Saving(FALSE)
      \/ Left(unbound, done(FALSE), foreign) /\ Saving(FALSE)
      \/ lib.old /\ Step(restored, done(TRUE), foreign)
  BY DEF zrc_bondCnfCb
<1> HIDE DEF foreign, done, unbound, restored
<1>8. CASE Left(Bound(Paired), done(TRUE), foreign) /\ Saving(FALSE)
  BY <1>1, <1>2, <1>3, <1>4, <1>8, EndsTold
<1>9. CASE Left(unbound, done(FALSE), foreign) /\ Saving(FALSE)
  BY <1>1, <1>2, <1>4, <1>5, <1>9, EndsTold
<1>10. CASE lib.old /\ Step(restored, done(TRUE), foreign)
  <2>1. ASSUME Tells(app, lib, key, unsaved), ~foreign
        PROVE  Tells(restored, done(TRUE), key, unsaved)
    <3>1. app.state \notin {"ota", "audio", "ir"} /\ "pair" \notin app.timers
      BY <1>1, <1>4, <2>1, StatesDiffer DEF Tells
    <3>2. restored.state \in Normal
          /\ restored.state \notin {"ota", "audio", "ir"} \cup Bonding
      BY <1>6, StatesDiffer
    <3>3. ~unsaved => nv.info.paired
      BY <1>1, <1>10 DEF IInv, Flash, Exclusive
    <3> QED BY <1>2, <1>6, <2>1, <3>1, <3>2, <3>3 DEF Tells
  <2> QED BY <1>6, <1>10, <2>1, ToldStep
<1> QED BY <1>7, <1>8, <1>9, <1>10

(* The unpairing, asked for and confirmed.                                 *)
LEMMA UnpairTold ==
  ASSUME SInv, zrc_doUnpair \/ zrc_cmdSendCb \/ zrc_unPairCnfCb
  PROVE  Told' /\ Own'
<1>1. app \in AppRecord /\ lib \in LibRecord /\ IInv
  BY DEF SInv, IInv, Types
<1>2. /\ Unpairing(lib).ota = lib.ota /\ Unpairing(lib).pairing = lib.pairing
  BY <1>1 DEF Unpairing, LibRecord
<1>3. ASSUME NEW b, NEW l \in {lib, Unpairing(lib)}, Step(b, l, FALSE), Same(app, b),
             Repeating(app) => Repeating(b)
      PROVE  Told' /\ Own'
  <2>1. b \in AppRecord
    BY <1>3 DEF Same
  <2>2. Tells(app, lib, key, unsaved) => Tells(b, l, key, unsaved)
    BY <1>2, <1>3, TellsSame
  <2> QED BY <1>3, <2>1, <2>2, ToldStep
<1>4. CASE zrc_doUnpair
  <2> DEFINE b == [app EXCEPT !.timers = @ \ {"unpair"}, !.deep = FALSE]
  <2>1. Same(app, b) /\ (Repeating(app) => Repeating(b))
    BY <1>1 DEF Same, AppRecord, Repeating
  <2>2. Step(b, Unpairing(lib), FALSE)
    BY <1>4 DEF zrc_doUnpair
  <2> HIDE DEF b
  <2> QED BY <1>3, <2>1, <2>2
<1>5. CASE zrc_cmdSendCb
  <2>1. PICK a \in {app, [app EXCEPT !.deep = FALSE]}, l \in {lib, Unpairing(lib)} :
          \/ Step([RepeatStopped(Restored(a)) EXCEPT !.deep = TRUE], l,
                  a.state \notin RepeatStates)
          \/ Step(a, l, FALSE)
    BY <1>5 DEF zrc_cmdSendCb
  <2>2. Same(app, a) /\ (Repeating(app) => Repeating(a)) /\ a \in AppRecord
        /\ a.timers = app.timers
    BY <1>1 DEF Same, AppRecord, Repeating
  <2>3. CASE Step(a, l, FALSE)
    BY <1>3, <2>2, <2>3
  <2>4. CASE Step([RepeatStopped(Restored(a)) EXCEPT !.deep = TRUE], l,
                  a.state \notin RepeatStates)
    <3> DEFINE b == [RepeatStopped(Restored(a)) EXCEPT !.deep = TRUE]
    <3>1. /\ b \in AppRecord /\ b.state = a.info.state /\ b.info = a.info
          /\ b.mic = a.mic /\ b.timers = a.timers \ {"repeat"}
      BY <2>2, RepeatOverFields
    <3> HIDE DEF b
    <3>2. ASSUME Tells(app, lib, key, unsaved), a.state \in RepeatStates
          PROVE  Tells(b, l, key, unsaved)
      <4>1. app.state \in Normal \cup {"audio", "ir", "pre_pairing"} /\ app.state # "audio"
        BY <2>2, <3>2, StatesDiffer DEF Same
      <4>2. ~b.mic /\ b.state = app.info.state /\ b.info = app.info
        BY <2>2, <3>1, <3>2, <4>1 DEF Tells, Same
      <4> QED BY <1>1, <1>2, <2>2, <3>1, <3>2, <4>1, <4>2, Returns
    <3> QED BY <2>4, <3>1, <3>2, ToldStep DEF b
  <2> QED BY <2>1, <2>3, <2>4
<1>6. CASE zrc_unPairCnfCb
  <2> DEFINE b == [app EXCEPT !.state = "unconnect", !.info = Unpaired, !.deep = TRUE]
             l == [lib EXCEPT !.unpairing = FALSE, !.tbl = FALSE]
             foreign == app.state \notin Normal
  <2>1. /\ b \in AppRecord /\ b.state = "unconnect" /\ b.info = Unpaired
        /\ b.mic = app.mic /\ b.timers = app.timers
    BY <1>1, BothAreInfo DEF AppRecord, States, Normal
  <2>2. b.state = b.info.state
    BY <2>1 DEF Unpaired
  <2>3. lib.pairing = "none"
    BY <1>1, <1>6 DEF IInv, Exclusive, zrc_unPairCnfCb
  <2>4. l.ota = lib.ota /\ l.pairing = "none"
    BY <1>1, <2>3 DEF LibRecord
  <2>5. Left(b, l, foreign) /\ Saving(TRUE)
    BY <1>6 DEF zrc_unPairCnfCb
  <2>6. ~foreign => app.state \in Normal /\ app.state \in Bonding \cup Normal
    OBVIOUS
  <2> HIDE DEF b, l, foreign
  <2> QED BY <2>1, <2>2, <2>4, <2>5, <2>6, EndsTold
<1> QED BY <1>4, <1>5, <1>6

-----------------------------------------------------------------------------
(* The RAM after a start tells what flash says.                            *)
LEMMA BootedTells ==
  ASSUME NEW i \in {Paired, Unpaired}, NEW t, NEW k, NEW u
  PROVE  Tells(Booted(i), IdleLib(t), k, u) /\ Booted(i).state = Booted(i).info.state
<1>1. i.state \in Normal /\ (i.state = "ready" <=> i.paired)
  BY InfoState
<1>2. i.state \notin {"ota", "audio", "ir"} \cup Bonding
  BY <1>1, StatesDiffer
<1>3. /\ Booted(i).state = i.state /\ Booted(i).info = i /\ Booted(i).mic = FALSE
      /\ Booted(i).timers = {}
      /\ IdleLib(t).pairing = "none" /\ IdleLib(t).ota = FALSE
  BY DEF Booted, IdleLib
<1> QED BY <1>1, <1>2, <1>3 DEF Tells

(* So every restart, however many sessions it cuts off, begins well.       *)
LEMMA PowerTold ==
  ASSUME SInv, Power \/ ota_mcuReboot
  PROVE  Told' /\ Own'
<1>1. nv.info \in {Paired, Unpaired}
  BY DEF SInv, IInv, Types
<1>2. CASE Restart
  <2>1. app' = Booted(nv.info) /\ lib' = IdleLib(nv.tbl) /\ save' = "none"
    BY <1>2 DEF Restart
  <2> QED BY <1>1, <2>1, BootedTells DEF Told, Own
<1>3. CASE voltage_detect
  BY <1>3 DEF voltage_detect, SInv, Told, Own
<1> QED BY <1>2, <1>3 DEF Power, DeepSleep, PowerLoss, ota_mcuReboot

(* When flash has caught up the state is still that of the info.           *)
LEMMA SavesTold ==
  ASSUME SInv, Saves
  PROVE  Told' /\ Own'
<1>1. CASE zrc_saveStackInfo
  BY <1>1 DEF zrc_saveStackInfo, SInv, Told, Own
<1>2. CASE save_appInfo
  <2>1. /\ UNCHANGED <<app, lib, key, crossed>> /\ save # "none" /\ save' = "none"
    BY <1>2 DEF save_appInfo
  <2>2. app.info \in {Paired, Unpaired} /\ app.state = app.info.state
    BY <2>1 DEF SInv, IInv, Known, Saved, Own
  <2>3. app.state = "ready" <=> app.info.paired
    BY <2>2, InfoState
  <2>4. Told'
    BY <2>1, <2>3 DEF SInv, Told, Tells
  <2> QED BY <2>1, <2>4 DEF Own
<1> QED BY <1>1, <1>2 DEF Saves

(* Every step keeps what the state tells.                                  *)
LEMMA NextTold ==
  ASSUME SInv, [Next]_vars
  PROVE  Told' /\ Own'
<1>1. CASE KeyEvents
  BY <1>1, KeyPressedTold, KeyReleasedTold DEF KeyEvents
<1>2. CASE app_lightOnProgLed
  BY <1>2, PairingAskedTold
<1>3. CASE Stack
  BY <1>3, BondingTold, BoundTold, UnpairTold, AudioTold DEF Stack
<1>4. CASE Timers
  BY <1>4, PairingAskedTold, UnpairTold, AudioTold, RepeatTold DEF Timers
<1>5. CASE AudioErrors
  BY <1>5, AudioTold
<1>6. CASE Saves
  BY <1>6, SavesTold
<1>7. CASE Updates
  BY <1>7, OtaTold, PowerTold DEF Updates
<1>8. CASE Power
  BY <1>8, PowerTold
<1>9. CASE UNCHANGED vars
  BY <1>9 DEF vars, SInv, Told, Own
<1> QED BY <1>1, <1>2, <1>3, <1>4, <1>5, <1>6, <1>7, <1>8, <1>9 DEF Next

(* Unless a callback has found a state that was not its own, the one state *)
(* variable tells which session the remote is in (rcu_appVars.state,       *)
(* which keys, callbacks and timers all assign).                           *)
THEOREM StateTellsSessionTheorem == Spec => []StateTellsSession
<1>1. Init => SInv
  <2> SUFFICES ASSUME Init PROVE SInv
    OBVIOUS
  <2>1. nv.info \in {Paired, Unpaired}
    BY InitIInv DEF IInv, Types
  <2>2. app = Booted(nv.info) /\ lib = IdleLib(nv.tbl) /\ save = "none"
    BY DEF Init
  <2> QED BY <2>1, <2>2, InitIInv, BootedTells DEF SInv, Told, Own
<1>2. SInv /\ [Next]_vars => SInv'
  <2>1. ASSUME SInv, [Next]_vars
        PROVE  IInv'
    BY <2>1, NextIInv DEF SInv
  <2>2. ASSUME SInv, [Next]_vars
        PROVE  Told' /\ Own'
    BY <2>2, NextTold
  <2> QED BY <2>1, <2>2 DEF SInv
<1>3. SInv => StateTellsSession
  BY DEF SInv, Told, Tells, StateTellsSession, Bonding
<1> QED BY <1>1, <1>2, <1>3, PTL DEF Spec
=============================================================================
