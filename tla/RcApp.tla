--------------------------------- MODULE RcApp ---------------------------------
(***************************************************************************)
(* The application of the remote control (vendor/rc_app, ZRC 2.0).  One    *)
(* state variable is shared by everything the remote does: keys, pairing,  *)
(* unpairing, audio, the firmware update, infrared.  Each of them assigns  *)
(* it from callbacks of the stack and from timers that do not look at      *)
(* whose state they overwrite.                                             *)
(*                                                                         *)
(* The main loop runs one handler at a time.  The stack and the update     *)
(* (Ota) are the environment: they end what was started, at any time; the  *)
(* target answers an audio request late or never.  The remote goes into    *)
(* deep sleep, which loses its RAM, and its supply fails at any step.      *)
(* Its RAM is a record, which each handler takes and leaves.               *)
(*                                                                         *)
(* Left out: LEDs, the frame counter (RcFrameCounter), table slots and     *)
(* stale handles of timers (EvTimer), infrared databases; a save that the  *)
(* flash refuses (NvItems); a second unpair timer while one is running.    *)
(* PRE_CONFIGURE is not reached: no remote registers gdp_cmdCallbacks.     *)
(***************************************************************************)
EXTENDS Integers

CONSTANTS
  Retries,    (* dataReqRetries of app_audioStart                          *)
  Levels,     (* battery levels at power-on: app_batteryDetect             *)
  MaxAsked,   (* bound: answers of the target that are still to come       *)
  MaxRestarts (* bound: restarts (deep sleep, power failure, update)       *)

(* BAT_THRESHOLD_*: a larger level is a lower voltage. *)
OtaLevel   == 1
PairLevel  == 2
FlashLevel == 3
CutOff     == 4

ASSUME RcAppAssumption ==
  /\ Retries \in Nat \ {0}
  /\ {MaxAsked, MaxRestarts} \subseteq Nat
  /\ 0 \in Levels
  /\ Levels \subseteq 0..(CutOff + 1)

VARIABLES
  app,     (* the application's RAM: rcu_appVars, rcu_appInfo, g_uapiVar   *)
  lib,     (* what the stack and the update are doing                      *)
  nv,      (* the saved application info and pairing table                 *)
  save,    (* how far a save of both is                                    *)
  batt,    (* battSta                                                      *)
  key,     (* what is pressed                                              *)
  crossed, (* a callback has overwritten a state that was not its own      *)
  unsaved, (* flash is behind: the battery was low at an unpairing, or the *)
           (* supply failed between the two saves                          *)
  used     (* restarts so far                                              *)

vars == <<app, lib, nv, save, batt, key, crossed, unsaved, used>>

Keys == {"home", "record", "tv", "menu_back", "digit"}

Unpaired == [paired |-> FALSE, state |-> "unconnect"]
Paired   == [paired |-> TRUE, state |-> "ready"]

Normal        == {"unconnect", "ready"}                   (* app_isNormalState *)
PairingStates == {"pre_pairing", "pairing", "verify", "validation"}
States        == Normal \cup PairingStates \cup {"ir", "ota", "audio"}

-----------------------------------------------------------------------------
(* Start: init_rcuState, zrcApp_initPib. *)

Booted(info) ==
  [state |-> info.state, info |-> info, deep |-> TRUE, inPair |-> FALSE,
   rx |-> FALSE, mic |-> FALSE, timers |-> {}, tries |-> 0, last |-> "none"]

IdleLib(tbl) ==
  [pairing |-> "none", unpairing |-> FALSE, ota |-> FALSE, late |-> FALSE,
   asked |-> 0, old |-> FALSE, tbl |-> tbl]

Init ==
  /\ nv \in {[info |-> Unpaired, tbl |-> FALSE], [info |-> Paired, tbl |-> TRUE]}
  /\ app = Booted(nv.info)
  /\ lib = IdleLib(nv.tbl)
  /\ save = "none"
  /\ batt \in Levels
  /\ key = "none"
  /\ crossed = FALSE
  /\ unsaved = FALSE
  /\ used = 0

Restart ==
  /\ used < MaxRestarts
  /\ used' = used + 1
  /\ app' = Booted(nv.info)
  /\ lib' = IdleLib(nv.tbl)
  /\ save' = "none"
  /\ crossed' = FALSE
  /\ unsaved' = ((unsaved \/ save = "app") /\ nv.info.paired # nv.tbl)
  /\ UNCHANGED nv

-----------------------------------------------------------------------------
(* What handlers do to the application's RAM. *)

Restored(a)      == [a EXCEPT !.state = a.info.state]

(* flags.bf.repeat is set exactly while the repeat timer runs. *)
Repeating(a)     == "repeat" \in a.timers
RepeatStopped(a) == [a EXCEPT !.timers = @ \ {"repeat"}]

(* audio_stateSettingCb *)
AudioOpened_NoTimer(a) == (* mutant: nothing ends the session *)
  [a EXCEPT !.state = "audio"]
AudioOpened(a) == [a EXCEPT !.state = "audio", !.timers = @ \cup {"last"}]
AudioIdle(a)   == [Restored(a) EXCEPT !.timers = @ \ {"last"}]

tl_audio_stop(a) == AudioIdle([a EXCEPT !.mic = FALSE, !.rx = TRUE])

(* The states in which each callback finds the remote when the sessions    *)
(* exclude each other.                                                     *)
AudioStates  == Normal \cup {"audio"}
RepeatStates == Normal \cup {"ir"}

(* A handler leaves a and l; foreign is whether it found another state.    *)
(* The last key is looked at only while the repeat timer runs.             *)
Left(a, l, foreign) ==
  /\ app' = IF Repeating(a) THEN a ELSE [a EXCEPT !.last = "none"]
  /\ lib' = l
  /\ crossed' = (crossed \/ foreign)
  /\ UNCHANGED <<nv, used>>

Handled(a, l, foreign) == Left(a, l, foreign) /\ UNCHANGED <<save, unsaved>>

Step(a, l, foreign) ==
  save = "none" /\ Handled(a, l, foreign) /\ UNCHANGED <<batt, key>>

(* A start request is sent; the target's answer may come. *)
Asked == [lib EXCEPT !.asked = IF @ < MaxAsked THEN @ + 1 ELSE @]

-----------------------------------------------------------------------------
(* Keys.  a is the application after press_key_handler stopped the repeat  *)
(* timer of another key.  "menu_back" is the two keys that unpair; two     *)
(* keys have no key code.                                                  *)

HomeKey(k, a) ==
  /\ k = "home"
  /\ LET ir == ~a.info.paired /\ ~Repeating(a) /\ a.state # "ir"
     IN  Handled([Restored(RepeatStopped(a)) EXCEPT
                    !.state = "pre_pairing",
                    !.deep = FALSE,
                    !.rx = IF ir THEN FALSE ELSE @], lib, FALSE)

ReadyForKey(a) == a.info.paired /\ a.state = "ready"

StartAudio(a) == [a EXCEPT !.rx = TRUE, !.tries = Retries,
                           !.timers = @ \cup {"req"}]

RecordKey(k, a) ==
  /\ k = "record"
  /\ ReadyForKey(a)
  /\ IF a.mic THEN Handled(tl_audio_stop(a), lib, FALSE)
     ELSE IF "req" \in a.timers THEN Handled(a, lib, FALSE)
     ELSE Handled(StartAudio(a), Asked, FALSE)

(* profile_getTxStatus may refuse too. *)
TvKey(k, a) ==
  /\ k = "tv"
  /\ ReadyForKey(a)
  /\ ~a.mic
  /\ \/ /\ batt <= OtaLevel
        /\ Handled([a EXCEPT !.state = "ota", !.rx = TRUE],
                   [lib EXCEPT !.ota = TRUE], FALSE)
     \/ Handled([Restored(a) EXCEPT !.deep = TRUE], lib, FALSE)

(* The stack takes the key, and it is repeated, or refuses it. *)
SendKey(k, a) ==
  /\ k = "digit"
  /\ ReadyForKey(a)
  /\ ~a.mic
  /\ \/ Repeating(a) /\ Handled(a, lib, FALSE)
     \/ /\ ~Repeating(a)
        /\ Handled([a EXCEPT !.deep = FALSE,
                             !.timers = @ \cup {"repeat"}], lib, FALSE)
     \/ ~Repeating(a) /\ Handled(a, lib, FALSE)

UnpairKeys(k, a) ==
  /\ k = "menu_back"
  /\ ReadyForKey(a)
  /\ ~a.mic
  /\ Handled([a EXCEPT !.timers = @ \cup {"unpair"}], lib, FALSE)

(* app_sendIRData *)
InfraredKey(k, a) ==
  /\ k \notin {"home", "menu_back"}
  /\ ~a.info.paired
  /\ IF Repeating(a) \/ a.state = "ir" THEN Handled(a, lib, FALSE)
     ELSE Handled([a EXCEPT !.rx = FALSE, !.state = "ir",
                            !.timers = @ \cup {"repeat"}], lib, FALSE)

KeyIgnored(k, a) ==
  /\ k # "home"
  /\ \/ a.info.paired /\ (a.state # "ready" \/ (a.mic /\ k # "record"))
     \/ ~a.info.paired /\ k = "menu_back"
  /\ Handled(a, lib, FALSE)

KeyInSession(k) ==
  IF app.state = "audio"
  THEN LET a == [app EXCEPT !.last = IF k = "menu_back" THEN "none" ELSE k]
       IN  Handled(IF k = "record" THEN tl_audio_stop(a) ELSE a, lib, FALSE)
  ELSE Handled(app, lib, FALSE)

keyScan_keyPressedCB(k) ==
  /\ save = "none"
  /\ k # key
  /\ key' = k
  /\ UNCHANGED batt
  /\ \/ batt > CutOff /\ Handled([app EXCEPT !.deep = TRUE], lib, FALSE)
     \/ /\ batt <= CutOff
        /\ app.state \notin RepeatStates
        /\ KeyInSession(k)
     \/ /\ batt <= CutOff
        /\ app.state \in RepeatStates
        /\ LET code == IF k = "menu_back" THEN "none" ELSE k
               a0   == IF code = "none" \/ code # app.last
                       THEN RepeatStopped(app) ELSE app
               a    == [a0 EXCEPT !.last = code]
           IN  \/ HomeKey(k, a)
               \/ RecordKey(k, a)
               \/ TvKey(k, a)
               \/ SendKey(k, a)
               \/ UnpairKeys(k, a)
               \/ InfraredKey(k, a)
               \/ KeyIgnored(k, a)

keyScan_keyReleasedCB ==
  /\ save = "none"
  /\ key # "none"
  /\ key' = "none"
  /\ UNCHANGED batt
  /\ Handled(IF app.state \in RepeatStates
             THEN [RepeatStopped(Restored(app)) EXCEPT !.deep = TRUE]
             ELSE IF app.state = "pre_pairing"
             THEN [Restored(app) EXCEPT !.deep = TRUE]
             ELSE app, lib, FALSE)

-----------------------------------------------------------------------------
(* Pairing.  The stack confirms the pairing and then, always, the binding; *)
(* ZRC_RESTORE is a failure that leaves the pairing there was.             *)

zrc_doPair(a) ==
  IF batt > PairLevel THEN Step([Restored(a) EXCEPT !.deep = TRUE], lib, FALSE)
  ELSE IF a.inPair THEN Step(a, lib, FALSE)
  ELSE IF lib.unpairing     (* the stack is busy *)
  THEN Step([a EXCEPT !.rx = TRUE, !.timers = @ \cup {"pair"}], lib, FALSE)
  ELSE Step([a EXCEPT !.rx = TRUE, !.state = "pairing", !.inPair = TRUE,
                      !.deep = FALSE],
            [lib EXCEPT !.pairing = "search", !.old = lib.tbl], FALSE)

(* HOME is held for 3 s, longer than an unpair or an audio request lasts. *)
app_lightOnProgLed ==
  /\ app.state = "pre_pairing"
  /\ {"unpair", "req"} \cap app.timers = {}
  /\ zrc_doPair([app EXCEPT !.state = "pairing"])

PairTimer ==
  /\ "pair" \in app.timers
  /\ zrc_doPair([app EXCEPT !.timers = @ \ {"pair"}])

zrc_pairCnfCb ==
  /\ lib.pairing = "search"
  /\ \/ Step([app EXCEPT !.rx = FALSE, !.info.paired = TRUE, !.state = "verify"],
             [lib EXCEPT !.pairing = "bond", !.tbl = TRUE],
             app.state # "pairing")
     \/ Step([app EXCEPT !.rx = FALSE],
             [lib EXCEPT !.pairing = "failed"], FALSE)

zrc_checkValidationCb ==
  /\ lib.pairing = "bond"
  /\ app.state = "verify"
  /\ Step([app EXCEPT !.state = "validation"], lib, FALSE)

Bound(info) == [app EXCEPT !.rx = FALSE, !.inPair = FALSE, !.info = info,
                           !.state = info.state]

Saving_BondOnly(unpair) == (* mutant: an unpairing is not saved *)
  /\ save = "none"
  /\ save' = IF batt <= FlashLevel /\ ~unpair THEN "stack" ELSE "none"
  /\ unsaved' = (unsaved \/ (unpair /\ batt > FlashLevel))
  /\ UNCHANGED <<batt, key>>

(* Both are saved, the stack's table first, unless the battery is low. *)
Saving(unpair) ==
  /\ save = "none"
  /\ save' = IF batt <= FlashLevel THEN "stack" ELSE "none"
  /\ unsaved' = (unsaved \/ (unpair /\ batt > FlashLevel))
  /\ UNCHANGED <<batt, key>>

zrc_bondCnfCb ==
  /\ lib.pairing # "none"
  /\ LET foreign == app.state \notin {"pairing", "verify", "validation"}
         done(t) == [lib EXCEPT !.pairing = "none", !.old = FALSE, !.tbl = t]
     IN  \/ /\ lib.pairing = "bond"
            /\ Left(Bound(Paired), done(TRUE), foreign)
            /\ Saving(FALSE)
         \/ /\ lib.pairing = "failed" \/ lib.pairing = "bond"
            /\ lib.old
            /\ Step([Bound(Paired) EXCEPT !.info = nv.info, !.deep = TRUE],
                    done(TRUE), foreign)
         \/ /\ lib.pairing = "failed" \/ lib.pairing = "bond"
            /\ ~lib.old
            /\ Left([Bound(Unpaired) EXCEPT !.deep = TRUE], done(FALSE), foreign)
            /\ Saving(FALSE)

-----------------------------------------------------------------------------
(* Unpairing *)

(* The stack has nothing to unpair without an entry. *)
Unpairing(l) == [l EXCEPT !.unpairing = @ \/ (l.tbl /\ l.pairing = "none")]

zrc_doUnpair ==
  /\ "unpair" \in app.timers
  /\ Step([app EXCEPT !.timers = @ \ {"unpair"}, !.deep = FALSE],
          Unpairing(lib), FALSE)

zrc_unPairCnfCb ==
  /\ lib.unpairing
  /\ Left([app EXCEPT !.state = "unconnect", !.info = Unpaired, !.deep = TRUE],
          [lib EXCEPT !.unpairing = FALSE, !.tbl = FALSE],
          app.state \notin Normal)
  /\ Saving(TRUE)

(* The frame counter is exhausted: unpair.  A key that is not sent ends    *)
(* its repetition.                                                         *)
zrc_cmdSendCb ==
  /\ lib.tbl
  /\ lib.pairing = "none"
  /\ \E expired \in BOOLEAN :
       LET a == IF expired THEN [app EXCEPT !.deep = FALSE] ELSE app
           l == IF expired THEN Unpairing(lib) ELSE lib
       IN  \/ /\ Repeating(a)
              /\ Step([RepeatStopped(Restored(a)) EXCEPT !.deep = TRUE], l,
                      a.state \notin RepeatStates)
           \/ Step(a, l, FALSE)

zrc_saveStackInfo ==
  /\ save = "stack"
  /\ save' = "app"
  /\ nv' = [nv EXCEPT !.tbl = lib.tbl]
  /\ UNCHANGED <<app, lib, batt, key, crossed, unsaved, used>>

save_appInfo_StackOnly == (* mutant: the application's info is not saved *)
  /\ save = "app"
  /\ save' = "none"
  /\ unsaved' = FALSE
  /\ UNCHANGED <<app, lib, nv, batt, key, crossed, used>>

save_appInfo ==
  /\ save = "app"
  /\ save' = "none"
  /\ nv' = [nv EXCEPT !.info = app.info]
  /\ unsaved' = FALSE
  /\ UNCHANGED <<app, lib, batt, key, crossed, used>>

-----------------------------------------------------------------------------
(* Audio *)

audioStartReqTimeout_OneMore == (* mutant: the count passes zero *)
  /\ "req" \in app.timers
  /\ IF app.tries < 0
     THEN Step([AudioIdle(app) EXCEPT !.timers = @ \ {"req"}, !.rx = FALSE],
               lib, app.state \notin AudioStates)
     ELSE Step([app EXCEPT !.tries = @ - 1], Asked, FALSE)

audioStartReqTimeout ==
  /\ "req" \in app.timers
  /\ IF app.tries = 0
     THEN Step([AudioIdle(app) EXCEPT !.timers = @ \ {"req"}, !.rx = FALSE],
               lib, app.state \notin AudioStates)
     ELSE Step([app EXCEPT !.tries = @ - 1], Asked, FALSE)

(* The start response opens the microphone, whether a request is waiting   *)
(* for it or not.                                                          *)
audioStartRsp ==
  /\ lib.asked > 0
  /\ lib.tbl
  /\ app.rx
  /\ Step([AudioOpened(app) EXCEPT !.mic = TRUE, !.timers = @ \ {"req"}],
          [lib EXCEPT !.asked = @ - 1], app.state \notin {"ready", "audio"})

audioLastTimeoutCb ==
  /\ "last" \in app.timers
  /\ Step(tl_audio_stop(app), lib, app.state \notin AudioStates)

AudioErrors_Silent == (* mutant: the application is not told *)
  /\ app.mic
  /\ Step([app EXCEPT !.mic = FALSE], lib, app.state \notin AudioStates)

(* tl_audioDataSend gives up after AudioErrTimes. *)
AudioErrors ==
  /\ app.mic
  /\ Step(AudioIdle([app EXCEPT !.mic = FALSE]), lib,
          app.state \notin AudioStates)

-----------------------------------------------------------------------------
(* app_sendRepeateDataTimerCb: key 0xff never starts the timer. *)

RepeatTick ==
  /\ Repeating(app)
  /\ app.deep
  /\ Step([app EXCEPT !.deep = FALSE], lib, FALSE)

RepeatEnd ==
  /\ Repeating(app)
  /\ Step([RepeatStopped(Restored(app)) EXCEPT !.deep = TRUE], lib,
          app.state \notin RepeatStates)

-----------------------------------------------------------------------------
(* The update ends (Ota!SessionReported); a session that failed may report *)
(* a second time (Ota's pending timers).                                   *)

OtaFailed == [app EXCEPT !.state = "ready", !.rx = FALSE]

app_otaStateCb ==
  \/ /\ lib.ota
     /\ \E late \in BOOLEAN :
          Step(OtaFailed, [lib EXCEPT !.ota = FALSE, !.late = @ \/ late],
               app.state # "ota")
  \/ /\ lib.late
     /\ Step(OtaFailed, [lib EXCEPT !.late = FALSE], app.state # "ready")

ota_mcuReboot ==
  /\ save = "none"
  /\ lib.ota
  /\ Restart
  /\ UNCHANGED <<batt, key>>

-----------------------------------------------------------------------------
(* Power.  Short timers do not last for the 60 s without a key after which *)
(* allowedDeep is not looked at; a pressed key wakes the remote at once.   *)

app_isIdle ==
  /\ app.state \notin PairingStates \cup {"ota", "ir"}
  /\ ~app.mic

stack_allow_suspend == lib.pairing = "none" /\ ~lib.unpairing

app_allowedDeep ==
  \/ {"unpair", "req", "repeat", "pair"} \cap app.timers = {}
  \/ app.deep /\ app.timers = {}

DeepSleep ==
  /\ save = "none"
  /\ stack_allow_suspend
  /\ app_isIdle
  /\ app_allowedDeep
  /\ key = "none" \/ batt > CutOff
  /\ Restart
  /\ UNCHANGED <<batt, key>>

PowerLoss ==
  /\ Restart
  /\ batt' \in Levels
  /\ UNCHANGED key

(* A level that is too low for the flash is a power failure. *)
voltage_detect ==
  /\ save = "none"
  /\ ~app.mic
  /\ batt' \in Levels \cap 0..FlashLevel
  /\ batt' # batt
  /\ UNCHANGED <<app, lib, nv, save, key, crossed, unsaved, used>>

-----------------------------------------------------------------------------
KeyEvents == (\E k \in Keys : keyScan_keyPressedCB(k)) \/ keyScan_keyReleasedCB

Stack ==
  \/ zrc_pairCnfCb
  \/ zrc_checkValidationCb
  \/ zrc_bondCnfCb
  \/ zrc_unPairCnfCb
  \/ zrc_cmdSendCb
  \/ audioStartRsp

Timers ==
  \/ PairTimer
  \/ zrc_doUnpair
  \/ audioStartReqTimeout
  \/ audioLastTimeoutCb
  \/ RepeatTick
  \/ RepeatEnd

Saves == zrc_saveStackInfo \/ save_appInfo

Updates == app_otaStateCb \/ ota_mcuReboot

Power == DeepSleep \/ PowerLoss \/ voltage_detect

Next ==
  \/ KeyEvents
  \/ app_lightOnProgLed
  \/ Stack
  \/ Timers
  \/ AudioErrors
  \/ Saves
  \/ Updates
  \/ Power

Spec == Init /\ [][Next]_vars

(* The main loop serves every timer that is due and finishes its saves;    *)
(* the stack confirms what it was asked; the update ends.  Nothing is      *)
(* assumed of keys, of the target or of the battery.                       *)
Fairness ==
  /\ WF_vars(app_lightOnProgLed)
  /\ WF_vars(PairTimer)
  /\ WF_vars(zrc_doUnpair)
  /\ WF_vars(audioStartReqTimeout)
  /\ SF_vars(audioLastTimeoutCb)
  /\ WF_vars(RepeatEnd)
  /\ WF_vars(Saves)
  /\ WF_vars(zrc_pairCnfCb)
  /\ WF_vars(zrc_bondCnfCb)
  /\ WF_vars(zrc_unPairCnfCb)
  /\ WF_vars(app_otaStateCb)

FairSpec == Spec /\ Fairness

-----------------------------------------------------------------------------
(* The variables have their types. *)
TypeOK ==
  /\ app.state \in States
  /\ app.info \in [paired : BOOLEAN, state : Normal]
  /\ app.timers \subseteq {"repeat", "unpair", "pair", "req", "last"}
  /\ app.tries \in 0..Retries
  /\ app.last \in Keys \cup {"none"}
  /\ {app.deep, app.inPair, app.rx, app.mic} \subseteq BOOLEAN
  /\ lib.pairing \in {"none", "search", "bond", "failed"}
  /\ lib.asked \in 0..MaxAsked
  /\ {lib.unpairing, lib.ota, lib.late, lib.old, lib.tbl} \subseteq BOOLEAN
  /\ nv.tbl \in BOOLEAN
  /\ save \in {"none", "stack", "app"}
  /\ batt \in Levels
  /\ key \in Keys \cup {"none"}

(* Unless a callback has found a state that was not its own, the one state *)
(* variable tells what is going on: it says OTA exactly while an update    *)
(* runs, which then hears its answers; AUDIO exactly while the microphone  *)
(* is open; one of the pairing states exactly while the stack pairs or is  *)
(* to be asked again; SENDING_IR while a code is repeated or a key held;   *)
(* and what it returns to is whether there is a pairing.  (The last does   *)
(* not hold when flash is behind: a bonding that fails with ZRC_RESTORE    *)
(* sets READY and then reads an info without a pairing.)                   *)
StateTellsSession ==
  ~crossed =>
    /\ (app.state = "ota") <=> lib.ota
    /\ lib.ota => app.rx
    /\ (app.state = "audio") <=> app.mic
    /\ (app.state \in PairingStates \ {"pre_pairing"})
         <=> (lib.pairing # "none" \/ "pair" \in app.timers)
    /\ app.state = "ir" => ~app.info.paired /\ (Repeating(app) \/ key # "none")
    /\ app.state \in Normal /\ ~unsaved =>
         (app.state = "ready" <=> app.info.paired)

(* When the stack is not pairing, the application believes in a pairing    *)
(* only if the stack has its entry, whatever restarts in between, unless   *)
(* flash is behind.                                                        *)
PairingKnown ==
  app.info.paired /\ lib.pairing = "none" /\ ~unsaved => lib.tbl

(* Deep sleep, which loses the RAM, forgets no pairing and brings none     *)
(* back: the remote wakes up with the pairing it had, unless the unpairing *)
(* could not be saved.                                                     *)
SleepKeepsPairing ==
  [][DeepSleep /\ ~unsaved => app'.info = app.info /\ lib'.tbl = lib.tbl]_vars

(* Whatever crosses, every session ends: the remote returns to a normal    *)
(* state with the microphone closed, without any key or answer.  Only a    *)
(* key pressed during another one's code leaves it in SENDING_IR, where    *)
(* nothing is sent any more, for as long as it is held.                    *)
Held == app.state = "ir" /\ key # "none"

ComesToRest ==
  app.state \notin Normal \/ app.mic
    ~> (app.state \in Normal /\ ~app.mic) \/ Held
=============================================================================
